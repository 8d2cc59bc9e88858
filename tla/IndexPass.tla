----------------------------- MODULE IndexPass -----------------------------
(***************************************************************************)
(* An indexing pass over the file system: ConfIndexer::index() with its    *)
(* FsIndexer and its Rcl::Db.  The walker puts every file of the tree on   *)
(* m_iwqueue; the internfile workers compare the file with the index,      *)
(* extract its documents and put them on m_dwqueue; the split workers pass *)
(* them to the write queue of the index, whose one thread writes them.     *)
(* Every document that was written or found up to date has its bit set in  *)
(* `updated', and purge() deletes those whose bit is off.                  *)
(*                                                                         *)
(* The three queues keep the promises that TaskPool states; a worker of an *)
(* aborted queue quits when it comes back to it, and here it always comes  *)
(* back (WorkQueueHang shows that it may not).  A pass is run with         *)
(* IxFDoPurge and in a process of its own.  The files appeared, changed    *)
(* and disappeared before the first pass; the tree stays from then on.     *)
(***************************************************************************)
EXTENDS Integers, Sequences, FiniteSets

CONSTANTS
    Files,          \* the paths that may exist under the top directories
    Kids,           \* the subdocuments (messages, archive members) of the files
    Parent,         \* the file of a subdocument
    Versions,       \* the states of a file that differ in their signature
    Parts,          \* the subdocuments that a file has in a version
    Beneath,        \* the files whose path begins with the path of a file
    InternWorkers, SplitWorkers,
    InternHigh, SplitHigh, WriteHigh,   \* the lengths of the three queues
    Faults,         \* what may go wrong, see below
    MaxPasses,
    NoFile, NoDoc   \* what a worker without a file or a document has

ASSUME DocsAssumption ==
    /\ Files \cap Kids = {} /\ NoFile \notin Files /\ Parent \in [Kids -> Files]
    /\ Versions \subseteq Nat \ {0}
    /\ Parts \in [Files -> [Versions -> SUBSET Kids]]
    /\ \A f \in Files, v \in Versions : \A k \in Parts[f][v] : Parent[k] = f
    /\ Beneath \in [Files -> SUBSET Files] /\ \A f \in Files : f \in Beneath[f]
ASSUME WorkersAssumption ==
    /\ IsFiniteSet(InternWorkers) /\ IsFiniteSet(SplitWorkers)
    /\ InternWorkers # {} /\ SplitWorkers # {}
ASSUME BoundsAssumption == {InternHigh, SplitHigh, WriteHigh, MaxPasses} \subseteq Nat \ {0}

(* interrupt: the user asks recollindex to stop.                           *)
(* early: a handler fails before it returned the file's own document.      *)
(* late: it fails after that.                                              *)
(* write: the index refuses a document (file system full, Xapian error).   *)
(* read: it cannot be read.                                                *)
(* unmounted: the volume of the tree is not there, its mount point is empty. *)
ASSUME FaultsAssumption ==
    Faults \subseteq {"interrupt", "early", "late", "read", "write", "unmounted"}

VARIABLES
    disk,       \* the version of each file, 0 when it does not exist
    mounted,    \* the walk of this pass saw the tree
    index,      \* the version each document was indexed from, 0 when it is not
    failed,     \* the files indexed with the signature of a failure ("+")
    known,      \* the documents that have a bit in updated
    updated,    \* those whose bit is on
    cutshort,   \* history: the files that this pass left halfway: their handler
                \* failed late, the index could not be read, or a worker gave up
                \* with the file or one of its documents in its hands
    stop,       \* stopindexing
    main,       \* where the main thread is
    towalk,     \* the files the walker has not come to
    file,       \* the file it is putting
    walkok,
    passes,
    iw, dw, wq, \* m_iwqueue, m_dwqueue and the write queue
    intern, split, writer   \* the workers of the three

store == <<index, failed, known, updated, cutshort>>
walk == <<mounted, towalk, file, walkok, passes>>
workers == <<intern, split, writer>>
vars == <<disk, store, stop, main, walk, iw, dw, wq, workers>>

Udis == Files \cup Kids
FileOf(u) == IF u \in Files THEN u ELSE Parent[u]
PartsNow(f) == IF disk[f] = 0 THEN {} ELSE Parts[f][disk[f]]

(* The documents that the present files hold. *)
Live == {f \in Files : disk[f] # 0} \cup {k \in Kids : k \in PartsNow(Parent[k])}

Docs == [udi : Udis, ver : Versions, plus : BOOLEAN]
Queues(T) == [q : Seq(T), open : BOOLEAN, exited : Nat]

MainPC == {"idle", "walk", "put", "close", "drainIntern", "drainSplit", "drainWrite",
           "walked", "purge", "complete", "cut"}

(* An internfile worker has a file, the documents it has still to launch   *)
(* and the one it is putting; the others have at most a document.          *)
InternStates == [at : {"idle", "check", "extract", "put", "look", "gone"},
                 file : Files \cup {NoFile}, todo : SUBSET Udis, doc : Docs \cup {NoDoc}]
SplitStates == [at : {"idle", "split", "put", "gone"}, doc : Docs \cup {NoDoc}]
WriterStates == [at : {"idle", "write", "gone"}, doc : Docs \cup {NoDoc}]

Resting == [at |-> "idle", file |-> NoFile, todo |-> {}, doc |-> NoDoc]
Free == [at |-> "idle", doc |-> NoDoc]
NewQueue == [q |-> << >>, open |-> TRUE, exited |-> 0]

TypeOK ==
    /\ disk \in [Files -> Versions \cup {0}]
    /\ index \in [Udis -> Versions \cup {0}]
    /\ failed \subseteq Files /\ known \subseteq Udis /\ updated \subseteq known
    /\ cutshort \subseteq Files
    /\ {mounted, stop, walkok} \subseteq BOOLEAN /\ main \in MainPC
    /\ towalk \subseteq Files /\ file \in Files \cup {NoFile}
    /\ passes \in 0 .. MaxPasses
    /\ iw \in Queues(Files) /\ Len(iw.q) <= InternHigh
    /\ dw \in Queues(Docs) /\ Len(dw.q) <= SplitHigh
    /\ wq \in Queues(Docs) /\ Len(wq.q) <= WriteHigh
    /\ intern \in [InternWorkers -> InternStates]
    /\ split \in [SplitWorkers -> SplitStates]
    /\ writer \in WriterStates

(* The index as a complete pass over an older tree left it. *)
Init ==
    /\ disk \in [Files -> Versions \cup {0}]
    /\ \E old \in [Files -> Versions \cup {0}] :
           /\ failed \in SUBSET {f \in Files : old[f] # 0 /\ "early" \in Faults}
           /\ index = [u \in Udis |->
                  LET f == FileOf(u)
                  IN  IF u \in Files \/ (old[f] # 0 /\ f \notin failed /\ u \in Parts[f][old[f]])
                      THEN old[f] ELSE 0]
    /\ known = {} /\ updated = {} /\ cutshort = {}
    /\ mounted = TRUE /\ stop = FALSE /\ main = "idle"
    /\ towalk = {} /\ file = NoFile /\ walkok = TRUE /\ passes = 0
    /\ iw = NewQueue /\ dw = NewQueue /\ wq = NewQueue
    /\ intern = [w \in InternWorkers |-> Resting]
    /\ split = [w \in SplitWorkers |-> Free]
    /\ writer = Free

-----------------------------------------------------------------------------
(* The queues, as their clients and workers see them.                      *)
Ok(p) == p.exited = 0
Offered(p) == Ok(p) /\ p.open               \* put() lets the task in
Pushed(p, t) == [p EXCEPT !.q = Append(@, t)]
Popped(p) == [p EXCEPT !.q = Tail(@)]
Quit(p) == [p EXCEPT !.exited = @ + 1]      \* workerExit()
Closed(p) == [p EXCEPT !.open = FALSE]      \* closeShop()

(* waitIdle() returns: n workers, of which `resting' are back in take(). *)
Drained(p, resting, n) ==
    /\ p.q = << >> \/ p.exited = n
    /\ resting + p.exited = n

-----------------------------------------------------------------------------
(* The main thread.                                                        *)

(* Db::open(), preparePurge("FS"): a bit for every document of the index,  *)
(* all off; a new FsIndexer with its queues.                               *)
StartPass ==
    /\ main = "idle" /\ passes < MaxPasses
    /\ known' = {u \in Udis : index[u] # 0}
    /\ cutshort' = {}
    /\ stop' = FALSE
    /\ main' = "walk" /\ walkok' = TRUE /\ file' = NoFile
    /\ iw' = NewQueue /\ dw' = NewQueue /\ wq' = NewQueue
    /\ intern' = [w \in InternWorkers |-> Resting]
    /\ split' = [w \in SplitWorkers |-> Free]
    /\ writer' = Free
    /\ UNCHANGED <<disk, index, failed, passes>>

(* Faulty: the documents of a tree that is not there are not marked. *)
BeginUnmarked ==
    /\ StartPass
    /\ mounted' \in {TRUE} \cup {m \in {FALSE} : "unmounted" \in Faults}
    /\ updated' = {}
    /\ towalk' = IF mounted' THEN {f \in Files : disk[f] # 0} ELSE {}

(* The walk starts; that of an empty top directory is skipped, and         *)
(* udiTreeMarkExisting() sets the bits of all that was indexed from it.    *)
BeginPass ==
    /\ StartPass
    /\ mounted' \in {TRUE} \cup {m \in {FALSE} : "unmounted" \in Faults}
    /\ updated' = IF mounted' THEN {} ELSE known'
    /\ towalk' = IF mounted' THEN {f \in Files : disk[f] # 0} ELSE {}

(* processone(): the interrupt is looked at first, then the queue. *)
WalkFile(f) ==
    /\ main = "walk" /\ f \in towalk
    /\ ~stop /\ Offered(iw)
    /\ main' = "put" /\ file' = f
    /\ UNCHANGED <<disk, mounted, store, stop, towalk, walkok, passes, iw, dw, wq, workers>>

WalkPut ==
    /\ main = "put" /\ Ok(iw) /\ Len(iw.q) < InternHigh
    /\ iw' = Pushed(iw, file)
    /\ main' = "walk" /\ towalk' = towalk \ {file} /\ file' = NoFile
    /\ UNCHANGED <<disk, mounted, store, stop, walkok, passes, dw, wq, workers>>

(* FtwStop or FtwError: the walk is abandoned. *)
WalkFails ==
    /\ \/ main = "walk" /\ towalk # {} /\ (stop \/ ~Offered(iw))
       \/ main = "put" /\ ~Ok(iw)
    /\ walkok' = FALSE /\ main' = "close"
    /\ UNCHANGED <<disk, mounted, store, stop, towalk, file, passes, iw, dw, wq, workers>>

WalkEnds ==
    /\ main = "walk" /\ towalk = {}
    /\ main' = "drainIntern"
    /\ UNCHANGED <<disk, store, stop, walk, iw, dw, wq, workers>>

(* shutdownQueues() after a failed walk closes the three queues.  Each     *)
(* flag is read by one stage, and what a refused stage does lets the next  *)
(* one do nothing more: three writes are no more than one.                 *)
CloseShops ==
    /\ main = "close"
    /\ iw' = Closed(iw) /\ dw' = Closed(dw) /\ wq' = Closed(wq)
    /\ main' = "drainIntern"
    /\ UNCHANGED <<disk, store, stop, walk, workers>>

InternDrained ==
    Drained(iw, Cardinality({w \in InternWorkers : intern[w].at = "idle"}),
            Cardinality(InternWorkers))
SplitDrained ==
    Drained(dw, Cardinality({w \in SplitWorkers : split[w].at = "idle"}),
            Cardinality(SplitWorkers))
WriteDrained == Drained(wq, IF writer.at = "idle" THEN 1 ELSE 0, 1)

(* Faulty: the queues are waited for from the last one to the first. *)
DrainBackwards ==
    /\ \/ main = "drainIntern" /\ WriteDrained /\ main' = "drainSplit"
       \/ main = "drainSplit" /\ SplitDrained /\ main' = "drainWrite"
       \/ main = "drainWrite" /\ InternDrained /\ main' = "walked"
    /\ UNCHANGED <<disk, store, stop, walk, iw, dw, wq, workers>>

(* The waits of shutdownQueues().  What they return is ignored. *)
Drain ==
    /\ \/ main = "drainIntern" /\ InternDrained /\ main' = "drainSplit"
       \/ main = "drainSplit" /\ SplitDrained /\ main' = "drainWrite"
       \/ main = "drainWrite" /\ WriteDrained /\ main' = "walked"
    /\ UNCHANGED <<disk, store, stop, walk, iw, dw, wq, workers>>

(* The status test before the purge: the walk went well and nobody asked   *)
(* to stop.                                                                *)
GoPurge ==
    /\ main = "walked" /\ walkok /\ ~stop
    /\ main' = "purge"
    /\ UNCHANGED <<disk, store, stop, walk, iw, dw, wq, workers>>

(* The documents whose bit is off are deleted. *)
Deleted(gone) ==
    /\ index' = [u \in Udis |-> IF u \in gone THEN 0 ELSE index[u]]
    /\ failed' = failed \ gone

Purge ==
    /\ main = "purge"
    /\ Deleted(known \ updated)
    /\ main' = "complete"
    /\ UNCHANGED <<disk, known, updated, cutshort, stop, walk, iw, dw, wq, workers>>

(* Some of them only: the user asks to stop meanwhile, or Xapian fails. *)
PurgeCut ==
    /\ main = "purge" /\ (stop \/ "write" \in Faults)
    /\ \E gone \in SUBSET (known \ updated) : Deleted(gone)
    /\ main' = "cut"
    /\ UNCHANGED <<disk, known, updated, cutshort, stop, walk, iw, dw, wq, workers>>

(* Db::close(), after the purge or without it. *)
EndPass ==
    /\ main \in {"complete", "cut"} \/ (main = "walked" /\ (~walkok \/ stop))
    /\ main' = "idle" /\ passes' = passes + 1
    /\ UNCHANGED <<disk, mounted, store, stop, towalk, file, walkok, iw, dw, wq, workers>>

Interrupt ==
    /\ "interrupt" \in Faults /\ main # "idle" /\ ~stop
    /\ stop' = TRUE
    /\ UNCHANGED <<disk, store, main, walk, iw, dw, wq, workers>>

-----------------------------------------------------------------------------
(* The internfile workers: processonefile().                               *)
InternTakes(w) ==
    /\ intern[w].at = "idle" /\ Ok(iw) /\ iw.q # << >>
    /\ iw' = Popped(iw)
    /\ intern' = [intern EXCEPT ![w].at = "check", ![w].file = Head(iw.q)]
    /\ UNCHANGED <<disk, store, stop, main, walk, dw, wq, split, writer>>

(* FtwStop and FtwError end the worker, as an aborted queue does. *)
InternQuits(w) ==
    /\ intern' = [intern EXCEPT ![w] = [Resting EXCEPT !.at = "gone"]]
    /\ iw' = Quit(iw)

(* The same in the middle of a file. *)
LeavesFile(w) ==
    /\ InternQuits(w)
    /\ cutshort' = cutshort \cup {intern[w].file}

InternAborted(w) ==
    /\ intern[w].at = "idle" /\ ~Ok(iw)
    /\ InternQuits(w)
    /\ UNCHANGED <<disk, store, stop, main, walk, dw, wq, split, writer>>

(* Faulty: only new files are reindexed. *)
NeedUpdateNew(f) == index[f] = 0

(* needUpdate(): the signature of the file against the one in the index. *)
NeedUpdate(f) == index[f] # disk[f] \/ f \in failed

(* setExistingFlags(): the bits of a document and of its subdocuments, for *)
(* those that have one.                                                    *)
Existing(f) ==
    IF f \in known
    THEN {f} \cup {k \in known : k \in Kids /\ Parent[k] = f /\ index[k] # 0} ELSE {}

(* Faulty: the subdocuments are forgotten. *)
UpToDateAlone(w) ==
    LET f == intern[w].file
    IN  /\ intern[w].at = "check" /\ ~NeedUpdate(f)
        /\ updated' = updated \cup ({f} \cap known)
        /\ IF stop THEN InternQuits(w)
           ELSE intern' = [intern EXCEPT ![w] = Resting] /\ UNCHANGED iw
        /\ UNCHANGED <<disk, index, failed, known, cutshort, stop, main, walk, dw, wq, split, writer>>

(* Nothing to do but to set the bits; then the interrupt is looked at. *)
UpToDate(w) ==
    LET f == intern[w].file
    IN  /\ intern[w].at = "check" /\ ~NeedUpdate(f)
        /\ updated' = updated \cup Existing(f)
        /\ IF stop THEN InternQuits(w)
           ELSE intern' = [intern EXCEPT ![w] = Resting] /\ UNCHANGED iw
        /\ UNCHANGED <<disk, index, failed, known, cutshort, stop, main, walk, dw, wq, split, writer>>

(* When Xapian fails needUpdate() says no and sets no bit; or it sets that *)
(* of the file, and the subdocuments are not found.                        *)
ReadFails(w) ==
    LET f == intern[w].file
    IN  /\ "read" \in Faults /\ intern[w].at = "check"
        /\ \/ UNCHANGED updated
           \/ ~NeedUpdate(f) /\ updated' = updated \cup ({f} \cap known)
        /\ cutshort' = cutshort \cup {f}
        /\ IF stop THEN InternQuits(w)
           ELSE intern' = [intern EXCEPT ![w] = Resting] /\ UNCHANGED iw
        /\ UNCHANGED <<disk, index, failed, known, stop, main, walk, dw, wq, split, writer>>

(* Also a file whose signature could not be read.                          *)
OutOfDate(w) ==
    LET f == intern[w].file
    IN  /\ intern[w].at = "check" /\ (NeedUpdate(f) \/ "read" \in Faults)
        /\ intern' = [intern EXCEPT ![w].at = "extract", ![w].todo = {f} \cup PartsNow(f)]
        /\ UNCHANGED <<disk, store, stop, main, walk, iw, dw, wq, split, writer>>

(* launchAddOrUpdate(): the documents come in the order of the handler,    *)
(* the file's own first (a message) or last (an mbox), and put() refuses   *)
(* or lets in.                                                             *)
Launch(w, d) ==
    IF Offered(dw)
    THEN intern' = [intern EXCEPT ![w].at = "put", ![w].doc = d] /\ UNCHANGED <<iw, cutshort>>
    ELSE LeavesFile(w)

Extract(w, u) ==
    /\ intern[w].at = "extract" /\ u \in intern[w].todo
    /\ Launch(w, [udi |-> u, ver |-> disk[intern[w].file], plus |-> FALSE])
    /\ UNCHANGED <<disk, index, failed, known, updated, stop, main, walk, dw, wq, split, writer>>

(* FIError: the file's document stands for what could not be extracted.    *)
FailsEarly(w) ==
    LET f == intern[w].file
    IN  /\ "early" \in Faults
        /\ intern[w].at = "extract" /\ f \in intern[w].todo
        /\ Launch(w, [udi |-> f, ver |-> disk[f], plus |-> TRUE])
        /\ UNCHANGED <<disk, index, failed, known, updated, stop, main, walk, dw, wq, split, writer>>

(* After the file's document, an error is the end of the file. *)
FailsLate(w) ==
    /\ "late" \in Faults
    /\ intern[w].at = "extract" /\ intern[w].file \notin intern[w].todo
    /\ intern' = [intern EXCEPT ![w] = Resting]
    /\ cutshort' = cutshort \cup {intern[w].file}
    /\ UNCHANGED <<disk, index, failed, known, updated, stop, main, walk, iw, dw, wq, split, writer>>

(* Before each document internfile() looks at the interrupt itself.        *)
InternCancelled(w) ==
    /\ intern[w].at = "extract" /\ stop
    /\ LeavesFile(w)
    /\ UNCHANGED <<disk, index, failed, known, updated, stop, main, walk, dw, wq, split, writer>>

(* What is left of a file once its worker's document is put: nothing, when *)
(* the document stands for a failure.                                      *)
Left(me) == IF me.doc.plus THEN {} ELSE me.todo \ {me.doc.udi}

(* Room on the queue, or the end of the wait.  The interrupt is looked at  *)
(* next, unless the handler returned no document for the file itself and   *)
(* this is the one that is made in the end.                                *)
InternPut(w) ==
    LET me == intern[w]
    IN  /\ me.at = "put" /\ Ok(dw) /\ Len(dw.q) < SplitHigh
        /\ dw' = Pushed(dw, me.doc)
        /\ \/ intern' = [intern EXCEPT ![w].at = "look"]
           \/ /\ Left(me) = {} /\ me.doc.udi \in Files /\ ~me.doc.plus
              /\ intern' = [intern EXCEPT ![w] = Resting]
        /\ UNCHANGED <<disk, store, stop, main, walk, iw, wq, split, writer>>

InternStopped(w) ==
    /\ intern[w].at = "look" /\ stop
    /\ LeavesFile(w)
    /\ UNCHANGED <<disk, index, failed, known, updated, stop, main, walk, dw, wq, split, writer>>

(* udiTreeMarkExisting(): what the index holds of a file, and of those     *)
(* whose path its own is the beginning of.                                 *)
Tree(f) == {u \in known : FileOf(u) \in Beneath[f] /\ index[u] # 0}

(* On to the next document, or to the next file; the document of a failed  *)
(* file is followed by udiTreeMarkExisting().                              *)
InternGoesOn(w) ==
    LET me == intern[w]
    IN  /\ me.at = "look" /\ ~stop
        /\ intern' = [intern EXCEPT ![w] = IF Left(me) = {} THEN Resting ELSE
                         [@ EXCEPT !.at = "extract", !.todo = Left(me), !.doc = NoDoc]]
        /\ updated' = IF me.doc.plus THEN updated \cup Tree(me.file) ELSE updated
        /\ UNCHANGED <<disk, index, failed, known, cutshort, stop, main, walk, iw, dw, wq,
                       split, writer>>

InternPutFails(w) ==
    /\ intern[w].at = "put" /\ ~Ok(dw)
    /\ LeavesFile(w)
    /\ UNCHANGED <<disk, index, failed, known, updated, stop, main, walk, dw, wq, split, writer>>

-----------------------------------------------------------------------------
(* The split workers: Db::addOrUpdate().                                   *)
SplitTakes(w) ==
    /\ split[w].at = "idle" /\ Ok(dw) /\ dw.q # << >>
    /\ dw' = Popped(dw)
    /\ split' = [split EXCEPT ![w] = [at |-> "split", doc |-> Head(dw.q)]]
    /\ UNCHANGED <<disk, store, stop, main, walk, iw, wq, intern, writer>>

SplitOffers(w) ==
    /\ split[w].at = "split" /\ Offered(wq)
    /\ split' = [split EXCEPT ![w].at = "put"]
    /\ UNCHANGED <<disk, store, stop, main, walk, iw, dw, wq, intern, writer>>

SplitPut(w) ==
    /\ split[w].at = "put" /\ Ok(wq) /\ Len(wq.q) < WriteHigh
    /\ wq' = Pushed(wq, split[w].doc)
    /\ split' = [split EXCEPT ![w] = Free]
    /\ UNCHANGED <<disk, store, stop, main, walk, iw, dw, intern, writer>>

(* The document in the hands of a split worker. *)
Splitting(s) == IF s.at \in {"split", "put"} THEN {s.doc} ELSE {}

SplitQuits(w) ==
    /\ \/ split[w].at = "idle" /\ ~Ok(dw)
       \/ split[w].at = "split" /\ ~Offered(wq)
       \/ split[w].at = "put" /\ ~Ok(wq)
    /\ split' = [split EXCEPT ![w] = [at |-> "gone", doc |-> NoDoc]]
    /\ dw' = Quit(dw)
    /\ cutshort' = cutshort \cup {FileOf(d.udi) : d \in Splitting(split[w])}
    /\ UNCHANGED <<disk, index, failed, known, updated, stop, main, walk, iw, wq, intern, writer>>

(* The write thread: addOrUpdateWrite().                                   *)
WriterTakes ==
    /\ writer.at = "idle" /\ Ok(wq) /\ wq.q # << >>
    /\ wq' = Popped(wq)
    /\ writer' = [at |-> "write", doc |-> Head(wq.q)]
    /\ UNCHANGED <<disk, store, stop, main, walk, iw, dw, intern, split>>

(* A document that was there keeps its number, so that it has a bit. *)
Written(d) ==
    /\ index' = [index EXCEPT ![d.udi] = d.ver]
    /\ failed' = (failed \ {d.udi}) \cup (IF d.plus THEN {d.udi} ELSE {})
    /\ updated' = updated \cup ({d.udi} \cap known)

Write ==
    /\ writer.at = "write"
    /\ Written(writer.doc)
    /\ writer' = Free
    /\ UNCHANGED <<disk, known, cutshort, stop, main, walk, iw, dw, wq, intern, split>>

(* A full disk or an error; when it is the flush that fails, the document  *)
(* was written.                                                            *)
WriterQuits ==
    /\ writer.at = "write" /\ "write" \in Faults
    /\ Written(writer.doc) \/ UNCHANGED <<index, failed, updated>>
    /\ writer' = [at |-> "gone", doc |-> NoDoc]
    /\ wq' = Quit(wq)
    /\ cutshort' = cutshort \cup {FileOf(writer.doc.udi)}
    /\ UNCHANGED <<disk, known, stop, main, walk, iw, dw, intern, split>>

-----------------------------------------------------------------------------
MainStep ==
    \/ BeginPass \/ (\E f \in Files : WalkFile(f)) \/ WalkPut \/ WalkFails \/ WalkEnds
    \/ CloseShops \/ Drain \/ GoPurge \/ Purge \/ PurgeCut
    \/ EndPass

InternStep(w) ==
    \/ InternTakes(w) \/ InternAborted(w) \/ UpToDate(w) \/ ReadFails(w) \/ OutOfDate(w)
    \/ (\E u \in Udis : Extract(w, u)) \/ FailsEarly(w) \/ FailsLate(w)
    \/ InternCancelled(w) \/ InternPut(w) \/ InternStopped(w) \/ InternGoesOn(w)
    \/ InternPutFails(w)

SplitStep(w) == SplitTakes(w) \/ SplitOffers(w) \/ SplitPut(w) \/ SplitQuits(w)
WriterStep == WriterTakes \/ Write \/ WriterQuits

(* The last pass is over. *)
Finished == main = "idle" /\ passes = MaxPasses /\ UNCHANGED vars

Next ==
    \/ MainStep \/ Interrupt \/ Finished
    \/ \E w \in InternWorkers : InternStep(w)
    \/ \E w \in SplitWorkers : SplitStep(w)
    \/ WriterStep

Spec == Init /\ [][Next]_vars
-----------------------------------------------------------------------------
(* What is checked.                                                        *)

(* A worker gave up, and tasks may have been dropped. *)
Aborted == iw.exited + dw.exited + wq.exited > 0

(* The files that no worker took, or of which no worker took a document:   *)
(* all those of the queue had given up before.                             *)
Items(q) == {q[i] : i \in DOMAIN q}
Untaken == Items(iw.q) \cup {FileOf(d.udi) : d \in Items(dw.q) \cup Items(wq.q)}

(* purge() trusts the bits, which three kinds of threads set while the     *)
(* walk goes on.  Whatever the order, and with handlers that fail before   *)
(* the file's own document and workers that give up meanwhile, the index   *)
(* keeps the documents that the present files hold, unless this very file  *)
(* was left halfway or was not taken.                                      *)
OnlyTheGoneArePurged ==
    [][\A u \in Udis : index[u] # 0 /\ index'[u] = 0 =>
           u \notin Live \/ FileOf(u) \in cutshort \cup Untaken]_vars

(* A pass in which no worker gave up leaves the documents of the           *)
(* present files, from their present versions, and no others; a file whose *)
(* handler failed is left to the next pass, with those whose path begins   *)
(* with its own.                                                           *)
UpToDateWithDisk(u) ==
    IF u \in Live THEN index[u] = disk[FileOf(u)] ELSE index[u] = 0

CompletePassIsExact ==
    main = "complete" /\ mounted /\ ~stop /\ ~Aborted =>
        \A u \in Udis : \/ UpToDateWithDisk(u)
                        \/ FileOf(u) \in cutshort
                        \/ \E f \in failed : FileOf(u) \in Beneath[f]

(* What the comments on the purge ask for: it is run after a full walk     *)
(* only, with the bits of all the present documents on.                    *)
FlagsRightAtPurge == main = "purge" => Live \cap known \subseteq updated

(* What the manual says of an interruption: the next complete pass         *)
(* restores consistency.                                                   *)
RestartRestores == main = "complete" /\ ~stop => \A u \in Udis : UpToDateWithDisk(u)

(* The owner of the queues and of the index goes on, purges, closes and    *)
(* deletes them: no worker has then a task in its hands, and none will     *)
(* take one.                                                               *)
NothingRunsAfterDrain ==
    main \in {"walked", "purge", "complete", "cut", "idle"} =>
        /\ \A w \in InternWorkers : intern[w].at \in {"idle", "gone"}
        /\ \A w \in SplitWorkers : split[w].at \in {"idle", "gone"}
        /\ writer.at \in {"idle", "gone"}
        /\ iw.q = << >> \/ iw.exited = Cardinality(InternWorkers)
        /\ dw.q = << >> \/ dw.exited = Cardinality(SplitWorkers)
        /\ wq.q = << >> \/ wq.exited = 1
=============================================================================
