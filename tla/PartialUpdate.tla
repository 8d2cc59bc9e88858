--------------------------- MODULE PartialUpdate ---------------------------
(***************************************************************************)
(* Updates of the index for lists of files, without a walk of the tree:    *)
(* ConfIndexer::purgeFiles() and ConfIndexer::indexFiles() with what they  *)
(* call in FsIndexer and Rcl::Db.  The monitor calls the two for the files *)
(* that were deleted and changed, over and over in one process and with    *)
(* one FsIndexer; `recollindex -i -P' calls the second once, for a list of *)
(* all the files, and asks for a purge.                                    *)
(*                                                                         *)
(* IndexPass has the threads of the pipeline one by one; here a file is a  *)
(* job, its documents are in flight until the write thread comes to them,  *)
(* and they may be written in any order.  Files change at any time, also   *)
(* between the stat of indexFiles() and the moment their text is read.     *)
(* The signature of a state of a file is its version.                      *)
(*                                                                         *)
(* Left out: updates of the extended attributes only, in place resets,     *)
(* skipped paths (such a file stays on the list and is never in the        *)
(* index), the option not to retry failed files, crashes.                  *)
(***************************************************************************)
EXTENDS Naturals, FiniteSets

CONSTANTS
    Files,
    Kids,           \* the subdocuments of the files
    Parent,         \* the file of a subdocument
    MaxVersion,     \* bound: the states of a file
    LastVersion,    \* bound: those that this file goes through
    Parts,          \* the subdocuments that a file has in a version
    Faults          \* "interrupt", "early", "late", "write": as in IndexPass

Versions == 1 .. MaxVersion

ASSUME FilesAssumption ==
    /\ MaxVersion \in Nat \ {0} /\ LastVersion \in [Files -> Versions]
    /\ IsFiniteSet(Files) /\ Files \cap Kids = {} /\ Parent \in [Kids -> Files]
    /\ Parts \in [Files -> [Versions -> SUBSET Kids]]
    /\ \A f \in Files, v \in Versions : \A k \in Parts[f][v] : Parent[k] = f
    /\ Faults \subseteq {"interrupt", "early", "late", "write"}

VARIABLES
    disk,           \* the files: whether they are there, their version
    removed, modified,  \* those with an event that waits
    del, mod,       \* the lists of the calls
    purging,        \* IxFDoPurge
    index,          \* the signature and the text of each document
    plus,           \* the files indexed with the signature of a failure ("+")
    unseen,         \* the documents whose bit is off in updated
    candidates,     \* m_purgeCandidates
    pc,             \* the main thread
    ret,            \* what indexFiles() will return
    stop,           \* stopindexing
    job,            \* the files in m_iwqueue or with an internfile worker
    flight,         \* the documents in m_dwqueue and in the write queue
    deletes, orphans,   \* the other tasks in the write queue
    writer,         \* the write thread runs
    queues,         \* the workers that gave up: none, of m_dwqueue, of m_iwqueue
    carried,        \* history: the candidates of earlier calls
    cut             \* history: the files of which a part of the work was dropped

tree == <<disk, removed, modified>>
store == <<index, plus, unseen>>
call == <<del, mod, purging, candidates, pc, ret>>
pipe == <<job, flight, deletes, orphans, writer, queues>>
vars == <<tree, store, call, stop, pipe, carried, cut>>

Udis == Files \cup Kids
FileOf(u) == IF u \in Files THEN u ELSE Parent[u]
KidsOf(f) == {k \in Kids : Parent[k] = f}

Text == [sig : 0 .. MaxVersion, ver : 0 .. MaxVersion]
NoText == [sig |-> 0, ver |-> 0]
Indexed(u) == index[u] # NoText
PartsNow(f) == IF disk[f].there THEN Parts[f][disk[f].ver] ELSE {}

Job == [at : {"none", "queued", "extract"}, sig : 0 .. MaxVersion, ver : 0 .. MaxVersion,
        todo : SUBSET Udis, old : BOOLEAN]
NoJob == [at |-> "none", sig |-> 0, ver |-> 0, todo |-> {}, old |-> FALSE]
Doc == [udi : Udis, sig : Versions, ver : 0 .. MaxVersion, plus : BOOLEAN]

TypeOK ==
    /\ disk \in [Files -> [there : BOOLEAN, ver : Versions]]
    /\ {removed, modified, del, mod, plus, candidates, deletes, orphans, carried, cut}
           \subseteq SUBSET Files
    /\ index \in [Udis -> Text] /\ unseen \subseteq Udis
    /\ pc \in {"idle", "delete", "deleted", "index", "drain", "orphans", "purge", "off"}
    /\ {purging, ret, stop, writer} \subseteq BOOLEAN
    /\ job \in [Files -> Job] /\ flight \subseteq Doc
    /\ queues \in {"ok", "split", "intern"}

(* What a complete pass leaves of a file in a version.                     *)
IndexOf(version) ==
    [u \in Udis |->
        LET v == version[FileOf(u)]
        IN  IF v # 0 /\ (u \in Files \/ u \in Parts[FileOf(u)][v])
            THEN [sig |-> v, ver |-> v] ELSE NoText]

(* The monitor starts with the index of the tree that is there, the        *)
(* command with that of an older one, and with the list of all the files.  *)
Init ==
    /\ purging \in BOOLEAN
    /\ disk \in [Files -> [there : BOOLEAN, ver : IF purging THEN Versions ELSE {1}]]
    /\ \A f \in Files : disk[f].ver <= LastVersion[f]
    /\ \E old \in [Files -> 0 .. MaxVersion] :
        /\ \A f \in Files : old[f] <= disk[f].ver
        /\ purging \/ \A f \in Files : old[f] = IF disk[f].there THEN disk[f].ver ELSE 0
        /\ index = IndexOf(old)
    /\ plus = {}
    /\ removed = {} /\ modified = {} /\ del = {} /\ candidates = {}
    /\ mod = IF purging THEN {f \in Files : disk[f].there} ELSE {}
    /\ unseen = IF purging THEN {u \in Udis : Indexed(u)} ELSE {}
    /\ pc = IF purging THEN "index" ELSE "idle"
    /\ ret = TRUE /\ stop = FALSE
    /\ job = [f \in Files |-> NoJob] /\ flight = {} /\ deletes = {} /\ orphans = {}
    /\ writer = TRUE /\ queues = "ok"
    /\ carried = {} /\ cut = {}

-----------------------------------------------------------------------------
(* The tree, and the user.                                                 *)

Modify(f) ==
    /\ disk[f].ver < LastVersion[f]
    /\ disk' = [disk EXCEPT ![f] = [there |-> TRUE, ver |-> disk[f].ver + 1]]
    /\ modified' = modified \cup {f}
    /\ UNCHANGED <<removed, store, call, stop, pipe, carried, cut>>

Remove(f) ==
    /\ disk[f].there
    /\ disk' = [disk EXCEPT ![f].there = FALSE]
    /\ removed' = removed \cup {f}
    /\ UNCHANGED <<modified, store, call, stop, pipe, carried, cut>>

Interrupt ==
    /\ "interrupt" \in Faults /\ ~stop /\ pc \notin {"idle", "off"}
    /\ stop' = TRUE
    /\ UNCHANGED <<tree, store, call, pipe, carried, cut>>

-----------------------------------------------------------------------------
(* The monitor processes its two lists, the deletions first; the index is  *)
(* opened and closed for each, and each time a new write thread starts.    *)

StartCalls ==
    /\ pc = "idle" /\ removed \cup modified # {}
    /\ del' = removed /\ mod' = modified
    /\ removed' = {} /\ modified' = {}
    /\ pc' = "delete" /\ writer' = TRUE
    /\ UNCHANGED <<disk, store, purging, candidates, ret, stop, job, flight, deletes, orphans,
                   queues, carried, cut>>

(* FsIndexer::purgeFiles(), one file: docExists() in this thread, the rest *)
(* in the write thread.                                                    *)
PurgeFile(f) ==
    /\ pc = "delete" /\ f \in del
    /\ ~Indexed(f) \/ writer
    /\ del' = del \ {f}
    /\ deletes' = IF Indexed(f) THEN deletes \cup {f} ELSE deletes
    /\ UNCHANGED <<tree, store, mod, purging, candidates, pc, ret, stop, job, flight, orphans,
                   writer, queues, carried, cut>>

(* put() is refused: the monitor ends.                                     *)
PurgeFilesFails ==
    /\ pc = "delete" /\ ~writer /\ \E f \in del : Indexed(f)
    /\ pc' = "off" /\ ret' = FALSE
    /\ UNCHANGED <<tree, store, del, mod, purging, candidates, stop, pipe, carried, cut>>

(* The queues are waited for, the index is closed, and opened again.       *)
PurgeFilesEnds ==
    /\ pc = "delete" /\ del = {} /\ deletes = {}
    /\ pc' = "deleted"
    /\ UNCHANGED <<tree, store, del, mod, purging, candidates, ret, stop, pipe, carried, cut>>

StartIndexFiles ==
    /\ pc = "deleted"
    /\ pc' = (IF mod = {} THEN IF stop THEN "off" ELSE "idle" ELSE "index")
    /\ writer' = TRUE /\ carried' = candidates
    /\ UNCHANGED <<tree, store, del, mod, purging, candidates, ret, stop, job, flight, deletes,
                   orphans, queues, cut>>

-----------------------------------------------------------------------------
(* FsIndexer::indexFiles().                                                *)

(* The stat, then processone() puts the file on m_iwqueue.                 *)
ProcessOne(f) ==
    /\ pc = "index" /\ f \in mod
    /\ disk[f].there => ~stop /\ queues # "intern"
    /\ mod' = mod \ {f}
    /\ job' = IF disk[f].there
              THEN [job EXCEPT ![f] = [NoJob EXCEPT !.at = "queued", !.sig = disk[f].ver]]
              ELSE job
    /\ UNCHANGED <<tree, store, del, purging, candidates, pc, ret, stop, flight, deletes,
                   orphans, writer, queues, carried, cut>>

ProcessOneFails ==
    /\ pc = "index" /\ (stop \/ queues = "intern") /\ \E f \in mod : disk[f].there
    /\ pc' = "drain" /\ ret' = FALSE
    /\ UNCHANGED <<tree, store, del, mod, purging, candidates, stop, pipe, carried, cut>>

ListEnds ==
    /\ pc = "index" /\ mod = {}
    /\ pc' = "drain"
    /\ UNCHANGED <<tree, store, del, mod, purging, candidates, ret, stop, pipe, carried, cut>>

(* purgeOrphans(), for all the candidates so far: a write queue without a  *)
(* thread refuses them, and nobody looks at the result.                    *)
PurgeOrphans ==
    /\ orphans' = (IF ret /\ writer THEN candidates ELSE {})
    /\ cut' = (IF ret /\ ~writer THEN cut \cup candidates ELSE cut)

(* Mutant: the orphans are purged before the queues are empty.             *)
OrphansAtOnce ==
    /\ pc = "drain" /\ \A f \in Files : job[f] = NoJob
    /\ pc' = (IF ret THEN "orphans" ELSE "purge")
    /\ PurgeOrphans
    /\ UNCHANGED <<tree, store, del, mod, purging, candidates, ret, stop, job, flight, deletes,
                   writer, queues, carried>>

(* shutdownQueues(), then the orphans.                                     *)
Drained ==
    /\ pc = "drain"
    /\ flight = {} /\ \A f \in Files : job[f] = NoJob
    /\ pc' = (IF ret THEN "orphans" ELSE "purge")
    /\ PurgeOrphans
    /\ UNCHANGED <<tree, store, del, mod, purging, candidates, ret, stop, job, flight, deletes,
                   writer, queues, carried>>

OrphansEnd ==
    /\ pc = "orphans" /\ orphans = {}
    /\ pc' = "purge"
    /\ UNCHANGED <<tree, store, del, mod, purging, candidates, ret, stop, pipe, carried, cut>>

(* ConfIndexer::indexFiles() goes on whatever the result: the purge, and   *)
(* the index is closed.  The monitor ends after a failure.                 *)
Purge ==
    /\ pc = "purge"
    /\ index' = (IF purging THEN [u \in Udis |-> IF u \in unseen THEN NoText ELSE index[u]]
                 ELSE index)
    /\ plus' = (IF purging THEN plus \ unseen ELSE plus)
    /\ unseen' = {}
    /\ pc' = (IF purging \/ stop \/ ~ret THEN "off" ELSE "idle")
    /\ mod' = {}
    /\ UNCHANGED <<tree, del, purging, candidates, ret, stop, pipe, carried, cut>>

-----------------------------------------------------------------------------
(* The internfile workers: processonefile().                               *)

(* Mutant: a file that is in the index is not indexed again.               *)
NeedUpdateNew(f) == index[f] = NoText

NeedUpdate(f) == index[f].sig # job[f].sig \/ f \in plus

(* setExistingFlags() and udiTreeMarkExisting()                            *)
Existing(f) == {f} \cup {k \in KidsOf(f) : Indexed(k)}

UpToDate(f) ==
    /\ job[f].at = "queued" /\ queues # "intern" /\ ~NeedUpdate(f)
    /\ unseen' = unseen \ Existing(f)
    /\ job' = [job EXCEPT ![f] = NoJob]
    /\ queues' = IF stop THEN "intern" ELSE queues
    /\ UNCHANGED <<tree, index, plus, call, stop, flight, deletes, orphans, writer, carried, cut>>

(* The file is opened, if it is still there: version 0 otherwise.          *)
OutOfDate(f) ==
    /\ job[f].at = "queued" /\ queues # "intern" /\ NeedUpdate(f)
    /\ job' = [job EXCEPT ![f].at = "extract", ![f].old = Indexed(f),
                          ![f].ver = IF disk[f].there THEN disk[f].ver ELSE 0,
                          ![f].todo = {f} \cup PartsNow(f)]
    /\ UNCHANGED <<tree, store, call, stop, flight, deletes, orphans, writer, queues, carried, cut>>

(* launchAddOrUpdate(): m_dwqueue takes the document as long as its        *)
(* workers are there and shutdownQueues() has not closed it.               *)
Accepts == queues = "ok" /\ ~(pc = "drain" /\ ~ret)
Launched(f, u, failed) ==
    flight' = flight \cup {[udi |-> u, sig |-> job[f].sig, ver |-> job[f].ver, plus |-> failed]}

(* Mutant: only new files are candidates.                                  *)
RecordsNew(f) ==
    IF ~job[f].old /\ Parts[f][job[f].ver] # {} THEN candidates \cup {f} ELSE candidates

(* The end of the file: it existed and has subdocuments.                   *)
Recorded(f) ==
    IF job[f].old /\ Parts[f][job[f].ver] # {} THEN candidates \cup {f} ELSE candidates

(* What was lost of the file in an earlier call is made good: no document  *)
(* is left of which nobody will ask whether the file still has it.  A file *)
(* whose own document was lost is not recorded, whatever others it has.    *)
Repairs(f) ==
    /\ writer
    /\ job[f].old \/ \A k \in KidsOf(f) : Indexed(k) => k \in Parts[f][job[f].ver]

(* The file's own document comes first (a message) or last (an mbox).      *)
Launch(f, u) ==
    /\ job[f].at = "extract" /\ job[f].ver # 0 /\ u \in job[f].todo /\ Accepts
    /\ Launched(f, u, FALSE)
    /\ IF job[f].todo = {u}
       THEN /\ job' = [job EXCEPT ![f] = NoJob] /\ candidates' = Recorded(f)
            /\ cut' = IF Repairs(f) THEN cut \ {f} ELSE cut
       ELSE job' = [job EXCEPT ![f].todo = @ \ {u}] /\ UNCHANGED <<candidates, cut>>
    /\ UNCHANGED <<tree, store, del, mod, purging, pc, ret, stop, deletes, orphans, writer,
                   queues, carried>>

(* FIError: the file's document stands for what could not be extracted,    *)
(* and udiTreeMarkExisting() protects the others.  A file that was not     *)
(* there any more when it was to be opened fails this way.                 *)
FailEarly(f) ==
    /\ job[f].at = "extract" /\ f \in job[f].todo /\ Accepts
    /\ "early" \in Faults \/ job[f].ver = 0
    /\ Launched(f, f, TRUE)
    /\ job' = [job EXCEPT ![f] = NoJob]
    /\ unseen' = unseen \ Existing(f)
    /\ cut' = (IF writer THEN cut \ {f} ELSE cut)
    /\ UNCHANGED <<tree, index, plus, call, stop, deletes, orphans, writer, queues, carried>>

(* An error after the file's own document: nothing more is done.           *)
FailLate(f) ==
    /\ "late" \in Faults
    /\ job[f].at = "extract" /\ f \notin job[f].todo
    /\ job' = [job EXCEPT ![f] = NoJob]
    /\ cut' = cut \cup {f}
    /\ UNCHANGED <<tree, store, call, stop, flight, deletes, orphans, writer, queues, carried>>

(* An interruption, a refused document, or nobody left to take the file.   *)
JobDropped(f) ==
    /\ job[f].at # "none"
    /\ \/ job[f].at = "extract" /\ (stop \/ ~Accepts)
       \/ queues = "intern"
    /\ job' = [job EXCEPT ![f] = NoJob]
    /\ queues' = "intern"
    /\ cut' = cut \cup {f}
    /\ UNCHANGED <<tree, store, call, stop, flight, deletes, orphans, writer, carried>>

-----------------------------------------------------------------------------
(* The split workers and the write thread.                                 *)

(* addOrUpdateWrite()                                                      *)
Write(d) ==
    /\ d \in flight /\ writer
    /\ flight' = flight \ {d}
    /\ index' = [index EXCEPT ![d.udi] = [sig |-> d.sig, ver |-> d.ver]]
    /\ plus' = (IF d.plus THEN plus \cup {d.udi} ELSE plus \ {d.udi})
    /\ unseen' = unseen \ {d.udi}
    /\ UNCHANGED <<tree, call, stop, job, deletes, orphans, writer, queues, carried, cut>>

(* purgeFileWrite()                                                        *)
DeleteFile(f) ==
    /\ f \in deletes /\ writer
    /\ deletes' = deletes \ {f}
    /\ index' = [u \in Udis |-> IF FileOf(u) = f THEN NoText ELSE index[u]]
    /\ plus' = plus \ {f} /\ cut' = cut \ {f}
    /\ UNCHANGED <<tree, unseen, call, stop, job, flight, orphans, writer, queues, carried>>

(* Those whose signature is not that of the file's own document.           *)
Orphan(k) == Indexed(k) /\ (index[k].sig # index[Parent[k]].sig \/ Parent[k] \in plus)

DeleteOrphans(f) ==
    /\ f \in orphans /\ writer
    /\ orphans' = orphans \ {f}
    /\ index' = [u \in Udis |->
                    IF u \in KidsOf(f) /\ Orphan(u) /\ Indexed(f) THEN NoText ELSE index[u]]
    /\ UNCHANGED <<tree, plus, unseen, call, stop, job, flight, deletes, writer, queues, carried, cut>>

(* A full disk, or an error of Xapian: the task that failed is lost, with  *)
(* all those behind it in the write queue.  The documents that are not     *)
(* there yet go on in m_dwqueue.                                           *)
WriterQuits ==
    /\ "write" \in Faults /\ writer /\ (flight # {} \/ deletes \cup orphans # {})
    /\ \E lost \in SUBSET flight :
        /\ flight # {} => lost # {}
        /\ flight' = flight \ lost
        /\ cut' = cut \cup {FileOf(d.udi) : d \in lost} \cup deletes \cup orphans
    /\ deletes' = {} /\ orphans' = {} /\ writer' = FALSE
    /\ UNCHANGED <<tree, store, call, stop, job, queues, carried>>

(* The write queue refuses a document, because its thread is gone or       *)
(* shutdownQueues() closed it: the split worker that brings it gives up.   *)
Dropped ==
    /\ ~writer \/ (pc = "drain" /\ ~ret)
    /\ \E d \in flight :
        /\ flight' = flight \ {d} /\ cut' = cut \cup {FileOf(d.udi)}
        /\ queues' = IF queues = "ok" THEN "split" ELSE queues
    /\ UNCHANGED <<tree, store, call, stop, job, deletes, orphans, writer, carried>>

-----------------------------------------------------------------------------
Main ==
    \/ StartCalls \/ (\E f \in Files : PurgeFile(f) \/ ProcessOne(f))
    \/ PurgeFilesFails \/ PurgeFilesEnds \/ StartIndexFiles
    \/ ProcessOneFails \/ ListEnds \/ Drained \/ OrphansEnd \/ Purge

Worker(f) ==
    \/ UpToDate(f) \/ OutOfDate(f) \/ (\E u \in Udis : Launch(f, u))
    \/ FailEarly(f) \/ FailLate(f) \/ JobDropped(f)

Writer ==
    \/ \E d \in flight : Write(d)
    \/ \E f \in Files : DeleteFile(f) \/ DeleteOrphans(f)
    \/ Dropped

Next ==
    \/ Main \/ (\E f \in Files : Worker(f)) \/ Writer \/ WriterQuits
    \/ \E f \in Files : Modify(f) \/ Remove(f)
    \/ Interrupt

Spec == Init /\ [][Next]_vars

FairSpec ==
    /\ Spec /\ WF_vars(Main) /\ WF_vars(Writer)
    /\ \A f \in Files : WF_vars(Worker(f))

-----------------------------------------------------------------------------
Settled(f) == f \notin removed \cup modified \cup del \cup mod

(* The documents of a file are those of its present version.  Those of an  *)
(* earlier version may be left when the present one has no subdocuments:   *)
(* such a file is not recorded as a candidate.                             *)
Exact(f) ==
    LET now == [sig |-> disk[f].ver, ver |-> disk[f].ver]
    IN  IF disk[f].there
        THEN /\ index[f] = now /\ f \notin plus
             /\ \A k \in PartsNow(f) : index[k] = now
             /\ PartsNow(f) # {} => \A k \in KidsOf(f) : Indexed(k) => k \in PartsNow(f)
        ELSE \A u \in {f} \cup KidsOf(f) : ~Indexed(u)

Excused(f) == f \in plus \/ f \in cut

(* The types, and: between two calls of the monitor, and after the command *)
(* with a purge, the index has the present text of every file that has no  *)
(* event waiting, unless its handler failed or work was dropped; whatever  *)
(* changed during the calls.                                               *)
UpdateIsExact ==
    /\ TypeOK
    /\ pc = "idle" \/ (pc = "off" /\ purging /\ ret /\ ~stop) =>
        \A f \in Files : Settled(f) => Exact(f) \/ Excused(f)

(* A subdocument that its file still holds is never deleted, in particular *)
(* when the handler of the file fails, but for three cases: the file was   *)
(* deleted and is listed again; it was a candidate in an earlier call and  *)
(* failed, or lost a part, since; the purge follows a call that was cut    *)
(* short, or that lost a part of the file.                                 *)
HeldIsKept ==
    [][\A k \in Kids :
        LET f == Parent[k]
        IN  /\ Indexed(k) /\ index'[k] = NoText
            /\ k \in PartsNow(f) /\ f \notin removed \cup modified
            => \/ pc = "delete" /\ f \in mod
               \/ pc = "orphans" /\ f \in carried /\ Excused(f)
               \/ pc = "purge" /\ (~ret \/ f \in cut)]_vars

(* Once the files do not change any more, the index catches up with them.  *)
UpdatesSettle == <>[](pc = "off" \/ \A f \in Files : Exact(f) \/ Excused(f))
=============================================================================
