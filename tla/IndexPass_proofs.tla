-------------------------- MODULE IndexPass_proofs --------------------------
(***************************************************************************)
(* Theorems about IndexPass for any files and subdocuments, any finite     *)
(* sets of workers, any lengths of the queues, any faults and any number   *)
(* of passes.                                                              *)
(***************************************************************************)
EXTENDS IndexPass, FiniteSetTheorems, SequenceTheorems, TLAPS

-----------------------------------------------------------------------------
(* Types, and what a thread has in each of its states.                     *)

(* A document carries the version of its file, and stands for a failure    *)
(* only when it is the file's own.                                         *)
GoodDocs ==
    {d \in Docs : d.ver = disk[FileOf(d.udi)] /\ (d.plus => d.udi \in Files)}

InternOK(s) ==
    /\ s \in InternStates
    /\ s.at \notin {"idle", "gone"} => s.file \in Files /\ disk[s.file] # 0
    /\ s.at \in {"extract", "put", "look"} => \A u \in s.todo : FileOf(u) = s.file
    /\ s.at \in {"put", "look"} => s.doc \in GoodDocs /\ s.doc.udi \in s.todo

SplitOK(s) == s \in SplitStates /\ (s.at \in {"split", "put"} => s.doc \in GoodDocs)
WriterOK(s) == s \in WriterStates /\ (s.at = "write" => s.doc \in GoodDocs)

FilesOK ==
    /\ disk \in [Files -> Versions \cup {0}]
    /\ towalk \subseteq Files /\ (\A f \in towalk : disk[f] # 0)
    /\ file \in Files \cup {NoFile} /\ (main = "put" => file \in towalk)

StoreOK ==
    /\ index \in [Udis -> Versions \cup {0}]
    /\ failed \subseteq Files /\ known \subseteq Udis /\ updated \subseteq known
    /\ cutshort \subseteq Files

MainOK ==
    /\ {mounted, stop, walkok} \subseteq BOOLEAN /\ main \in MainPC
    /\ passes \in 0 .. MaxPasses /\ (main # "idle" => passes < MaxPasses)

IwOK == iw \in Queues({f \in Files : disk[f] # 0}) /\ Len(iw.q) <= InternHigh
DwOK == dw \in Queues(GoodDocs) /\ Len(dw.q) <= SplitHigh
WqOK == wq \in Queues(GoodDocs) /\ Len(wq.q) <= WriteHigh

InternsOK ==
    /\ intern \in [InternWorkers -> InternStates]
    /\ \A w \in InternWorkers : InternOK(intern[w])
SplitsOK ==
    /\ split \in [SplitWorkers -> SplitStates]
    /\ \A w \in SplitWorkers : SplitOK(split[w])

Typed ==
    /\ FilesOK /\ StoreOK /\ MainOK
    /\ IwOK /\ DwOK /\ WqOK
    /\ InternsOK /\ SplitsOK /\ WriterOK(writer)

-----------------------------------------------------------------------------
(* The queues.                                                             *)

LEMMA QueueFields ==
    ASSUME NEW S, NEW p \in Queues(S)
    PROVE  p.q \in Seq(S) /\ p.open \in BOOLEAN /\ p.exited \in Nat /\ Len(p.q) \in Nat
BY LenProperties DEF Queues

LEMMA SetTasks ==
    ASSUME NEW S, NEW p \in Queues(S), NEW s \in Seq(S)
    PROVE  /\ [p EXCEPT !.q = s] \in Queues(S)
           /\ [p EXCEPT !.q = s].q = s /\ [p EXCEPT !.q = s].exited = p.exited
           /\ [p EXCEPT !.q = s].open = p.open
BY DEF Queues

LEMMA SetOpen ==
    ASSUME NEW S, NEW p \in Queues(S), NEW b \in BOOLEAN
    PROVE  /\ [p EXCEPT !.open = b] \in Queues(S)
           /\ [p EXCEPT !.open = b].q = p.q /\ [p EXCEPT !.open = b].exited = p.exited
BY DEF Queues

LEMMA SetExited ==
    ASSUME NEW S, NEW p \in Queues(S), NEW n \in Nat
    PROVE  /\ [p EXCEPT !.exited = n] \in Queues(S)
           /\ [p EXCEPT !.exited = n].q = p.q /\ [p EXCEPT !.exited = n].exited = n
BY DEF Queues

LEMMA NewQueueType ==
    ASSUME NEW S, NEW n \in Nat
    PROVE  NewQueue \in Queues(S) /\ Len(NewQueue.q) <= n
BY EmptySeq DEF NewQueue, Queues

LEMMA PushType ==
    ASSUME NEW S, NEW p \in Queues(S), NEW t \in S, NEW n \in Nat, Len(p.q) < n
    PROVE  Pushed(p, t) \in Queues(S) /\ Len(Pushed(p, t).q) <= n
  <1>1. p.q \in Seq(S) /\ Len(p.q) \in Nat
    BY QueueFields
  <1>2. Append(p.q, t) \in Seq(S) /\ Len(Append(p.q, t)) = Len(p.q) + 1
    BY <1>1, AppendProperties
  <1>3. QED
    BY <1>1, <1>2 DEF Queues, Pushed

LEMMA PopType ==
    ASSUME NEW S, NEW p \in Queues(S), p.q # << >>, NEW n \in Nat, Len(p.q) <= n
    PROVE  Head(p.q) \in S /\ Popped(p) \in Queues(S) /\ Len(Popped(p).q) <= n
  <1>1. p.q \in Seq(S) /\ Len(p.q) \in Nat
    BY QueueFields
  <1>2. Head(p.q) \in S /\ Tail(p.q) \in Seq(S) /\ Len(Tail(p.q)) = Len(p.q) - 1
    BY <1>1, HeadTailProperties
  <1>3. Popped(p) \in Queues(S) /\ Popped(p).q = Tail(p.q)
    <2> DEFINE t == Tail(p.q)
    <2>1. t \in Seq(S)
      BY <1>2
    <2>2. Popped(p) = [p EXCEPT !.q = t]
      BY DEF Popped
    <2> HIDE DEF t
    <2>3. Popped(p) \in Queues(S) /\ Popped(p).q = t
      BY <2>1, <2>2, SetTasks
    <2>4. QED
      BY <2>3 DEF t
  <1>4. QED
    BY <1>1, <1>2, <1>3

LEMMA QuitType ==
    ASSUME NEW S, NEW p \in Queues(S)
    PROVE  /\ Quit(p) \in Queues(S) /\ Quit(p).q = p.q
           /\ Closed(p) \in Queues(S) /\ Closed(p).q = p.q
  <1>1. Quit(p) \in Queues(S) /\ Quit(p).q = p.q
    BY QueueFields, SetExited DEF Quit
  <1>2. Closed(p) \in Queues(S) /\ Closed(p).q = p.q
    BY SetOpen DEF Closed
  <1>3. QED
    BY <1>1, <1>2

-----------------------------------------------------------------------------
(* Init and the steps keep the types.                                      *)

LEMMA RestingOK == InternOK(Resting) /\ SplitOK(Free) /\ WriterOK(Free)
BY DEF InternOK, SplitOK, WriterOK, Resting, Free, InternStates, SplitStates, WriterStates

LEMMA SameDocs == UNCHANGED disk => GoodDocs' = GoodDocs
BY DEF GoodDocs

LEMMA TypedInit == Init => Typed
  <1> SUFFICES ASSUME Init PROVE Typed
    OBVIOUS
  <1>1. FilesOK /\ MainOK
    <2>1. 0 \in 0 .. MaxPasses
      BY BoundsAssumption
    <2>2. QED
      BY <2>1 DEF Init, FilesOK, MainOK, MainPC
  <1>2. StoreOK
    <2>1. PICK old \in [Files -> Versions \cup {0}] :
              /\ failed \in SUBSET {f \in Files : old[f] # 0 /\ "early" \in Faults}
              /\ index = [u \in Udis |->
                     LET f == FileOf(u)
                     IN  IF u \in Files \/ (old[f] # 0 /\ f \notin failed /\ u \in Parts[f][old[f]])
                         THEN old[f] ELSE 0]
      BY DEF Init
    <2>2. \A u \in Udis : FileOf(u) \in Files
      BY DocsAssumption DEF Udis, FileOf
    <2>3. QED
      BY <2>1, <2>2 DEF Init, StoreOK
  <1>3. IwOK /\ DwOK /\ WqOK
    BY NewQueueType, BoundsAssumption DEF Init, IwOK, DwOK, WqOK
  <1>4. InternsOK /\ SplitsOK /\ WriterOK(writer)
    BY RestingOK DEF Init, InternsOK, SplitsOK, InternOK, SplitOK
  <1>5. QED
    BY <1>1, <1>2, <1>3, <1>4 DEF Typed

(* A queue of files that is emptied, closed or left by a worker.           *)
LEMMA MainTyped == Typed /\ MainStep => Typed'
  <1> SUFFICES ASSUME Typed, MainStep PROVE Typed'
    OBVIOUS
  <1>0. UNCHANGED disk /\ GoodDocs' = GoodDocs
    BY SameDocs DEF MainStep, BeginPass, StartPass, WalkFile, WalkPut, WalkFails, WalkEnds,
                    CloseShops, Drain, GoPurge, Purge, PurgeCut, EndPass
  <1> USE <1>0
  <1> USE DEF Typed
  <1>1. CASE BeginPass
    <2>1. FilesOK' /\ StoreOK' /\ MainOK'
      BY <1>1 DEF BeginPass, StartPass, FilesOK, StoreOK, MainOK, MainPC
    <2>2. IwOK' /\ DwOK' /\ WqOK'
      BY <1>1, NewQueueType, BoundsAssumption DEF BeginPass, StartPass, IwOK, DwOK, WqOK
    <2>3. InternsOK' /\ SplitsOK' /\ WriterOK(writer)'
      BY <1>1, RestingOK
         DEF BeginPass, StartPass, InternsOK, SplitsOK, InternOK, SplitOK, WriterOK, FilesOK
    <2>4. QED
      BY <2>1, <2>2, <2>3
  <1>2. CASE WalkPut
    <2>1. FilesOK' /\ StoreOK' /\ MainOK'
      BY <1>2 DEF WalkPut, FilesOK, StoreOK, MainOK, MainPC, store
    <2>2. file \in {f \in Files : disk[f] # 0}
      BY <1>2 DEF WalkPut, FilesOK
    <2>3. IwOK' /\ DwOK' /\ WqOK'
      BY <1>2, <2>2, PushType, BoundsAssumption DEF WalkPut, IwOK, DwOK, WqOK
    <2>4. InternsOK' /\ SplitsOK' /\ WriterOK(writer)'
      BY <1>2 DEF WalkPut, workers, InternsOK, InternOK, SplitsOK, SplitOK, WriterOK
    <2>5. QED
      BY <2>1, <2>3, <2>4
  <1>3. CASE CloseShops
    <2>1. FilesOK' /\ StoreOK' /\ MainOK'
      BY <1>3 DEF CloseShops, FilesOK, StoreOK, MainOK, MainPC, store, walk
    <2>2. IwOK' /\ DwOK' /\ WqOK'
      BY <1>3, QuitType DEF CloseShops, IwOK, DwOK, WqOK
    <2>3. InternsOK' /\ SplitsOK' /\ WriterOK(writer)'
      BY <1>3 DEF CloseShops, workers, InternsOK, InternOK, SplitsOK, SplitOK, WriterOK
    <2>4. QED
      BY <2>1, <2>2, <2>3
  <1>4. CASE (\E f \in Files : WalkFile(f)) \/ WalkFails \/ WalkEnds \/ Drain \/ GoPurge \/ EndPass
             \/ Purge \/ PurgeCut
    <2>1. UNCHANGED <<disk, iw, dw, wq, intern, split, writer>>
      BY <1>4 DEF WalkFile, WalkFails, WalkEnds, Drain, GoPurge, EndPass, Purge, PurgeCut, workers
    <2>2. IwOK' /\ DwOK' /\ WqOK'
      BY <2>1 DEF IwOK, DwOK, WqOK
    <2>3. InternsOK' /\ SplitsOK' /\ WriterOK(writer)'
      BY <2>1 DEF InternsOK, InternOK, SplitsOK, SplitOK, WriterOK
    <2>4. FilesOK'
      BY <1>4 DEF WalkFile, WalkFails, WalkEnds, Drain, GoPurge, EndPass, Purge, PurgeCut, walk,
                  FilesOK
    <2>5. MainOK'
      <3>1. CASE EndPass
        BY <3>1, BoundsAssumption DEF EndPass, MainOK, MainPC
      <3>2. CASE (\E f \in Files : WalkFile(f)) \/ WalkFails
        BY <3>2 DEF WalkFile, WalkFails, MainOK, MainPC
      <3>3. CASE WalkEnds \/ Drain \/ GoPurge \/ Purge \/ PurgeCut
        BY <3>3 DEF WalkEnds, Drain, GoPurge, Purge, PurgeCut, walk, MainOK, MainPC
      <3>4. QED
        BY <1>4, <3>1, <3>2, <3>3
    <2>6. StoreOK'
      <3>1. CASE Purge \/ PurgeCut
        <4>1. PICK gone : Deleted(gone)
          BY <3>1 DEF Purge, PurgeCut
        <4>2. UNCHANGED <<known, updated, cutshort>>
          BY <3>1 DEF Purge, PurgeCut
        <4>3. QED
          BY <4>1, <4>2 DEF Deleted, StoreOK
      <3>2. CASE UNCHANGED store
        BY <3>2 DEF store, StoreOK
      <3>3. QED
        BY <1>4, <3>1, <3>2 DEF WalkFile, WalkFails, WalkEnds, Drain, GoPurge, EndPass
    <2>7. QED
      BY <2>2, <2>3, <2>4, <2>5, <2>6
  <1>5. QED
    BY <1>1, <1>2, <1>3, <1>4 DEF MainStep

(* What an internfile worker does with itself.                             *)
LEMMA InternsTyped ==
    ASSUME Typed, NEW w \in InternWorkers, NEW s, InternOK(s),
           intern' = [intern EXCEPT ![w] = s], UNCHANGED disk
    PROVE  InternsOK'
BY SameDocs DEF Typed, InternsOK, InternOK, InternStates

LEMMA SplitsTyped ==
    ASSUME Typed, NEW w \in SplitWorkers, NEW s, SplitOK(s),
           split' = [split EXCEPT ![w] = s], UNCHANGED disk
    PROVE  SplitsOK'
BY SameDocs DEF Typed, SplitsOK, SplitOK, SplitStates

LEMMA DocTypes ==
    ASSUME Typed
    PROVE  /\ \A u \in Udis : FileOf(u) \in Files
           /\ \A f \in Files : f \in Udis /\ FileOf(f) = f /\ disk[f] \in Versions \cup {0}
           /\ \A f \in Files : PartsNow(f) \subseteq Udis
           /\ \A f \in Files : \A u \in PartsNow(f) : FileOf(u) = f
  <1>1. disk \in [Files -> Versions \cup {0}]
    BY DEF Typed, FilesOK
  <1>2. \A u \in Udis : FileOf(u) \in Files
    BY DocsAssumption DEF Udis, FileOf
  <1>3. \A f \in Files : f \in Udis /\ FileOf(f) = f
    BY DEF Udis, FileOf
  <1>4. ASSUME NEW f \in Files, disk[f] # 0
        PROVE  Parts[f][disk[f]] \subseteq Kids /\ \A u \in Parts[f][disk[f]] : Parent[u] = f
    <2>1. disk[f] \in Versions
      BY <1>1, <1>4
    <2>2. Parts[f] \in [Versions -> SUBSET Kids]
      BY DocsAssumption
    <2>3. QED
      BY <2>1, <2>2, DocsAssumption
  <1>5. \A k \in Kids : k \notin Files /\ FileOf(k) = Parent[k]
    BY DocsAssumption DEF FileOf
  <1>6. \A f \in Files : PartsNow(f) \subseteq Kids /\ \A u \in PartsNow(f) : Parent[u] = f
    BY <1>4 DEF PartsNow
  <1>7. QED
    BY <1>1, <1>2, <1>3, <1>5, <1>6 DEF Udis

LEMMA InternTyped ==
    ASSUME Typed, NEW w \in InternWorkers, InternStep(w)
    PROVE  Typed'
  <1> USE DEF Typed
  <1>0. UNCHANGED <<disk, index, failed, known, stop, main, walk, wq, split, writer>>
    BY DEF InternStep, InternTakes, InternAborted, UpToDate, ReadFails, OutOfDate, Extract,
           FailsEarly, FailsLate, InternCancelled, InternPut, InternStopped, InternGoesOn,
           InternPutFails, InternQuits, LeavesFile, Launch, store
  <1>g. GoodDocs' = GoodDocs
    BY <1>0, SameDocs
  <1> USE <1>g
  <1>1. FilesOK' /\ MainOK' /\ WqOK' /\ SplitsOK' /\ WriterOK(writer)'
    BY <1>0 DEF walk, FilesOK, MainOK, WqOK, SplitsOK, SplitOK, WriterOK
  <1> DEFINE me == intern[w]
  <1>2. /\ InternOK(me) /\ me \in InternStates
        /\ me.at \notin {"idle", "gone"} => me.file \in Files
    BY DEF InternsOK, InternOK
  <1>3. ASSUME intern' = [intern EXCEPT ![w] = Resting] PROVE InternsOK'
    BY <1>0, <1>3, RestingOK, InternsTyped
  <1>4. ASSUME InternQuits(w) PROVE InternsOK' /\ IwOK'
    <2>1. InternOK([Resting EXCEPT !.at = "gone"])
      BY DEF InternOK, Resting, InternStates
    <2>2. InternsOK'
      BY <1>0, <1>4, <2>1, InternsTyped DEF InternQuits
    <2>3. IwOK'
      BY <1>0, <1>4, QuitType DEF InternQuits, IwOK
    <2>4. QED
      BY <2>2, <2>3
  <1>5. CASE InternTakes(w)
    <2>1. Head(iw.q) \in {f \in Files : disk[f] # 0} /\ IwOK'
      BY <1>0, <1>5, PopType, BoundsAssumption DEF InternTakes, IwOK
    <2>2. InternOK([me EXCEPT !.at = "check", !.file = Head(iw.q)])
      BY <1>2, <2>1 DEF InternOK, InternStates
    <2>3. InternsOK'
      BY <1>0, <1>5, <2>2, InternsTyped DEF InternTakes
    <2>4. StoreOK' /\ DwOK'
      BY <1>5 DEF InternTakes, store, StoreOK, DwOK
    <2>5. QED
      BY <1>1, <2>1, <2>3, <2>4
  <1>6. CASE InternAborted(w) \/ InternCancelled(w) \/ InternStopped(w) \/ InternPutFails(w)
    <2>1. InternQuits(w) /\ UNCHANGED <<updated, dw>>
      BY <1>6 DEF InternAborted, InternCancelled, InternStopped, InternPutFails, LeavesFile, store
    <2>2. cutshort' \subseteq Files
      BY <1>2, <1>6 DEF InternAborted, InternCancelled, InternStopped, InternPutFails, LeavesFile,
         store, StoreOK
    <2>3. StoreOK' /\ DwOK'
      BY <1>0, <2>1, <2>2 DEF StoreOK, DwOK
    <2>4. QED
      BY <1>1, <1>4, <2>1, <2>3
  <1>7. CASE UpToDate(w) \/ ReadFails(w)
    <2>1. /\ InternQuits(w) \/ (intern' = [intern EXCEPT ![w] = Resting] /\ UNCHANGED iw)
          /\ UNCHANGED dw
      BY <1>7 DEF UpToDate, ReadFails
    <2>2. InternsOK' /\ IwOK'
      BY <1>0, <1>3, <1>4, <2>1 DEF IwOK
    <2>3. Existing(me.file) \subseteq known
      BY DEF Existing
    <2>4. /\ updated' \subseteq known
          /\ cutshort' \subseteq Files
      BY <1>2, <1>7, <2>3 DEF UpToDate, ReadFails, StoreOK
    <2>5. StoreOK' /\ DwOK'
      BY <1>0, <2>1, <2>4 DEF StoreOK, DwOK
    <2>6. QED
      BY <1>1, <2>2, <2>5
  <1>8. CASE OutOfDate(w)
    <2>1. me.file \in Files /\ ({me.file} \cup PartsNow(me.file)) \subseteq Udis
          /\ \A u \in {me.file} \cup PartsNow(me.file) : FileOf(u) = me.file
      BY <1>2, <1>8, DocTypes DEF OutOfDate
    <2>2. InternOK([me EXCEPT !.at = "extract", !.todo = {me.file} \cup PartsNow(me.file)])
      BY <1>2, <1>8, <2>1 DEF OutOfDate, InternOK, InternStates
    <2>3. InternsOK'
      BY <1>0, <1>8, <2>2, InternsTyped DEF OutOfDate
    <2>4. StoreOK' /\ DwOK' /\ IwOK'
      BY <1>0, <1>8 DEF OutOfDate, store, StoreOK, DwOK, IwOK
    <2>5. QED
      BY <1>1, <2>3, <2>4
  <1>9. CASE (\E u \in Udis : Extract(w, u)) \/ FailsEarly(w)
    <2>1. PICK d : /\ me.at = "extract" /\ d.udi \in me.todo /\ d \in GoodDocs
                   /\ Launch(w, d) /\ UNCHANGED <<updated, dw>>
      <3>1. CASE FailsEarly(w)
        <4>1. [udi |-> me.file, ver |-> disk[me.file], plus |-> TRUE] \in GoodDocs
          BY <1>2, <3>1, DocTypes DEF FailsEarly, InternOK, Docs, GoodDocs
        <4>2. QED
          BY <3>1, <4>1 DEF FailsEarly
      <3>2. ASSUME NEW u \in Udis, Extract(w, u)
            PROVE  \E d : /\ me.at = "extract" /\ d.udi \in me.todo /\ d \in GoodDocs
                          /\ Launch(w, d) /\ UNCHANGED <<updated, dw>>
        <4>1. [udi |-> u, ver |-> disk[me.file], plus |-> FALSE] \in GoodDocs
          BY <1>2, <3>2, DocTypes DEF Extract, InternOK, Docs, GoodDocs
        <4>2. QED
          BY <3>2, <4>1 DEF Extract
      <3>3. QED
        BY <1>9, <3>1, <3>2
    <2>2. InternOK([me EXCEPT !.at = "put", !.doc = d])
      BY <1>2, <2>1 DEF InternOK, InternStates, GoodDocs
    <2>3. CASE LeavesFile(w)
      <3>1. StoreOK' /\ DwOK'
        BY <1>0, <1>2, <2>1, <2>3 DEF LeavesFile, StoreOK, DwOK
      <3>2. QED
        BY <1>1, <1>4, <2>3, <3>1 DEF LeavesFile
    <2>4. CASE /\ intern' = [intern EXCEPT ![w].at = "put", ![w].doc = d]
               /\ UNCHANGED <<iw, cutshort>>
      <3>1. InternsOK'
        BY <1>0, <2>2, <2>4, InternsTyped
      <3>2. IwOK' /\ StoreOK' /\ DwOK'
        BY <1>0, <2>1, <2>4 DEF IwOK, StoreOK, DwOK
      <3>3. QED
        BY <1>1, <3>1, <3>2
    <2>5. QED
      BY <2>1, <2>3, <2>4 DEF Launch
  <1>10. CASE FailsLate(w)
    <2>1. InternsOK'
      BY <1>3, <1>10 DEF FailsLate
    <2>2. StoreOK' /\ DwOK' /\ IwOK'
      BY <1>0, <1>2, <1>10 DEF FailsLate, StoreOK, DwOK, IwOK
    <2>3. QED
      BY <1>1, <2>1, <2>2
  <1>11. CASE InternPut(w)
    <2>1. me.at = "put" /\ me.doc \in GoodDocs
      BY <1>2, <1>11 DEF InternPut, InternOK
    <2>2. DwOK'
      BY <1>11, <2>1, PushType, BoundsAssumption DEF InternPut, DwOK
    <2>3. InternOK([me EXCEPT !.at = "look"])
      BY <1>2, <2>1 DEF InternOK, InternStates
    <2>4. InternsOK'
      BY <1>0, <1>3, <1>11, <2>3, InternsTyped DEF InternPut
    <2>5. StoreOK' /\ IwOK'
      BY <1>0, <1>11 DEF InternPut, store, StoreOK, IwOK
    <2>6. QED
      BY <1>1, <2>2, <2>4, <2>5
  <1>12. CASE InternGoesOn(w)
    <2>1. me.at = "look" /\ Left(me) \subseteq me.todo
      BY <1>12 DEF InternGoesOn, Left
    <2>2. InternOK([me EXCEPT !.at = "extract", !.todo = Left(me), !.doc = NoDoc])
      BY <1>2, <2>1 DEF InternOK, InternStates
    <2>3. InternsOK'
      BY <1>0, <1>3, <1>12, <2>2, InternsTyped DEF InternGoesOn
    <2>4. Tree(me.file) \subseteq known
      BY DEF Tree
    <2>5. StoreOK' /\ DwOK' /\ IwOK'
      BY <1>0, <1>12, <2>4 DEF InternGoesOn, StoreOK, DwOK, IwOK
    <2>6. QED
      BY <1>1, <2>3, <2>5
  <1>13. QED
    BY <1>5, <1>6, <1>7, <1>8, <1>9, <1>10, <1>11, <1>12 DEF InternStep

LEMMA SplitTyped ==
    ASSUME Typed, NEW w \in SplitWorkers, SplitStep(w)
    PROVE  Typed'
  <1> USE DEF Typed
  <1> DEFINE me == split[w]
  <1>0. UNCHANGED <<disk, index, failed, known, updated, stop, main, walk, iw, intern, writer>>
    BY DEF SplitStep, SplitTakes, SplitOffers, SplitPut, SplitQuits, store
  <1>g. GoodDocs' = GoodDocs /\ UNCHANGED disk
    BY <1>0, SameDocs
  <1> USE <1>g
  <1>2. SplitOK(me)
    BY DEF SplitsOK
  <1>c. cutshort' \subseteq Files
    <2>1. CASE SplitQuits(w)
      <3>1. \A d \in Splitting(me) : FileOf(d.udi) \in Files
        BY <1>2, DocTypes DEF Splitting, SplitOK, GoodDocs, Docs
      <3>2. QED
        BY <2>1, <3>1 DEF SplitQuits, StoreOK
    <2>2. CASE UNCHANGED cutshort
      BY <2>2 DEF StoreOK
    <2>3. QED
      BY <2>1, <2>2 DEF SplitStep, SplitTakes, SplitOffers, SplitPut, store
  <1>1. FilesOK' /\ StoreOK' /\ MainOK' /\ IwOK' /\ InternsOK' /\ WriterOK(writer)'
    BY <1>0, <1>c DEF walk, FilesOK, StoreOK, MainOK, IwOK, InternsOK, InternOK, WriterOK
  <1>3. CASE SplitTakes(w)
    <2>1. DwOK' /\ Head(dw.q) \in GoodDocs
      BY <1>3, PopType, BoundsAssumption DEF SplitTakes, DwOK
    <2>2. SplitOK([at |-> "split", doc |-> Head(dw.q)])
      BY <2>1 DEF SplitOK, SplitStates, GoodDocs
    <2>3. SplitsOK' /\ WqOK'
      BY <1>3, <2>2, SplitsTyped DEF SplitTakes, WqOK
    <2>4. QED
      BY <1>1, <2>1, <2>3
  <1>4. CASE SplitOffers(w)
    <2>1. SplitOK([me EXCEPT !.at = "put"])
      BY <1>2, <1>4 DEF SplitOffers, SplitOK, SplitStates
    <2>2. SplitsOK' /\ DwOK' /\ WqOK'
      BY <1>4, <2>1, SplitsTyped DEF SplitOffers, DwOK, WqOK
    <2>3. QED
      BY <1>1, <2>2
  <1>5. CASE SplitPut(w)
    <2>1. me.doc \in GoodDocs
      BY <1>2, <1>5 DEF SplitPut, SplitOK
    <2>2. WqOK'
      BY <1>5, <2>1, PushType, BoundsAssumption DEF SplitPut, WqOK
    <2>3. SplitsOK' /\ DwOK'
      BY <1>5, RestingOK, SplitsTyped DEF SplitPut, DwOK
    <2>4. QED
      BY <1>1, <2>2, <2>3
  <1>6. CASE SplitQuits(w)
    <2>1. SplitOK([at |-> "gone", doc |-> NoDoc])
      BY DEF SplitOK, SplitStates
    <2>2. SplitsOK' /\ WqOK'
      BY <1>6, <2>1, SplitsTyped DEF SplitQuits, WqOK
    <2>3. DwOK'
      BY <1>6, QuitType DEF SplitQuits, DwOK
    <2>4. QED
      BY <1>1, <2>2, <2>3
  <1>7. QED
    BY <1>3, <1>4, <1>5, <1>6 DEF SplitStep

LEMMA WriterTyped == Typed /\ WriterStep => Typed'
  <1> SUFFICES ASSUME Typed, WriterStep PROVE Typed'
    OBVIOUS
  <1> USE DEF Typed
  <1>0. UNCHANGED <<disk, known, stop, main, walk, iw, dw, intern, split>>
    BY DEF WriterStep, WriterTakes, Write, WriterQuits, store
  <1>g. GoodDocs' = GoodDocs
    BY <1>0, SameDocs
  <1>c. cutshort' \subseteq Files
    <2>1. writer.at = "write" => FileOf(writer.doc.udi) \in Files
      BY DocTypes DEF WriterOK, GoodDocs, Docs
    <2>2. QED
      BY <2>1 DEF WriterStep, WriterTakes, Write, WriterQuits, store, StoreOK
  <1> USE <1>g
  <1>1. FilesOK' /\ MainOK' /\ IwOK' /\ DwOK' /\ InternsOK' /\ SplitsOK'
    BY <1>0 DEF walk, FilesOK, MainOK, IwOK, DwOK, InternsOK, InternOK, SplitsOK, SplitOK
  <1>2. CASE WriterTakes
    <2>1. WqOK' /\ Head(wq.q) \in GoodDocs
      BY <1>2, PopType, BoundsAssumption DEF WriterTakes, WqOK
    <2>2. WriterOK(writer)' /\ StoreOK'
      BY <1>2, <2>1 DEF WriterTakes, WriterOK, WriterStates, GoodDocs, store, StoreOK
    <2>3. QED
      BY <1>1, <2>1, <2>2
  <1>3. ASSUME writer.at = "write",
               Written(writer.doc) \/ UNCHANGED <<index, failed, updated>>
        PROVE  StoreOK'
    <2>1. /\ writer.doc.udi \in Udis /\ writer.doc.ver \in Versions
          /\ writer.doc.plus => writer.doc.udi \in Files
      BY <1>3 DEF WriterOK, GoodDocs, Docs
    <2>2. QED
      BY <1>0, <1>c, <1>3, <2>1 DEF Written, StoreOK
  <1>4. CASE Write
    <2>1. StoreOK' /\ WqOK' /\ WriterOK(writer)'
      BY <1>3, <1>4, RestingOK DEF Write, WqOK, WriterOK, WriterStates, Free
    <2>2. QED
      BY <1>1, <2>1
  <1>5. CASE WriterQuits
    <2>1. WqOK'
      BY <1>5, QuitType DEF WriterQuits, WqOK
    <2>2. StoreOK' /\ WriterOK(writer)'
      BY <1>3, <1>5 DEF WriterQuits, WriterOK, WriterStates
    <2>3. QED
      BY <1>1, <2>1, <2>2
  <1>6. QED
    BY <1>2, <1>4, <1>5 DEF WriterStep

LEMMA NextTyped == Typed /\ [Next]_vars => Typed'
  <1> SUFFICES ASSUME Typed, [Next]_vars PROVE Typed'
    OBVIOUS
  <1>1. CASE Interrupt \/ UNCHANGED vars
    <2>1. /\ UNCHANGED <<disk, store, main, walk, iw, dw, wq, workers>>
          /\ stop' \in BOOLEAN
      BY <1>1 DEF Interrupt, vars, Typed, MainOK
    <2>2. GoodDocs' = GoodDocs
      BY <2>1, SameDocs
    <2>3. QED
      BY <2>1, <2>2 DEF Typed, FilesOK, StoreOK, MainOK, IwOK, DwOK, WqOK, InternsOK, InternOK,
                        SplitsOK, SplitOK, WriterOK, store, walk, workers
  <1>2. CASE Finished
    BY <1>1, <1>2 DEF Finished
  <1>3. QED
    BY <1>1, <1>2, MainTyped, InternTyped, SplitTyped, WriterTyped DEF Next

LEMMA TypedTypes == Typed => TypeOK
  <1> SUFFICES ASSUME Typed PROVE TypeOK
    OBVIOUS
  <1>1. \A S, T : S \subseteq T => Queues(S) \subseteq Queues(T)
    BY SeqMonotonic DEF Queues
  <1>2. iw \in Queues(Files) /\ dw \in Queues(Docs) /\ wq \in Queues(Docs)
    BY <1>1 DEF Typed, IwOK, DwOK, WqOK, GoodDocs
  <1>3. QED
    BY <1>2 DEF TypeOK, Typed, FilesOK, StoreOK, MainOK, IwOK, DwOK, WqOK, InternsOK, SplitsOK,
                WriterOK

(* TypeOK of every pass: the threads have what their state says, the       *)
(* queues keep to their lengths, the bits are those of known documents.    *)
THEOREM PassTyped == Spec => []TypeOK
  <1>1. Spec => []Typed
    BY TypedInit, NextTyped, PTL DEF Spec
  <1>2. QED
    BY <1>1, TypedTypes, PTL

-----------------------------------------------------------------------------
(* The waits for the three queues: what the counts of shutdownQueues() say *)
(* about the workers.                                                      *)

InternsAt(a) == {w \in InternWorkers : intern[w].at = a}
SplitsAt(a) == {w \in SplitWorkers : split[w].at = a}

Exits ==
    /\ iw.exited = Cardinality(InternsAt("gone"))
    /\ dw.exited = Cardinality(SplitsAt("gone"))
    /\ wq.exited = IF writer.at = "gone" THEN 1 ELSE 0

InternsBack ==
    /\ \A w \in InternWorkers : intern[w].at \in {"idle", "gone"}
    /\ iw.q = << >> \/ iw.exited = Cardinality(InternWorkers)
SplitsBack ==
    /\ \A w \in SplitWorkers : split[w].at \in {"idle", "gone"}
    /\ dw.q = << >> \/ dw.exited = Cardinality(SplitWorkers)
WriterBack ==
    /\ writer.at \in {"idle", "gone"}
    /\ wq.q = << >> \/ wq.exited = 1

Over == {"walked", "purge", "complete", "cut", "idle"}

Drains ==
    /\ Exits
    /\ main \in {"drainSplit", "drainWrite"} \cup Over => InternsBack
    /\ main \in {"drainWrite"} \cup Over => SplitsBack
    /\ main \in Over => WriterBack

LEMMA QueueExits ==
    ASSUME NEW S, NEW p \in Queues(S)
    PROVE  /\ \A t : Pushed(p, t).exited = p.exited /\ Pushed(p, t).q = Append(p.q, t)
           /\ Popped(p).exited = p.exited /\ Popped(p).q = Tail(p.q)
           /\ Quit(p).exited = p.exited + 1 /\ Quit(p).q = p.q
           /\ Closed(p).exited = p.exited /\ Closed(p).q = p.q
           /\ p.exited \in Nat
BY DEF Queues, Pushed, Popped, Quit, Closed

(* As many workers back or gone as there are: they all are.                *)
LEMMA AllAccounted ==
    ASSUME NEW W, IsFiniteSet(W), NEW A \in SUBSET W, NEW B \in SUBSET W, A \cap B = {},
           Cardinality(A) + Cardinality(B) = Cardinality(W)
    PROVE  A \cup B = W
  <1>1. IsFiniteSet(A) /\ IsFiniteSet(B)
    BY FS_Subset
  <1>2. Cardinality(A) \in Nat /\ Cardinality(B) \in Nat
    BY <1>1, FS_CardinalityType
  <1>3. Cardinality(A \cup B) = Cardinality(A) + Cardinality(B)
    <2>1. Cardinality(A \cap B) = 0
      BY FS_EmptySet
    <2>2. Cardinality(A \cup B) = Cardinality(A) + Cardinality(B) - Cardinality(A \cap B)
      BY <1>1, FS_Union
    <2>3. QED
      BY <1>2, <2>1, <2>2
  <1>4. QED
    BY <1>3, FS_Subset

LEMMA Count ==
    ASSUME NEW W, IsFiniteSet(W), NEW A \in SUBSET W, NEW w \in W, w \notin A
    PROVE  Cardinality(A \cup {w}) = Cardinality(A) + 1 /\ Cardinality(A) \in Nat
  <1>1. IsFiniteSet(A)
    BY FS_Subset
  <1>2. QED
    BY <1>1, FS_AddElement, FS_CardinalityType

LEMMA Counted ==
    /\ Typed /\ Exits /\ InternDrained => InternsBack
    /\ Typed /\ Exits /\ SplitDrained => SplitsBack
    /\ Typed /\ Exits /\ WriteDrained => WriterBack
  <1>1. ASSUME Typed, Exits, InternDrained PROVE InternsBack
    <2>1. InternsAt("idle") \cup InternsAt("gone") = InternWorkers
      <3>1. /\ InternsAt("idle") \subseteq InternWorkers /\ InternsAt("gone") \subseteq InternWorkers
            /\ InternsAt("idle") \cap InternsAt("gone") = {}
        BY DEF InternsAt
      <3>2. Cardinality(InternsAt("idle")) + Cardinality(InternsAt("gone"))
                = Cardinality(InternWorkers)
        BY <1>1 DEF InternDrained, Drained, Exits, InternsAt
      <3>3. QED
        BY <3>1, <3>2, AllAccounted, WorkersAssumption
    <2>2. QED
      BY <1>1, <2>1 DEF InternsBack, InternsAt, InternDrained, Drained
  <1>2. ASSUME Typed, Exits, SplitDrained PROVE SplitsBack
    <2>1. SplitsAt("idle") \cup SplitsAt("gone") = SplitWorkers
      <3>1. /\ SplitsAt("idle") \subseteq SplitWorkers /\ SplitsAt("gone") \subseteq SplitWorkers
            /\ SplitsAt("idle") \cap SplitsAt("gone") = {}
        BY DEF SplitsAt
      <3>2. Cardinality(SplitsAt("idle")) + Cardinality(SplitsAt("gone"))
                = Cardinality(SplitWorkers)
        BY <1>2 DEF SplitDrained, Drained, Exits, SplitsAt
      <3>3. QED
        BY <3>1, <3>2, AllAccounted, WorkersAssumption
    <2>2. QED
      BY <1>2, <2>1 DEF SplitsBack, SplitsAt, SplitDrained, Drained
  <1>3. ASSUME Typed, Exits, WriteDrained PROVE WriterBack
    BY <1>3 DEF WriterBack, WriteDrained, Drained, Exits, Typed, WriterOK, WriterStates
  <1>4. QED
    BY <1>1, <1>2, <1>3

LEMMA SomeWorkers == Cardinality(InternWorkers) # 0 /\ Cardinality(SplitWorkers) # 0
BY WorkersAssumption, FS_EmptySet

LEMMA DrainsInit == Init => Drains
  <1> SUFFICES ASSUME Init PROVE Drains
    OBVIOUS
  <1>1. InternsAt("gone") = {} /\ SplitsAt("gone") = {} /\ writer.at = "idle"
    BY DEF Init, InternsAt, SplitsAt, Resting, Free
  <1>2. Exits
    BY <1>1, FS_EmptySet DEF Init, Exits, NewQueue
  <1>3. InternsBack /\ SplitsBack /\ WriterBack
    BY DEF Init, InternsBack, SplitsBack, WriterBack, NewQueue, Resting, Free
  <1>4. QED
    BY <1>2, <1>3 DEF Drains

(* A worker either leaves, and is counted, or stays.                       *)
LEMMA InternMoves ==
    ASSUME Typed, NEW w \in InternWorkers, InternStep(w)
    PROVE  \E s : /\ intern' = [intern EXCEPT ![w] = s] /\ intern[w].at # "gone"
                  /\ \/ s.at = "gone" /\ iw' = Quit(iw)
                     \/ s.at # "gone" /\ iw'.exited = iw.exited
                  /\ dw'.exited = dw.exited
  <1> DEFINE Moved == \E s : /\ intern' = [intern EXCEPT ![w] = s] /\ intern[w].at # "gone"
                             /\ \/ s.at = "gone" /\ iw' = Quit(iw)
                                \/ s.at # "gone" /\ iw'.exited = iw.exited
                             /\ dw'.exited = dw.exited
  <1>1. /\ intern[w] \in InternStates
        /\ \A p \in {iw, dw} : /\ Popped(p).exited = p.exited
                               /\ \A t : Pushed(p, t).exited = p.exited
    BY QueueExits DEF Typed, InternsOK, IwOK, DwOK
  <1>2. [Resting EXCEPT !.at = "gone"].at = "gone" /\ Resting.at = "idle"
    BY DEF Resting
  <1>3. ASSUME InternQuits(w), intern[w].at # "gone", UNCHANGED dw PROVE Moved
    BY <1>2, <1>3 DEF InternQuits
  <1>4. ASSUME NEW s, intern' = [intern EXCEPT ![w] = s], s.at # "gone", intern[w].at # "gone",
               UNCHANGED iw \/ iw' = Popped(iw), UNCHANGED dw \/ \E t : dw' = Pushed(dw, t)
        PROVE  Moved
    BY <1>1, <1>4
  <1>5. CASE InternTakes(w)
    BY <1>1, <1>4, <1>5 DEF InternTakes, InternStates
  <1>6. CASE InternAborted(w) \/ InternCancelled(w) \/ InternStopped(w) \/ InternPutFails(w)
    BY <1>3, <1>6 DEF InternAborted, InternCancelled, InternStopped, InternPutFails, LeavesFile
  <1>7. CASE UpToDate(w) \/ ReadFails(w)
    BY <1>2, <1>3, <1>4, <1>7 DEF UpToDate, ReadFails
  <1>8. CASE OutOfDate(w)
    BY <1>1, <1>4, <1>8 DEF OutOfDate, InternStates
  <1>9. CASE (\E u \in Udis : Extract(w, u)) \/ FailsEarly(w)
    <2>1. PICK d : Launch(w, d) /\ intern[w].at = "extract" /\ UNCHANGED dw
      BY <1>9 DEF Extract, FailsEarly
    <2>2. [intern[w] EXCEPT !.at = "put", !.doc = d].at = "put"
      BY <1>1 DEF InternStates
    <2>3. CASE InternQuits(w)
      BY <1>3, <2>1, <2>3
    <2>4. CASE intern' = [intern EXCEPT ![w].at = "put", ![w].doc = d] /\ UNCHANGED iw
      BY <1>4, <2>1, <2>2, <2>4
    <2>5. QED
      BY <2>1, <2>3, <2>4 DEF Launch, LeavesFile
  <1>10. CASE FailsLate(w)
    BY <1>2, <1>4, <1>10 DEF FailsLate
  <1>11. CASE InternPut(w)
    <2>1. [intern[w] EXCEPT !.at = "look"].at = "look"
      BY <1>1 DEF InternStates
    <2>2. PICK s : intern' = [intern EXCEPT ![w] = s] /\ s.at # "gone"
      BY <1>2, <1>11, <2>1 DEF InternPut
    <2>3. QED
      BY <1>4, <1>11, <2>2 DEF InternPut
  <1>12. CASE InternGoesOn(w)
    <2>1. [intern[w] EXCEPT !.at = "extract", !.todo = Left(intern[w]), !.doc = NoDoc].at = "extract"
      BY <1>1 DEF InternStates
    <2>2. PICK s : intern' = [intern EXCEPT ![w] = s] /\ s.at # "gone"
      BY <1>2, <1>12, <2>1 DEF InternGoesOn
    <2>3. QED
      BY <1>4, <1>12, <2>2 DEF InternGoesOn
  <1>13. QED
    BY <1>5, <1>6, <1>7, <1>8, <1>9, <1>10, <1>11, <1>12 DEF InternStep

LEMMA InternDrains ==
    ASSUME Typed, Drains, NEW w \in InternWorkers, InternStep(w)
    PROVE  Drains'
  <1>0. UNCHANGED <<main, wq, split, writer>>
    BY DEF InternStep, InternTakes, InternAborted, UpToDate, ReadFails, OutOfDate, Extract,
           FailsEarly, FailsLate, InternCancelled, InternPut, InternStopped, InternGoesOn,
           InternPutFails, InternQuits, LeavesFile, Launch
  <1>1. PICK s : /\ intern' = [intern EXCEPT ![w] = s] /\ intern[w].at # "gone"
                 /\ \/ s.at = "gone" /\ iw' = Quit(iw)
                    \/ s.at # "gone" /\ iw'.exited = iw.exited
                 /\ dw'.exited = dw.exited
    BY InternMoves
  <1>2. intern \in [InternWorkers -> InternStates] /\ iw \in Queues({f \in Files : disk[f] # 0})
    BY DEF Typed, InternsOK, IwOK
  <1>3. /\ w \notin InternsAt("gone") /\ InternsAt("gone") \subseteq InternWorkers
        /\ s.at = "gone" => InternsAt("gone")' = InternsAt("gone") \cup {w}
        /\ s.at # "gone" => InternsAt("gone")' = InternsAt("gone")
    BY <1>1, <1>2 DEF InternsAt
  <1>4. Exits'
    <2>1. Cardinality(InternsAt("gone") \cup {w}) = Cardinality(InternsAt("gone")) + 1
      BY <1>3, Count, WorkersAssumption
    <2>2. iw'.exited = Cardinality(InternsAt("gone")')
      BY <1>1, <1>2, <1>3, <2>1, QueueExits DEF Drains, Exits
    <2>3. QED
      BY <1>0, <1>1, <2>2 DEF Drains, Exits, SplitsAt
  <1>5. ASSUME InternsBack PROVE InternsBack' /\ UNCHANGED dw
    <2>1. iw.exited # Cardinality(InternWorkers)
      BY <1>3, FS_Subset, WorkersAssumption DEF Drains, Exits
    <2>2. iw.q = << >> /\ intern[w].at = "idle"
      BY <1>1, <1>5, <2>1 DEF InternsBack
    <2>3. InternAborted(w)
      BY <2>2 DEF InternStep, InternTakes, UpToDate, ReadFails, OutOfDate, Extract, FailsEarly,
                  FailsLate, InternCancelled, InternPut, InternStopped, InternGoesOn, InternPutFails
    <2>4. iw'.q = << >> /\ UNCHANGED dw
      BY <1>2, <2>2, <2>3, QueueExits DEF InternAborted, InternQuits
    <2>5. \A v \in InternWorkers : intern'[v].at \in {"idle", "gone"}
      BY <1>2, <1>5, <2>3 DEF InternAborted, InternQuits, InternsBack, Resting
    <2>6. QED
      BY <2>4, <2>5 DEF InternsBack
  <1>6. QED
    BY <1>0, <1>4, <1>5 DEF Drains, SplitsBack, WriterBack, Over

LEMMA SplitMoves ==
    ASSUME Typed, NEW w \in SplitWorkers, SplitStep(w)
    PROVE  \E s : /\ split' = [split EXCEPT ![w] = s] /\ split[w].at # "gone"
                  /\ \/ s.at = "gone" /\ dw' = Quit(dw)
                     \/ s.at # "gone" /\ dw'.exited = dw.exited
                  /\ wq'.exited = wq.exited
  <1>1. /\ split[w] \in SplitStates
        /\ \A p \in {dw, wq} : /\ Popped(p).exited = p.exited
                               /\ \A t : Pushed(p, t).exited = p.exited
    BY QueueExits DEF Typed, SplitsOK, DwOK, WqOK
  <1>2. [split[w] EXCEPT !.at = "put"].at = "put" /\ Free.at = "idle"
    BY <1>1 DEF Free, SplitStates
  <1>3. PICK s : /\ split' = [split EXCEPT ![w] = s] /\ split[w].at # "gone"
                 /\ \/ s.at = "gone" /\ dw' = Quit(dw)
                    \/ s.at # "gone" /\ (UNCHANGED dw \/ dw' = Popped(dw))
                 /\ UNCHANGED wq \/ \E t : wq' = Pushed(wq, t)
    BY <1>2 DEF SplitStep, SplitTakes, SplitOffers, SplitPut, SplitQuits
  <1>4. QED
    BY <1>1, <1>3

LEMMA SplitDrains ==
    ASSUME Typed, Drains, NEW w \in SplitWorkers, SplitStep(w)
    PROVE  Drains'
  <1>0. UNCHANGED <<main, iw, intern, writer>>
    BY DEF SplitStep, SplitTakes, SplitOffers, SplitPut, SplitQuits
  <1>1. PICK s : /\ split' = [split EXCEPT ![w] = s] /\ split[w].at # "gone"
                 /\ \/ s.at = "gone" /\ dw' = Quit(dw)
                    \/ s.at # "gone" /\ dw'.exited = dw.exited
                 /\ wq'.exited = wq.exited
    BY SplitMoves
  <1>2. split \in [SplitWorkers -> SplitStates] /\ dw \in Queues(GoodDocs)
    BY DEF Typed, SplitsOK, DwOK
  <1>3. /\ w \notin SplitsAt("gone") /\ SplitsAt("gone") \subseteq SplitWorkers
        /\ s.at = "gone" => SplitsAt("gone")' = SplitsAt("gone") \cup {w}
        /\ s.at # "gone" => SplitsAt("gone")' = SplitsAt("gone")
    BY <1>1, <1>2 DEF SplitsAt
  <1>4. Exits'
    <2>1. Cardinality(SplitsAt("gone") \cup {w}) = Cardinality(SplitsAt("gone")) + 1
      BY <1>3, Count, WorkersAssumption
    <2>2. dw'.exited = Cardinality(SplitsAt("gone")')
      BY <1>1, <1>2, <1>3, <2>1, QueueExits DEF Drains, Exits
    <2>3. QED
      BY <1>0, <1>1, <2>2 DEF Drains, Exits, InternsAt
  <1>5. ASSUME SplitsBack PROVE SplitsBack' /\ UNCHANGED wq
    <2>1. dw.exited # Cardinality(SplitWorkers)
      BY <1>3, FS_Subset, WorkersAssumption DEF Drains, Exits
    <2>2. dw.q = << >> /\ split[w].at = "idle"
      BY <1>1, <1>5, <2>1 DEF SplitsBack
    <2>3. SplitQuits(w)
      BY <2>2 DEF SplitStep, SplitTakes, SplitOffers, SplitPut
    <2>4. dw'.q = << >> /\ UNCHANGED wq
      BY <1>2, <2>2, <2>3, QueueExits DEF SplitQuits
    <2>5. \A v \in SplitWorkers : split'[v].at \in {"idle", "gone"}
      BY <1>2, <1>5, <2>3 DEF SplitQuits, SplitsBack
    <2>6. QED
      BY <2>4, <2>5 DEF SplitsBack
  <1>6. QED
    BY <1>0, <1>4, <1>5 DEF Drains, InternsBack, WriterBack, Over

LEMMA WriterDrains == Typed /\ Drains /\ WriterStep => Drains'
  <1> SUFFICES ASSUME Typed, Drains, WriterStep PROVE Drains'
    OBVIOUS
  <1>0. UNCHANGED <<main, iw, dw, intern, split>>
    BY DEF WriterStep, WriterTakes, Write, WriterQuits
  <1>1. wq \in Queues(GoodDocs) /\ wq.exited \in Nat
    BY QueueExits DEF Typed, WqOK
  <1>2. Exits'
    <2>1. wq'.exited = IF writer'.at = "gone" THEN 1 ELSE 0
      BY <1>1, QueueExits DEF WriterStep, WriterTakes, Write, WriterQuits, Drains, Exits, Free
    <2>2. QED
      BY <1>0, <2>1 DEF Drains, Exits, InternsAt, SplitsAt
  <1>3. ~WriterBack
    BY DEF WriterStep, WriterTakes, Write, WriterQuits, WriterBack, Ok
  <1>4. QED
    BY <1>0, <1>2, <1>3 DEF Drains, InternsBack, SplitsBack, Over

LEMMA MainDrains == Typed /\ Drains /\ MainStep => Drains'
  <1> SUFFICES ASSUME Typed, Drains, MainStep PROVE Drains'
    OBVIOUS
  <1>1. CASE BeginPass
    <2>1. InternsAt("gone")' = {} /\ SplitsAt("gone")' = {} /\ writer'.at = "idle"
      BY <1>1 DEF BeginPass, StartPass, InternsAt, SplitsAt, Resting, Free
    <2>2. Exits'
      BY <1>1, <2>1, FS_EmptySet DEF BeginPass, StartPass, Exits, NewQueue
    <2>3. QED
      BY <1>1, <2>2 DEF BeginPass, StartPass, Drains, Over
  <1>2. CASE WalkPut
    <2>1. Exits'
      BY <1>2, QueueExits DEF Typed, IwOK, WalkPut, workers, Drains, Exits, InternsAt, SplitsAt
    <2>2. QED
      BY <1>2, <2>1 DEF WalkPut, Drains, Over
  <1>3. CASE CloseShops
    <2>1. Exits'
      BY <1>3, QueueExits DEF Typed, IwOK, DwOK, WqOK, CloseShops, workers, Drains, Exits,
                              InternsAt, SplitsAt
    <2>2. QED
      BY <1>3, <2>1 DEF CloseShops, Drains, Over
  <1>4. CASE (\E f \in Files : WalkFile(f)) \/ WalkFails \/ WalkEnds \/ Drain \/ GoPurge \/ EndPass
             \/ Purge \/ PurgeCut
    <2>1. UNCHANGED <<iw, dw, wq, intern, split, writer>>
      BY <1>4 DEF WalkFile, WalkFails, WalkEnds, Drain, GoPurge, EndPass, Purge, PurgeCut, workers
    <2>2. /\ Exits' /\ (InternsBack => InternsBack') /\ (SplitsBack => SplitsBack')
          /\ WriterBack => WriterBack'
      BY <2>1 DEF Drains, Exits, InternsAt, SplitsAt, InternsBack, SplitsBack, WriterBack
    <2>3. CASE Drain
      BY <2>2, <2>3, Counted DEF Drain, Drains, Over
    <2>4. CASE (\E f \in Files : WalkFile(f)) \/ WalkFails \/ WalkEnds
      BY <2>2, <2>4 DEF WalkFile, WalkFails, WalkEnds, Drains, Over
    <2>5. CASE GoPurge \/ EndPass \/ Purge \/ PurgeCut
      BY <2>2, <2>5 DEF GoPurge, EndPass, Purge, PurgeCut, Drains, Over
    <2>6. QED
      BY <1>4, <2>3, <2>4, <2>5
  <1>5. QED
    BY <1>1, <1>2, <1>3, <1>4 DEF MainStep

LEMMA NextDrains == Typed /\ Drains /\ [Next]_vars => Drains'
  <1> SUFFICES ASSUME Typed, Drains, [Next]_vars PROVE Drains'
    OBVIOUS
  <1>1. CASE Interrupt \/ Finished \/ UNCHANGED vars
    <2>1. UNCHANGED <<main, iw, dw, wq, intern, split, writer>>
      BY <1>1 DEF Interrupt, Finished, vars, workers
    <2>2. QED
      BY <2>1 DEF Drains, Exits, InternsAt, SplitsAt, InternsBack, SplitsBack, WriterBack
  <1>2. QED
    BY <1>1, MainDrains, InternDrains, SplitDrains, WriterDrains DEF Next

(* NothingRunsAfterDrain: shutdownQueues() waits for the three queues in   *)
(* the order of the stages, and ignores what the waits return; whatever    *)
(* failed, nothing runs any more when it is done.                          *)
THEOREM NothingRuns == Spec => []NothingRunsAfterDrain
  <1>1. Spec => [](Typed /\ Drains)
    BY TypedInit, DrainsInit, NextTyped, NextDrains, PTL DEF Spec
  <1>2. Drains => NothingRunsAfterDrain
    BY DEF Drains, InternsBack, SplitsBack, WriterBack, Over, NothingRunsAfterDrain
  <1>3. QED
    BY <1>1, <1>2, PTL

-----------------------------------------------------------------------------
(* The way of a document through the stages.                               *)

Distinct(q) == \A i, j \in DOMAIN q : q[i] = q[j] => i = j

Busy == {w \in InternWorkers : intern[w].at \notin {"idle", "gone"}}

(* A file is yet to be walked, or once in the queue, or with one worker.   *)
OnePlace ==
    /\ Distinct(iw.q) /\ Items(iw.q) \cap towalk = {}
    /\ \A w \in Busy : intern[w].file \notin Items(iw.q) \cup towalk
    /\ \A v, w \in Busy : intern[v].file = intern[w].file => v = w

Unchecked(f) ==
    f \in towalk \cup Items(iw.q) \/ \E w \in InternWorkers : intern[w].at = "check" /\ intern[w].file = f

(* The documents between the extraction and the index.                     *)
SplitDocs == UNION {Splitting(split[w]) : w \in SplitWorkers}
Writing == IF writer.at = "write" THEN {writer.doc} ELSE {}
Flying == Items(dw.q) \cup SplitDocs \cup Items(wq.q) \cup Writing

(* Before a file is checked nothing of this pass is in the index for it.   *)
CheckedBefore ==
    \A f \in Files : Unchecked(f) =>
        /\ index[f] # 0 => f \in known
        /\ \A d \in Flying : d.udi # f

(* What a worker will still do for a document of its file.                 *)
Owes(s, u) ==
    /\ s.file = FileOf(u)
    /\ \/ s.at = "check"
       \/ s.at = "extract" /\ u \in s.todo
       \/ s.at = "put" /\ (s.doc.plus \/ u \in s.todo)
       \/ s.at = "look" /\ (s.doc.plus \/ u \in Left(s))

Coming(u) ==
    \/ FileOf(u) \in towalk \cup Items(iw.q)
    \/ \E w \in InternWorkers : Owes(intern[w], u)
    \/ \E d \in Flying : d.udi = u

(* The bit of a document is on, or somebody is on the way to set it.       *)
BitsComing ==
    \A u \in known : u \in Live => u \in updated \/ FileOf(u) \in cutshort \/ Coming(u)

Flow ==
    /\ OnePlace
    /\ CheckedBefore
    /\ \A u \in known : index[u] # 0
    /\ BitsComing

WalkOver == {"drainIntern", "drainSplit", "drainWrite", "walked", "purge"}

Flows ==
    /\ main = "purge" => walkok
    /\ main = "close" => ~walkok
    /\ main \in WalkOver /\ walkok => towalk = {}
    /\ main \in WalkOver \cup {"walk", "put"} /\ walkok => Flow

LEMMA PushItems ==
    ASSUME NEW S, NEW q \in Seq(S), NEW t \in S
    PROVE  /\ Items(Append(q, t)) = Items(q) \cup {t}
           /\ Distinct(q) /\ t \notin Items(q) => Distinct(Append(q, t))
  <1>1. Len(q) \in Nat /\ DOMAIN q = 1 .. Len(q)
    BY LenProperties
  <1>2. /\ Append(q, t) \in Seq(S) /\ Len(Append(q, t)) = Len(q) + 1
        /\ \A i \in 1 .. Len(q) : Append(q, t)[i] = q[i]
        /\ Append(q, t)[Len(q) + 1] = t
    BY AppendProperties
  <1>3. DOMAIN Append(q, t) = 1 .. Len(q) + 1
    BY <1>2, LenProperties
  <1>4. \A i \in 1 .. Len(q) + 1 : i \in 1 .. Len(q) \/ i = Len(q) + 1
    BY <1>1
  <1>5. QED
    BY <1>1, <1>2, <1>3, <1>4 DEF Items, Distinct

LEMMA PopItems ==
    ASSUME NEW S, NEW q \in Seq(S), q # << >>
    PROVE  /\ Items(q) = Items(Tail(q)) \cup {Head(q)}
           /\ Distinct(q) => Distinct(Tail(q)) /\ Head(q) \notin Items(Tail(q))
  <1>1. Len(q) \in Nat /\ DOMAIN q = 1 .. Len(q) /\ Len(q) # 0
    BY LenProperties, EmptySeq
  <1>2. /\ Tail(q) \in Seq(S) /\ Len(Tail(q)) = Len(q) - 1
        /\ \A i \in 1 .. Len(Tail(q)) : Tail(q)[i] = q[i + 1]
    BY HeadTailProperties
  <1>3. DOMAIN Tail(q) = 1 .. Len(q) - 1
    BY <1>2, LenProperties
  <1>4. q[1] = Head(q) /\ 1 \in DOMAIN q
    BY <1>1
  <1>5. /\ \A i \in DOMAIN Tail(q) : i + 1 \in DOMAIN q /\ i + 1 # 1 /\ Tail(q)[i] = q[i + 1]
        /\ \A i \in DOMAIN q \ {1} : i - 1 \in DOMAIN Tail(q) /\ Tail(q)[i - 1] = q[i]
        /\ \A i, j \in DOMAIN Tail(q) : i + 1 = j + 1 => i = j
    <2>1. \A i \in 1 .. Len(q) : i # 1 => i - 1 \in 1 .. Len(q) - 1 /\ (i - 1) + 1 = i
      BY <1>1
    <2>2. \A i \in 1 .. Len(q) - 1 : i + 1 \in 1 .. Len(q) /\ i + 1 # 1
      BY <1>1
    <2>3. QED
      BY <1>1, <1>2, <1>3, <2>1, <2>2
  <1>6. Items(q) = Items(Tail(q)) \cup {Head(q)}
    <2>1. ASSUME NEW i \in DOMAIN q
          PROVE  q[i] \in Items(Tail(q)) \cup {Head(q)}
      <3>1. CASE i = 1
        BY <1>4, <3>1
      <3>2. CASE i # 1
        <4>1. i - 1 \in DOMAIN Tail(q) /\ Tail(q)[i - 1] = q[i]
          BY <1>5, <2>1, <3>2
        <4>2. QED
          BY <4>1 DEF Items
      <3>3. QED
        BY <3>1, <3>2
    <2>2. Items(q) \subseteq Items(Tail(q)) \cup {Head(q)}
      BY <2>1 DEF Items
    <2>3. Items(Tail(q)) \cup {Head(q)} \subseteq Items(q)
      BY <1>4, <1>5 DEF Items
    <2>4. QED
      BY <2>2, <2>3
  <1>7. Distinct(q) => Distinct(Tail(q))
    BY <1>5 DEF Distinct
  <1>8. Distinct(q) => Head(q) \notin Items(Tail(q))
    BY <1>4, <1>5 DEF Distinct, Items
  <1>9. QED
    BY <1>6, <1>7, <1>8

LEMMA NoItems == Items(<< >>) = {} /\ Distinct(<< >>)
BY DEF Items, Distinct

(* What a step has to keep, so that the flow goes on.                      *)
LEMMA FlowKept ==
    ASSUME Flow, UNCHANGED <<disk, known>>, OnePlace',
           \A f \in Files : Unchecked(f)' =>
               Unchecked(f) /\ index'[f] = index[f] /\ \A d \in Flying' : d.udi # f,
           \A u \in known : index'[u] # 0,
           updated \subseteq updated', cutshort \subseteq cutshort',
           \A u \in known : u \in Live /\ Coming(u) =>
               u \in updated' \/ FileOf(u) \in cutshort' \/ Coming(u)'
    PROVE  Flow'
  <1>1. CheckedBefore'
    BY DEF Flow, CheckedBefore
  <1>2. Live' = Live
    BY DEF Live, PartsNow
  <1>3. BitsComing'
    BY <1>2 DEF Flow, BitsComing
  <1>4. QED
    BY <1>1, <1>3 DEF Flow

(* A step of an internfile worker that keeps its file, or leaves it when   *)
(* nothing is owed for it any more or the file is noted as cut short.      *)
Onward(w, s) ==
    /\ \/ s.at \in {"idle", "gone"}
       \/ s.at \in {"extract", "put", "look"} /\ s.file = intern[w].file
    /\ w \in Busy
    /\ intern' = [intern EXCEPT ![w] = s]
    /\ iw'.q = iw.q /\ UNCHANGED <<disk, known, index, towalk, split, wq, writer>>
    /\ updated \subseteq updated' /\ cutshort \subseteq cutshort'

LEMMA OnwardPlaces ==
    ASSUME Typed, Flow, NEW w \in InternWorkers, NEW s, Onward(w, s)
    PROVE  OnePlace' /\ \A f \in Files : Unchecked(f)' => Unchecked(f) /\ f # intern[w].file
  <1>1. /\ intern'[w] = s /\ \A v \in InternWorkers : v # w => intern'[v] = intern[v]
        /\ iw'.q = iw.q /\ towalk' = towalk
    BY DEF Onward, Typed, InternsOK
  <1>2. Busy' \subseteq Busy /\ \A v \in Busy' : intern'[v].file = intern[v].file
    BY <1>1 DEF Onward, Busy
  <1>3. OnePlace'
    BY <1>1, <1>2 DEF Flow, OnePlace
  <1>4. ASSUME NEW f \in Files, Unchecked(f)'
        PROVE  Unchecked(f) /\ f # intern[w].file
    <2>1. CASE f \in towalk \cup Items(iw.q)
      BY <2>1 DEF Unchecked, Flow, OnePlace, Onward
    <2>2. CASE f \notin towalk \cup Items(iw.q)
      <3>1. PICK v \in InternWorkers : intern'[v].at = "check" /\ intern'[v].file = f
        BY <1>1, <1>4, <2>2 DEF Unchecked
      <3>2. v # w
        BY <1>1, <3>1 DEF Onward
      <3>3. intern[v].at = "check" /\ intern[v].file = f /\ v \in Busy
        BY <1>1, <3>1, <3>2 DEF Busy
      <3>4. QED
        BY <3>2, <3>3 DEF Unchecked, Flow, OnePlace, Onward
    <2>3. QED
      BY <2>1, <2>2
  <1>5. QED
    BY <1>3, <1>4

LEMMA OnwardFlow ==
    ASSUME Typed, Flow, NEW w \in InternWorkers, NEW s, Onward(w, s), UNCHANGED dw,
           \A u \in known : u \in Live /\ Owes(intern[w], u) =>
               Owes(s, u) \/ u \in updated' \/ FileOf(u) \in cutshort'
    PROVE  Flow'
  <1>1. OnePlace' /\ \A f \in Files : Unchecked(f)' => Unchecked(f)
    BY OnwardPlaces
  <1>2. /\ intern'[w] = s /\ \A v \in InternWorkers : v # w => intern'[v] = intern[v]
        /\ iw'.q = iw.q /\ UNCHANGED <<disk, known, index, towalk, split, dw, wq, writer>>
        /\ updated \subseteq updated' /\ cutshort \subseteq cutshort'
    BY DEF Onward, Typed, InternsOK
  <1>3. Flying' = Flying
    BY <1>2 DEF Flying, SplitDocs, Splitting, Writing
  <1>4. \A f \in Files : Unchecked(f)' =>
            Unchecked(f) /\ index'[f] = index[f] /\ \A d \in Flying' : d.udi # f
    BY <1>1, <1>2, <1>3 DEF Flow, CheckedBefore
  <1>5. ASSUME NEW u \in known, u \in Live, Coming(u)
        PROVE  u \in updated' \/ FileOf(u) \in cutshort' \/ Coming(u)'
    <2>1. CASE FileOf(u) \in towalk \cup Items(iw.q) \/ \E d \in Flying : d.udi = u
      BY <1>2, <1>3, <2>1 DEF Coming
    <2>2. ASSUME NEW v \in InternWorkers, Owes(intern[v], u)
          PROVE  u \in updated' \/ FileOf(u) \in cutshort' \/ Coming(u)'
      <3>1. CASE v = w
        BY <1>2, <1>5, <2>2, <3>1 DEF Coming
      <3>2. CASE v # w
        BY <1>2, <2>2, <3>2 DEF Coming
      <3>3. QED
        BY <3>1, <3>2
    <2>3. QED
      BY <1>5, <2>1, <2>2 DEF Coming
  <1>6. \A u \in known : index'[u] # 0
    BY <1>2 DEF Flow
  <1>7. QED
    BY <1>1, <1>2, <1>4, <1>5, <1>6, FlowKept

(* The same for a worker that puts its document on the queue.              *)
LEMMA PutFlow ==
    ASSUME Typed, Flow, NEW w \in InternWorkers, NEW s, Onward(w, s),
           intern[w].at = "put", dw' = Pushed(dw, intern[w].doc),
           \A u \in known : u \in Live /\ Owes(intern[w], u) =>
               Owes(s, u) \/ u = intern[w].doc.udi
    PROVE  Flow'
  <1> DEFINE doc == intern[w].doc
  <1>1. OnePlace' /\ \A f \in Files : Unchecked(f)' => Unchecked(f) /\ f # intern[w].file
    BY OnwardPlaces
  <1>2. /\ intern'[w] = s /\ \A v \in InternWorkers : v # w => intern'[v] = intern[v]
        /\ iw'.q = iw.q /\ UNCHANGED <<disk, known, index, towalk, split, wq, writer>>
        /\ updated \subseteq updated' /\ cutshort \subseteq cutshort'
    BY DEF Onward, Typed, InternsOK
  <1>3. doc \in GoodDocs /\ FileOf(doc.udi) = intern[w].file
    BY DEF Typed, InternsOK, InternOK
  <1>4. Items(dw'.q) = Items(dw.q) \cup {doc}
    <2>1. dw.q \in Seq(GoodDocs) /\ Append(dw.q, doc) \in Seq(GoodDocs)
      BY <1>3, QueueFields, AppendProperties DEF Typed, DwOK
    <2>2. dw'.q = Append(dw.q, doc)
      <3>1. dw \in Queues(GoodDocs)
        BY DEF Typed, DwOK
      <3>2. QED
        BY <3>1 DEF Pushed, Queues
    <2>3. QED
      BY <1>3, <2>1, <2>2, PushItems
  <1>5. Flying' = Flying \cup {doc}
    BY <1>2, <1>4 DEF Flying, SplitDocs, Splitting, Writing
  <1>6. ASSUME NEW f \in Files, Unchecked(f)'
        PROVE  Unchecked(f) /\ index'[f] = index[f] /\ \A d \in Flying' : d.udi # f
    <2>1. FileOf(f) = f
      BY DEF FileOf, Udis
    <2>2. QED
      BY <1>1, <1>2, <1>3, <1>5, <1>6, <2>1 DEF Flow, CheckedBefore
  <1>7. ASSUME NEW u \in known, u \in Live, Coming(u)
        PROVE  u \in updated' \/ FileOf(u) \in cutshort' \/ Coming(u)'
    <2>1. CASE FileOf(u) \in towalk \cup Items(iw.q) \/ \E d \in Flying : d.udi = u
      BY <1>2, <1>5, <2>1 DEF Coming
    <2>2. ASSUME NEW v \in InternWorkers, Owes(intern[v], u)
          PROVE  Coming(u)'
      <3>1. CASE v = w
        BY <1>2, <1>5, <1>7, <2>2, <3>1 DEF Coming
      <3>2. CASE v # w
        BY <1>2, <2>2, <3>2 DEF Coming
      <3>3. QED
        BY <3>1, <3>2
    <2>3. QED
      BY <1>7, <2>1, <2>2 DEF Coming
  <1>8. \A u \in known : index'[u] # 0
    BY <1>2 DEF Flow
  <1>9. QED
    BY <1>1, <1>2, <1>6, <1>7, <1>8, FlowKept

LEMMA InternFlow ==
    ASSUME Typed, Flow, NEW w \in InternWorkers, InternStep(w)
    PROVE  Flow'
  <1> DEFINE me == intern[w]
  <1>1. /\ intern \in [InternWorkers -> InternStates] /\ me \in InternStates /\ InternOK(me)
        /\ iw \in Queues({f \in Files : disk[f] # 0}) /\ dw \in Queues(GoodDocs)
        /\ wq \in Queues(GoodDocs)
    BY DEF Typed, InternsOK, IwOK, DwOK, WqOK
  <1>2. UNCHANGED <<disk, index, failed, known, stop, main, walk, wq, split, writer>>
    BY DEF InternStep, InternTakes, InternAborted, UpToDate, ReadFails, OutOfDate, Extract,
           FailsEarly, FailsLate, InternCancelled, InternPut, InternStopped, InternGoesOn,
           InternPutFails, InternQuits, LeavesFile, Launch, store
  <1>q. Quit(iw).q = iw.q
    BY <1>1, QueueExits
  <1>4. Resting.at = "idle"
    BY DEF Resting
  <1>5. ASSUME NEW s, intern' = [intern EXCEPT ![w] = s], iw'.q = iw.q,
               s.at \in {"idle", "gone"} \/ (s.at \in {"extract", "put", "look"} /\ s.file = me.file),
               me.at \notin {"idle", "gone"},
               updated \subseteq updated', cutshort \subseteq cutshort'
        PROVE  Onward(w, s)
    BY <1>2, <1>5 DEF Onward, Busy, walk
  <1>k. ASSUME LeavesFile(w), me.at \notin {"idle", "gone"}, UNCHANGED <<updated, dw>>
        PROVE  Flow'
    <2> DEFINE s == [Resting EXCEPT !.at = "gone"]
    <2>1. s.at = "gone"
      BY DEF Resting
    <2>2. intern' = [intern EXCEPT ![w] = s] /\ iw'.q = iw.q /\ cutshort \subseteq cutshort'
      BY <1>q, <1>k DEF LeavesFile, InternQuits
    <2>3. \A u \in known : Owes(me, u) => FileOf(u) \in cutshort'
      BY <1>k DEF LeavesFile, Owes
    <2> HIDE DEF s
    <2>4. Onward(w, s)
      BY <1>5, <1>k, <2>1, <2>2
    <2>5. QED
      BY <1>k, <2>3, <2>4, OnwardFlow
  <1>a. CASE InternAborted(w)
    <2>1. /\ UNCHANGED <<updated, cutshort, dw, towalk, index, disk, known, split, wq, writer>>
          /\ iw'.q = iw.q /\ me.at = "idle" /\ intern'[w].at = "gone"
          /\ \A v \in InternWorkers : v # w => intern'[v] = intern[v]
      BY <1>1, <1>2, <1>q, <1>a DEF InternAborted, InternQuits, Resting, store, walk
    <2>2. OnePlace'
      <3>1. Busy' = Busy /\ \A v \in Busy : intern'[v] = intern[v]
        BY <2>1 DEF Busy
      <3>2. QED
        BY <2>1, <3>1 DEF Flow, OnePlace
    <2>3. \A f \in Files : Unchecked(f)' => Unchecked(f)
      BY <2>1 DEF Unchecked
    <2>4. Flying' = Flying
      BY <2>1 DEF Flying, SplitDocs, Splitting, Writing
    <2>5. \A u \in known : Coming(u) => Coming(u)'
      BY <2>1, <2>4 DEF Coming, Owes
    <2>6. QED
      BY <2>1, <2>2, <2>3, <2>4, <2>5, FlowKept DEF Flow, CheckedBefore
  <1>c. CASE InternCancelled(w) \/ InternStopped(w) \/ InternPutFails(w)
    BY <1>k, <1>c DEF InternCancelled, InternStopped, InternPutFails
  <1>6. CASE InternTakes(w)
    <2> DEFINE f == Head(iw.q)
    <2>1. me.at = "idle" /\ iw.q # << >> /\ iw.q \in Seq({g \in Files : disk[g] # 0})
      BY <1>1, <1>6, QueueFields DEF InternTakes
    <2>2. iw'.q = Tail(iw.q)
      BY <1>1, <1>6, QueueExits DEF InternTakes, Popped, Queues
    <2>3. /\ Items(iw.q) = Items(iw'.q) \cup {f} /\ f \notin Items(iw'.q) /\ Distinct(iw'.q)
          /\ f \in Files
      BY <2>1, <2>2, PopItems, HeadTailProperties DEF Flow, OnePlace
    <2>4. /\ intern'[w].at = "check" /\ intern'[w].file = f
          /\ \A v \in InternWorkers : v # w => intern'[v] = intern[v]
          /\ UNCHANGED <<dw, updated, cutshort, towalk, index, disk, known, split, wq, writer>>
      BY <1>1, <1>2, <1>6 DEF InternTakes, InternStates, store, walk
    <2>5. OnePlace'
      <3>1. Busy' = Busy \cup {w} /\ w \notin Busy
        BY <2>1, <2>4 DEF Busy
      <3>2. \A v \in Busy : intern'[v] = intern[v] /\ intern[v].file # f
        BY <2>3, <2>4, <3>1 DEF Busy, Flow, OnePlace
      <3>3. f \notin towalk
        BY <2>3 DEF Flow, OnePlace
      <3>4. QED
        BY <2>3, <2>4, <3>1, <3>2, <3>3 DEF Flow, OnePlace
    <2>6. \A g \in Files : Unchecked(g)' => Unchecked(g)
      BY <2>3, <2>4 DEF Unchecked
    <2>7. Flying' = Flying
      BY <2>4 DEF Flying, SplitDocs, Splitting, Writing
    <2>8. ASSUME NEW u \in known, Coming(u)
          PROVE  Coming(u)'
      <3>1. FileOf(u) = f => Owes(intern'[w], u)
        BY <2>4 DEF Owes
      <3>2. \A v \in InternWorkers : Owes(intern[v], u) => v # w
        BY <2>1 DEF Owes
      <3>3. QED
        BY <2>3, <2>4, <2>7, <2>8, <3>1, <3>2 DEF Coming
    <2>9. QED
      BY <2>4, <2>5, <2>6, <2>7, <2>8, FlowKept DEF Flow, CheckedBefore
  <1>7. CASE UpToDate(w) \/ ReadFails(w)
    <2> DEFINE quit == [Resting EXCEPT !.at = "gone"]
    <2>1. PICK s \in {Resting, quit} : Onward(w, s) /\ UNCHANGED dw
      <3>1. quit.at = "gone"
        BY DEF Resting
      <3>2. PICK s \in {Resting, quit} : intern' = [intern EXCEPT ![w] = s] /\ iw'.q = iw.q
        BY <1>7, <1>q DEF UpToDate, ReadFails, InternQuits
      <3>3. /\ me.at = "check" /\ updated \subseteq updated' /\ cutshort \subseteq cutshort'
            /\ UNCHANGED dw
        BY <1>7 DEF UpToDate, ReadFails
      <3>4. s.at \in {"idle", "gone"}
        BY <1>4, <3>1
      <3> HIDE DEF quit
      <3>5. Onward(w, s)
        BY <1>5, <3>2, <3>3, <3>4
      <3>6. QED
        BY <3>3, <3>5
    <2>2. ASSUME NEW u \in known, u \in Live, Owes(me, u)
          PROVE  u \in updated' \/ FileOf(u) \in cutshort'
      <3>1. me.at = "check" /\ me.file = FileOf(u) /\ me.file \in Files
        BY <1>1, <1>7, <2>2 DEF UpToDate, ReadFails, Owes, InternOK
      <3>2. CASE ReadFails(w)
        BY <3>1, <3>2 DEF ReadFails
      <3>3. CASE UpToDate(w)
        <4>1. index[me.file] = disk[me.file] /\ disk[me.file] # 0
          BY <1>1, <3>1, <3>3 DEF UpToDate, NeedUpdate, InternOK
        <4>2. me.file \in known
          <5>1. Unchecked(me.file)
            BY <3>1 DEF Unchecked
          <5>2. QED
            BY <3>1, <4>1, <5>1 DEF Flow, CheckedBefore
        <4>3. u \in Existing(me.file)
          BY <2>2, <3>1, <4>2 DEF Existing, Flow, FileOf, Typed, StoreOK, Udis
        <4>4. QED
          BY <3>3, <4>3 DEF UpToDate
      <3>4. QED
        BY <1>7, <3>2, <3>3
    <2>3. QED
      BY <2>1, <2>2, OnwardFlow
  <1>8. CASE OutOfDate(w)
    <2> DEFINE s == [me EXCEPT !.at = "extract", !.todo = {me.file} \cup PartsNow(me.file)]
    <2>1. s.at = "extract" /\ s.file = me.file /\ s.todo = {me.file} \cup PartsNow(me.file)
      BY <1>1 DEF InternStates
    <2>2. intern' = [intern EXCEPT ![w] = s] /\ UNCHANGED <<iw, dw>> /\ me.at = "check"
      BY <1>8 DEF OutOfDate
    <2>3. updated \subseteq updated' /\ cutshort \subseteq cutshort'
      BY <1>8 DEF OutOfDate, store
    <2>4. ASSUME NEW u \in known, u \in Live, Owes(me, u)
          PROVE  Owes(s, u)
      BY <2>1, <2>4 DEF Owes, Live, FileOf
    <2> HIDE DEF s
    <2>5. Onward(w, s)
      BY <1>5, <2>1, <2>2, <2>3
    <2>6. QED
      BY <2>2, <2>4, <2>5, OnwardFlow
  <1>9. CASE (\E u \in Udis : Extract(w, u)) \/ FailsEarly(w)
    <2>1. PICK d : Launch(w, d) /\ UNCHANGED <<dw, updated>> /\ me.at = "extract"
      BY <1>9 DEF Extract, FailsEarly
    <2>q. CASE LeavesFile(w)
      BY <1>k, <2>1, <2>q
    <2>l. SUFFICES ASSUME ~LeavesFile(w) PROVE Flow'
      BY <2>q
    <2> DEFINE s == [me EXCEPT !.at = "put", !.doc = d]
    <2>2. s.at = "put" /\ s.file = me.file /\ s.todo = me.todo
      BY <1>1 DEF InternStates
    <2>3. intern' = [intern EXCEPT ![w] = s] /\ UNCHANGED <<iw, cutshort>>
      BY <2>1, <2>l DEF Launch
    <2>4. ASSUME NEW u \in known, u \in Live, Owes(me, u)
          PROVE  Owes(s, u)
      BY <2>1, <2>2, <2>4 DEF Owes
    <2> HIDE DEF s
    <2>5. Onward(w, s)
      BY <1>5, <2>1, <2>2, <2>3
    <2>6. QED
      BY <2>1, <2>4, <2>5, OnwardFlow
  <1>10. CASE FailsLate(w)
    <2>1. Onward(w, Resting) /\ UNCHANGED dw
      BY <1>4, <1>5, <1>10 DEF FailsLate
    <2>2. ASSUME NEW u \in known, Owes(me, u)
          PROVE  FileOf(u) \in cutshort'
      BY <1>10, <2>2 DEF FailsLate, Owes
    <2>3. QED
      BY <2>1, <2>2, OnwardFlow
  <1>11. CASE InternPut(w)
    <2> DEFINE s == [me EXCEPT !.at = "look"]
    <2>1. s.at = "look" /\ s.file = me.file /\ s.todo = me.todo /\ s.doc = me.doc
      BY <1>1 DEF InternStates
    <2>2. /\ me.at = "put" /\ dw' = Pushed(dw, me.doc) /\ UNCHANGED <<iw, store>>
          /\ \/ intern' = [intern EXCEPT ![w] = s]
             \/ Left(me) = {} /\ ~me.doc.plus /\ intern' = [intern EXCEPT ![w] = Resting]
      BY <1>11 DEF InternPut
    <2>3. CASE intern' = [intern EXCEPT ![w] = s]
      <3>1. ASSUME NEW u \in known, Owes(me, u)
            PROVE  Owes(s, u) \/ u = me.doc.udi
        BY <2>1, <2>2, <3>1 DEF Owes, Left
      <3> HIDE DEF s
      <3>2. Onward(w, s)
        BY <1>5, <2>1, <2>2, <2>3 DEF store
      <3>3. QED
        BY <2>2, <3>1, <3>2, PutFlow
    <2>4. CASE Left(me) = {} /\ ~me.doc.plus /\ intern' = [intern EXCEPT ![w] = Resting]
      <3>1. Onward(w, Resting)
        BY <1>4, <1>5, <2>2, <2>4 DEF store
      <3>2. ASSUME NEW u \in known, Owes(me, u)
            PROVE  u = me.doc.udi
        BY <2>2, <2>4, <3>2 DEF Owes, Left
      <3>3. QED
        BY <2>2, <3>1, <3>2, PutFlow
    <2>5. QED
      BY <2>2, <2>3, <2>4
  <1>12. CASE InternGoesOn(w)
    <2> DEFINE s == IF Left(me) = {} THEN Resting
                    ELSE [me EXCEPT !.at = "extract", !.todo = Left(me), !.doc = NoDoc]
    <2>1. \/ s.at = "idle" /\ Left(me) = {}
          \/ s.at = "extract" /\ s.file = me.file /\ s.todo = Left(me)
      BY <1>1, <1>4 DEF InternStates
    <2>2. /\ me.at = "look" /\ intern' = [intern EXCEPT ![w] = s] /\ UNCHANGED <<iw, dw, cutshort>>
          /\ updated' = IF me.doc.plus THEN updated \cup Tree(me.file) ELSE updated
      BY <1>12 DEF InternGoesOn
    <2>3. ASSUME NEW u \in known, Owes(me, u)
          PROVE  Owes(s, u) \/ u \in updated'
      <3>1. me.file = FileOf(u) /\ me.file \in Files
        BY <1>1, <2>2, <2>3 DEF Owes, InternOK
      <3>2. CASE me.doc.plus
        <4>1. u \in Tree(me.file)
          BY <2>3, <3>1, DocsAssumption DEF Tree, Flow
        <4>2. QED
          BY <2>2, <3>2, <4>1
      <3>3. CASE ~me.doc.plus
        BY <2>1, <2>2, <2>3, <3>1, <3>3 DEF Owes
      <3>4. QED
        BY <3>2, <3>3
    <2> HIDE DEF s
    <2>4. Onward(w, s)
      BY <1>5, <2>1, <2>2
    <2>5. QED
      BY <2>2, <2>3, <2>4, OnwardFlow
  <1>13. QED
    BY <1>a, <1>c, <1>6, <1>7, <1>8, <1>9, <1>10, <1>11, <1>12 DEF InternStep

(* The split workers and the writer: the documents stay in flight.         *)
LEMMA PushQueue ==
    ASSUME NEW S, NEW p \in Queues(S), NEW t \in S
    PROVE  Items(Pushed(p, t).q) = Items(p.q) \cup {t}
  <1>1. p.q \in Seq(S) /\ Append(p.q, t) \in Seq(S)
    BY QueueFields, AppendProperties
  <1>2. Pushed(p, t).q = Append(p.q, t)
    BY DEF Pushed, Queues
  <1>3. QED
    BY <1>1, <1>2, PushItems

LEMMA PopQueue ==
    ASSUME NEW S, NEW p \in Queues(S), p.q # << >>
    PROVE  Items(p.q) = Items(Popped(p).q) \cup {Head(p.q)}
  <1>1. p.q \in Seq(S)
    BY QueueFields
  <1>2. Popped(p).q = Tail(p.q)
    BY DEF Popped, Queues
  <1>3. QED
    BY <1>1, <1>2, PopItems

LEMMA SplittingMoves ==
    ASSUME Typed, NEW w \in SplitWorkers, NEW s, split' = [split EXCEPT ![w] = s]
    PROVE  SplitDocs' \cup Splitting(split[w]) = SplitDocs \cup Splitting(s)
  <1>1. split'[w] = s /\ \A v \in SplitWorkers : v # w => split'[v] = split[v]
    BY DEF Typed, SplitsOK
  <1>2. \A d : d \in SplitDocs <=> \E v \in SplitWorkers : d \in Splitting(split[v])
    BY DEF SplitDocs
  <1>3. \A d : d \in SplitDocs' <=> \E v \in SplitWorkers : d \in Splitting(split'[v])
    BY DEF SplitDocs, Splitting
  <1>4. QED
    BY <1>1, <1>2, <1>3

LEMMA FlightGoesOn ==
    ASSUME Flow, UNCHANGED <<disk, known, index, updated, towalk, intern>>, iw'.q = iw.q,
           cutshort \subseteq cutshort', Flying' \subseteq Flying,
           \A d \in Flying : d \in Flying' \/ FileOf(d.udi) \in cutshort'
    PROVE  Flow'
  <1>1. OnePlace' /\ \A f \in Files : Unchecked(f)' => Unchecked(f)
    BY DEF Flow, OnePlace, Busy, Unchecked
  <1>2. \A u \in known : Coming(u) => Coming(u)' \/ FileOf(u) \in cutshort'
    BY DEF Coming
  <1>3. QED
    BY <1>1, <1>2, FlowKept DEF Flow, CheckedBefore

LEMMA SplitFlight ==
    ASSUME Typed, NEW w \in SplitWorkers, SplitStep(w), ~SplitQuits(w)
    PROVE  UNCHANGED <<disk, store, towalk, iw, intern>> /\ Flying' = Flying
  <1>1. /\ split \in [SplitWorkers -> SplitStates] /\ split[w] \in SplitStates /\ SplitOK(split[w])
        /\ dw \in Queues(GoodDocs) /\ wq \in Queues(GoodDocs)
    BY DEF Typed, SplitsOK, DwOK, WqOK
  <1>s. UNCHANGED store
    BY DEF SplitStep, SplitTakes, SplitOffers, SplitPut
  <1>2. UNCHANGED <<disk, known, index, updated, cutshort, towalk, iw, intern, writer>>
    BY <1>s DEF SplitStep, SplitTakes, SplitOffers, SplitPut, store, walk
  <1>4. Splitting(Free) = {}
    BY DEF Splitting, Free
  <1>5. CASE SplitTakes(w)
    <2> DEFINE s == [at |-> "split", doc |-> Head(dw.q)]
    <2>1. split' = [split EXCEPT ![w] = s] /\ UNCHANGED wq /\ split[w].at = "idle"
      BY <1>5 DEF SplitTakes
    <2>2. Splitting(split[w]) = {} /\ Splitting(s) = {Head(dw.q)}
      BY <2>1 DEF Splitting
    <2>3. Items(dw.q) = Items(dw'.q) \cup {Head(dw.q)}
      BY <1>1, <1>5, PopQueue DEF SplitTakes
    <2> HIDE DEF s
    <2>4. SplitDocs' = SplitDocs \cup {Head(dw.q)}
      BY <2>1, <2>2, SplittingMoves
    <2>5. Flying' = Flying
      BY <1>2, <2>1, <2>3, <2>4 DEF Flying, Writing
    <2>6. QED
      BY <1>2, <1>s, <2>5
  <1>6. CASE SplitOffers(w)
    <2> DEFINE s == [split[w] EXCEPT !.at = "put"]
    <2>1. split' = [split EXCEPT ![w] = s] /\ UNCHANGED <<dw, wq>> /\ split[w].at = "split"
      BY <1>6 DEF SplitOffers
    <2>2. Splitting(split[w]) = Splitting(s) /\ Splitting(split[w]) \subseteq SplitDocs
      BY <1>1, <2>1 DEF Splitting, SplitStates, SplitDocs
    <2>3. Splitting(s) \subseteq SplitDocs'
      <3>1. split'[w] = s
        BY <1>1, <2>1
      <3>2. QED
        BY <3>1 DEF SplitDocs, Splitting
    <2> HIDE DEF s
    <2>4. SplitDocs' = SplitDocs
      <3>1. SplitDocs' \cup Splitting(split[w]) = SplitDocs \cup Splitting(s)
        BY <2>1, SplittingMoves
      <3>2. QED
        BY <2>2, <2>3, <3>1
    <2>5. Flying' = Flying
      BY <1>2, <2>1, <2>4 DEF Flying, Writing
    <2>6. QED
      BY <1>2, <1>s, <2>5
  <1>7. CASE SplitPut(w)
    <2>1. split' = [split EXCEPT ![w] = Free] /\ UNCHANGED dw /\ split[w].at = "put"
      BY <1>7 DEF SplitPut
    <2>2. Splitting(split[w]) = {split[w].doc} /\ split[w].doc \in GoodDocs
      BY <1>1, <2>1 DEF Splitting, SplitOK
    <2>3. Items(wq'.q) = Items(wq.q) \cup {split[w].doc}
      BY <1>1, <1>7, <2>2, PushQueue DEF SplitPut
    <2>4. SplitDocs' \cup {split[w].doc} = SplitDocs
      <3>1. SplitDocs' \cup Splitting(split[w]) = SplitDocs \cup {}
        BY <1>4, <2>1, SplittingMoves
      <3>2. QED
        BY <2>2, <3>1
    <2>5. Flying' = Flying
      BY <1>2, <2>1, <2>3, <2>4 DEF Flying, Writing
    <2>6. QED
      BY <1>2, <1>s, <2>5
  <1>8. QED
    BY <1>5, <1>6, <1>7 DEF SplitStep

LEMMA SplitFlow ==
    ASSUME Typed, Flow, NEW w \in SplitWorkers, SplitStep(w)
    PROVE  Flow'
  <1>1. CASE SplitQuits(w)
    <2> DEFINE s == [at |-> "gone", doc |-> NoDoc]
    <2>1. /\ split' = [split EXCEPT ![w] = s] /\ dw' = Quit(dw)
          /\ cutshort' = cutshort \cup {FileOf(d.udi) : d \in Splitting(split[w])}
          /\ UNCHANGED <<disk, known, index, updated, towalk, iw, wq, intern, writer>>
      BY <1>1 DEF SplitQuits, walk
    <2>2. Splitting(s) = {}
      BY DEF Splitting
    <2> HIDE DEF s
    <2>3. SplitDocs' \cup Splitting(split[w]) = SplitDocs
      BY <2>1, <2>2, SplittingMoves
    <2>4. dw'.q = dw.q
      BY <2>1, QueueExits DEF Typed, DwOK
    <2>5. Flying' \cup Splitting(split[w]) = Flying
      BY <2>1, <2>3, <2>4 DEF Flying, Writing
    <2>6. \A d \in Splitting(split[w]) : FileOf(d.udi) \in cutshort'
      BY <2>1
    <2>7. QED
      BY <2>1, <2>5, <2>6, FlightGoesOn
  <1>2. CASE ~SplitQuits(w)
    BY <1>2, SplitFlight, FlightGoesOn DEF store
  <1>3. QED
    BY <1>1, <1>2

(* Either a document goes from the queue to the writer, or it is written.  *)
LEMMA WriterFlight ==
    ASSUME Typed, WriterStep, ~WriterQuits
    PROVE  /\ UNCHANGED <<disk, known, cutshort, towalk, iw, intern>>
           /\ \/ UNCHANGED store /\ Flying' = Flying
              \/ \E d \in Flying \cap GoodDocs :
                    Written(d) /\ Flying = Flying' \cup {d} /\ d.udi \in Udis /\ d.ver # 0
  <1>1. /\ wq \in Queues(GoodDocs) /\ WriterOK(writer)
    BY DEF Typed, WqOK
  <1>2. UNCHANGED <<disk, known, cutshort, towalk, iw, dw, intern, split>>
    BY DEF WriterStep, WriterTakes, Write, store, walk
  <1>d. SplitDocs' = SplitDocs
    BY <1>2 DEF SplitDocs, Splitting
  <1>4. CASE WriterTakes
    <2>1. Items(wq.q) = Items(wq'.q) \cup {Head(wq.q)}
      BY <1>1, <1>4, PopQueue DEF WriterTakes
    <2>2. Writing = {} /\ Writing' = {Head(wq.q)}
      BY <1>4 DEF WriterTakes, Writing
    <2>3. Flying' = Flying
      BY <1>2, <1>d, <2>1, <2>2 DEF Flying
    <2>4. QED
      BY <1>2, <1>4, <2>3 DEF WriterTakes
  <1>5. CASE Write
    <2> DEFINE d == writer.doc
    <2>1. d \in GoodDocs /\ d \in Flying /\ UNCHANGED wq
      BY <1>1, <1>5 DEF Write, WriterOK, Flying, Writing
    <2>2. d.udi \in Udis /\ d.ver \in Versions /\ d.ver # 0
      BY <2>1, DocsAssumption DEF GoodDocs, Docs
    <2>3. Writing' = {} /\ Writing = {d}
      BY <1>5 DEF Write, Writing, Free
    <2>4. Flying = Flying' \cup {d}
      BY <1>2, <1>d, <2>1, <2>3 DEF Flying
    <2>5. QED
      BY <1>2, <1>5, <2>1, <2>2, <2>4 DEF Write
  <1>6. QED
    BY <1>4, <1>5 DEF WriterStep

(* A document leaves the writer: it is written, or its file is cut short.  *)
LEMMA LandFlow ==
    ASSUME Typed, Flow, NEW d \in Flying, Flying = Flying' \cup {d}, d.udi \in Udis, d.ver # 0,
           UNCHANGED <<disk, known, towalk, iw, intern>>, cutshort \subseteq cutshort',
           \/ Written(d)
           \/ UNCHANGED <<index, failed, updated>> /\ FileOf(d.udi) \in cutshort'
    PROVE  Flow'
  <1>1. known \subseteq Udis /\ index \in [Udis -> Versions \cup {0}]
    BY DEF Typed, StoreOK
  <1>2. OnePlace' /\ \A f \in Files : Unchecked(f)' => Unchecked(f)
    BY DEF Flow, OnePlace, Busy, Unchecked
  <1>3. CASE Written(d)
    <2>1. /\ index' = [index EXCEPT ![d.udi] = d.ver]
          /\ updated' = updated \cup ({d.udi} \cap known)
      BY <1>3 DEF Written
    <2>2. \A f \in Files : Unchecked(f)' =>
              Unchecked(f) /\ index'[f] = index[f] /\ \A e \in Flying' : e.udi # f
      BY <1>1, <1>2, <2>1 DEF Flow, CheckedBefore, Udis
    <2>3. \A u \in known : index'[u] # 0
      BY <1>1, <2>1 DEF Flow
    <2>4. \A u \in known : Coming(u) => u \in updated' \/ Coming(u)'
      BY <2>1 DEF Coming
    <2>5. QED
      BY <1>2, <2>1, <2>2, <2>3, <2>4, FlowKept
  <1>4. CASE UNCHANGED <<index, failed, updated>> /\ FileOf(d.udi) \in cutshort'
    BY <1>4, FlightGoesOn
  <1>5. QED
    BY <1>3, <1>4

LEMMA WriterFlow == Typed /\ Flow /\ WriterStep => Flow'
  <1> SUFFICES ASSUME Typed, Flow, WriterStep PROVE Flow'
    OBVIOUS
  <1>1. CASE WriterQuits
    <2> DEFINE d == writer.doc
    <2>1. /\ wq \in Queues(GoodDocs) /\ d \in GoodDocs /\ writer.at = "write"
          /\ d.udi \in Udis /\ d.ver # 0
      BY <1>1, DocsAssumption DEF WriterQuits, Typed, WqOK, WriterOK, GoodDocs, Docs
    <2>2. /\ UNCHANGED <<disk, known, towalk, iw, dw, intern, split>>
          /\ cutshort' = cutshort \cup {FileOf(d.udi)} /\ wq' = Quit(wq) /\ writer'.at = "gone"
          /\ Written(d) \/ UNCHANGED <<index, failed, updated>>
      BY <1>1 DEF WriterQuits, walk
    <2>3. wq'.q = wq.q
      BY <2>1, <2>2, QueueExits
    <2>4. Writing = {d} /\ Writing' = {} /\ SplitDocs' = SplitDocs
      BY <2>1, <2>2 DEF Writing, SplitDocs, Splitting
    <2>5. d \in Flying /\ Flying = Flying' \cup {d}
      BY <2>2, <2>3, <2>4 DEF Flying
    <2>6. QED
      BY <2>1, <2>2, <2>5, LandFlow
  <1>2. CASE ~WriterQuits
    <2>1. UNCHANGED <<disk, known, cutshort, towalk, iw, intern>>
      BY <1>2, WriterFlight
    <2>2. CASE UNCHANGED store /\ Flying' = Flying
      BY <2>1, <2>2, FlightGoesOn DEF store
    <2>3. ASSUME NEW d \in Flying, Written(d), Flying = Flying' \cup {d}, d.udi \in Udis, d.ver # 0
          PROVE  Flow'
      BY <2>1, <2>3, LandFlow
    <2>4. QED
      BY <1>2, <2>2, <2>3, WriterFlight
  <1>3. QED
    BY <1>1, <1>2

(* The main thread: a pass begins with nothing checked, and the walk moves *)
(* its files to the queue.                                                 *)
LEMMA BeginFlow == Typed /\ BeginPass => Flow'
  <1> SUFFICES ASSUME Typed, BeginPass PROVE Flow'
    OBVIOUS
  <1>1. /\ iw' = NewQueue /\ dw' = NewQueue /\ wq' = NewQueue /\ UNCHANGED <<disk, index>>
        /\ known' = {u \in Udis : index[u] # 0}
        /\ updated' = IF mounted' THEN {} ELSE known'
        /\ towalk' = IF mounted' THEN {f \in Files : disk[f] # 0} ELSE {}
        /\ \A w \in InternWorkers : intern'[w].at = "idle"
        /\ split' = [w \in SplitWorkers |-> Free] /\ writer' = Free
    BY DEF BeginPass, StartPass, Resting
  <1>2. Items(iw'.q) = {} /\ Items(dw'.q) = {} /\ Items(wq'.q) = {} /\ Distinct(iw'.q)
    BY <1>1, NoItems DEF NewQueue
  <1>3. OnePlace'
    BY <1>1, <1>2 DEF OnePlace, Busy
  <1>4. Flying' = {}
    <2>1. SplitDocs' = {} /\ Writing' = {}
      BY <1>1 DEF SplitDocs, Splitting, Writing, Free
    <2>2. QED
      BY <1>2, <2>1 DEF Flying
  <1>5. CheckedBefore'
    BY <1>1, <1>4 DEF CheckedBefore, Udis
  <1>6. \A u \in known' : index'[u] # 0
    BY <1>1
  <1>7. BitsComing'
    <2>1. ASSUME NEW u \in Udis, u \in Live
          PROVE  FileOf(u) \in {f \in Files : disk[f] # 0}
      <3>1. FileOf(u) \in Files
        BY DocTypes
      <3>2. CASE u \in Files
        BY <2>1, <3>1, <3>2, DocsAssumption DEF Live, FileOf
      <3>3. CASE u \in Kids
        BY <2>1, <3>1, <3>3, DocsAssumption DEF Live, PartsNow, FileOf
      <3>4. QED
        BY <3>2, <3>3 DEF Udis
    <2>2. Live' = Live
      BY <1>1 DEF Live, PartsNow
    <2>3. \A u \in known' : u \in Live' => u \in updated' \/ FileOf(u) \in towalk'
      BY <1>1, <2>1, <2>2
    <2>4. QED
      BY <2>3 DEF BitsComing, Coming
  <1>8. QED
    BY <1>3, <1>5, <1>6, <1>7 DEF Flow

LEMMA WalkPutFlow == Typed /\ Flow /\ WalkPut => Flow'
  <1> SUFFICES ASSUME Typed, Flow, WalkPut PROVE Flow'
    OBVIOUS
  <1>1. /\ iw \in Queues({f \in Files : disk[f] # 0})
        /\ file \in towalk /\ towalk \subseteq Files /\ file \in {f \in Files : disk[f] # 0}
    BY DEF WalkPut, Typed, IwOK, FilesOK
  <1>2. /\ iw' = Pushed(iw, file) /\ towalk' = towalk \ {file}
        /\ UNCHANGED <<disk, index, known, updated, cutshort, dw, wq, intern, split, writer>>
    BY DEF WalkPut, store, workers
  <1>3. iw.q \in Seq({f \in Files : disk[f] # 0}) /\ iw'.q = Append(iw.q, file)
    BY <1>1, <1>2, QueueFields, QueueExits
  <1>4. /\ Items(iw'.q) = Items(iw.q) \cup {file}
        /\ Distinct(iw.q) /\ file \notin Items(iw.q) => Distinct(iw'.q)
    BY <1>1, <1>3, PushItems
  <1>5. OnePlace'
    BY <1>1, <1>2, <1>4 DEF Flow, OnePlace, Busy
  <1>6. towalk' \cup Items(iw'.q) = towalk \cup Items(iw.q)
    BY <1>1, <1>2, <1>4
  <1>7. Flying' = Flying
    BY <1>2 DEF Flying, SplitDocs, Splitting, Writing
  <1>8. \A f \in Files : Unchecked(f)' => Unchecked(f)
    BY <1>2, <1>6 DEF Unchecked
  <1>9. \A u \in known : Coming(u) => Coming(u)'
    BY <1>2, <1>6, <1>7 DEF Coming
  <1>10. QED
    BY <1>2, <1>5, <1>7, <1>8, <1>9, FlowKept DEF Flow, CheckedBefore

LEMMA SameFlow ==
    ASSUME Flow, UNCHANGED <<disk, index, known, updated, cutshort, towalk, iw, dw, wq, intern,
                             split, writer>>
    PROVE  Flow'
  <1>1. Flying' = Flying
    BY DEF Flying, SplitDocs, Splitting, Writing
  <1>2. QED
    BY <1>1, FlightGoesOn

LEMMA MainFlows == Typed /\ Flows /\ MainStep => Flows'
  <1> SUFFICES ASSUME Typed, Flows, MainStep PROVE Flows'
    OBVIOUS
  <1>1. CASE BeginPass
    BY <1>1, BeginFlow DEF Flows, BeginPass, StartPass, WalkOver
  <1>2. CASE WalkPut
    <2>1. UNCHANGED walkok /\ main' = "walk" /\ main = "put"
      BY <1>2 DEF WalkPut
    <2>2. QED
      BY <1>2, <2>1, WalkPutFlow DEF Flows, WalkOver
  <1>3. CASE WalkFails \/ CloseShops
    BY <1>3 DEF WalkFails, CloseShops, Flows, walk, WalkOver
  <1>4. CASE (\E f \in Files : WalkFile(f)) \/ WalkEnds \/ Drain \/ GoPurge
    <2>1. /\ UNCHANGED <<disk, index, known, updated, cutshort, towalk, walkok, iw, dw, wq, intern,
                         split, writer>>
          /\ {main, main'} \subseteq WalkOver \cup {"walk", "put"}
          /\ main' = "purge" => walkok
          /\ main' \in WalkOver /\ main \notin WalkOver => towalk = {}
      BY <1>4 DEF WalkFile, WalkEnds, Drain, GoPurge, store, walk, workers, WalkOver
    <2>2. Flow => Flow'
      BY <2>1, SameFlow
    <2>3. main' # "close"
      BY <2>1 DEF WalkOver
    <2>4. QED
      BY <2>1, <2>2, <2>3 DEF Flows
  <1>5. CASE Purge \/ PurgeCut \/ EndPass
    BY <1>5 DEF Purge, PurgeCut, EndPass, Flows, WalkOver
  <1>6. QED
    BY <1>1, <1>2, <1>3, <1>4, <1>5 DEF MainStep

(* An aborted queue stays so until the next pass has new ones.             *)
LEMMA AbortedStays ==
    ASSUME Typed, \/ \E w \in InternWorkers : InternStep(w)
                  \/ \E w \in SplitWorkers : SplitStep(w)
                  \/ WriterStep,
           ~Aborted'
    PROVE  ~Aborted
  <1>1. iw.exited \in Nat /\ dw.exited \in Nat /\ wq.exited \in Nat
    BY QueueExits DEF Typed, IwOK, DwOK, WqOK
  <1>2. CASE \E w \in InternWorkers : InternStep(w)
    <2>1. wq' = wq
      BY <1>2 DEF InternStep, InternTakes, InternAborted, UpToDate, ReadFails, OutOfDate, Extract,
           FailsEarly, FailsLate, InternCancelled, InternPut, InternStopped, InternGoesOn,
           InternPutFails, InternQuits, LeavesFile, Launch
    <2>2. iw'.exited \in {iw.exited, iw.exited + 1} /\ dw'.exited = dw.exited
      BY <1>2, InternMoves, QueueExits DEF Typed, IwOK
    <2>3. QED
      BY <1>1, <2>1, <2>2 DEF Aborted
  <1>3. CASE \E w \in SplitWorkers : SplitStep(w)
    <2>1. iw' = iw
      BY <1>3 DEF SplitStep, SplitTakes, SplitOffers, SplitPut, SplitQuits
    <2>2. dw'.exited \in {dw.exited, dw.exited + 1} /\ wq'.exited = wq.exited
      BY <1>3, SplitMoves, QueueExits DEF Typed, DwOK
    <2>3. QED
      BY <1>1, <2>1, <2>2 DEF Aborted
  <1>4. CASE WriterStep
    <2>1. iw' = iw /\ dw' = dw /\ wq'.exited \in {wq.exited, wq.exited + 1}
      BY <1>4, QueueExits DEF WriterStep, WriterTakes, Write, WriterQuits, Typed, WqOK
    <2>2. QED
      BY <1>1, <2>1 DEF Aborted
  <1>5. QED
    BY <1>2, <1>3, <1>4

LEMMA NextFlows == Typed /\ Flows /\ [Next]_vars => Flows'
  <1> SUFFICES ASSUME Typed, Flows, [Next]_vars PROVE Flows'
    OBVIOUS
  <1>1. CASE Interrupt \/ Finished \/ UNCHANGED vars
    <2>1. UNCHANGED <<disk, index, known, updated, cutshort, towalk, iw, dw, wq, intern, split,
                      writer, main, walkok>>
      BY <1>1 DEF Interrupt, Finished, vars, store, walk, workers
    <2>2. QED
      BY <2>1, SameFlow DEF Flows
  <1>2. CASE \/ \E w \in InternWorkers : InternStep(w)
             \/ \E w \in SplitWorkers : SplitStep(w)
             \/ WriterStep
    <2>1. UNCHANGED <<main, walkok, towalk>>
      <3>1. CASE \E w \in InternWorkers : InternStep(w)
        BY <3>1 DEF InternStep, InternTakes, InternAborted, UpToDate, ReadFails, OutOfDate, Extract,
           FailsEarly, FailsLate, InternCancelled, InternPut, InternStopped, InternGoesOn,
           InternPutFails, InternQuits, LeavesFile, Launch, walk
      <3>2. CASE \E w \in SplitWorkers : SplitStep(w)
        BY <3>2 DEF SplitStep, SplitTakes, SplitOffers, SplitPut, SplitQuits, walk
      <3>3. CASE WriterStep
        BY <3>3 DEF WriterStep, WriterTakes, Write, WriterQuits, walk
      <3>4. QED
        BY <1>2, <3>1, <3>2, <3>3
    <2>2. Flow => Flow'
      BY <1>2, InternFlow, SplitFlow, WriterFlow
    <2>3. QED
      BY <2>1, <2>2 DEF Flows
  <1>3. QED
    BY <1>1, <1>2, MainFlows DEF Next

(* At the purge, what is still coming was not taken by any worker.         *)
LEMMA NothingComes ==
    ASSUME Typed, Drains, Flows, main = "purge", NEW u, Coming(u)
    PROVE  FileOf(u) \in Untaken
  <1>1. /\ towalk = {}
        /\ \A w \in InternWorkers : intern[w].at \in {"idle", "gone"}
        /\ \A w \in SplitWorkers : split[w].at \in {"idle", "gone"}
        /\ writer.at \in {"idle", "gone"}
    BY DEF Drains, InternsBack, SplitsBack, WriterBack, Over, Flows, WalkOver
  <1>2. Flying = Items(dw.q) \cup Items(wq.q)
    <2>1. SplitDocs = {} /\ Writing = {}
      BY <1>1 DEF SplitDocs, Splitting, Writing
    <2>2. QED
      BY <2>1 DEF Flying
  <1>3. QED
    BY <1>1, <1>2 DEF Coming, Owes, Untaken

LEMMA AllTaken ==
    ASSUME Typed, Drains, main = "purge", ~Aborted
    PROVE  Untaken = {}
  <1>1. iw.exited = 0 /\ dw.exited = 0 /\ wq.exited = 0
    BY QueueExits DEF Typed, IwOK, DwOK, WqOK, Aborted
  <1>2. iw.q = << >> /\ dw.q = << >> /\ wq.q = << >>
    BY <1>1, SomeWorkers DEF Drains, InternsBack, SplitsBack, WriterBack, Over
  <1>3. QED
    BY <1>2, NoItems DEF Untaken

(* OnlyTheGoneArePurged: purge() deletes what has its bit off, and bits    *)
(* are set by the internfile workers, which find a file up to date or      *)
(* failed, and by the writer.  From the start of the walk to the purge a   *)
(* document of a present file has its bit on, or its file is still to be   *)
(* walked or checked, or it is on its way through the three queues, or a   *)
(* worker gave up with it, which cuts this file short and no other.  The   *)
(* waits of shutdownQueues() let no worker have it in its hands at the     *)
(* purge: it is then on a queue that all the workers had left.             *)
THEOREM PurgeSafe == Spec => OnlyTheGoneArePurged
  <1> DEFINE Safe == \A u \in Udis : index[u] # 0 /\ index'[u] = 0 =>
                         u \notin Live \/ FileOf(u) \in cutshort \cup Untaken
  <1>1. Init => Flows
    BY DEF Init, Flows, WalkOver
  <1>2. Typed /\ Drains /\ Flows /\ [Next]_vars => [Safe]_vars
    <2> SUFFICES ASSUME Typed, Drains, Flows, Next, NEW u \in Udis, index[u] # 0, index'[u] = 0,
                        u \in Live
                 PROVE  FileOf(u) \in cutshort \cup Untaken
      OBVIOUS
    <2>1. index \in [Udis -> Versions \cup {0}] /\ known \subseteq Udis
      BY DEF Typed, StoreOK
    <2>2. CASE Purge \/ PurgeCut
      <3>1. PICK gone \in SUBSET (known \ updated) : Deleted(gone)
        BY <2>2 DEF Purge, PurgeCut
      <3>2. u \in known \ updated
        BY <3>1 DEF Deleted
      <3>3. main = "purge"
        BY <2>2 DEF Purge, PurgeCut
      <3>4. Flow
        BY <3>3 DEF Flows, WalkOver
      <3>5. QED
        BY <3>2, <3>3, <3>4, NothingComes DEF Flow, BitsComing
    <2>3. CASE Write \/ WriterQuits
      <3>1. writer.doc.ver \in Versions
        BY <2>3 DEF Write, WriterQuits, Typed, WriterOK, GoodDocs, Docs
      <3>2. writer.doc.ver # 0
        BY <3>1, DocsAssumption
      <3>3. index' = [index EXCEPT ![writer.doc.udi] = writer.doc.ver] \/ index' = index
        BY <2>3 DEF Write, WriterQuits, Written
      <3>4. QED
        BY <2>1, <3>2, <3>3
    <2>4. CASE UNCHANGED index
      BY <2>4
    <2>5. ASSUME ~(Purge \/ PurgeCut \/ Write \/ WriterQuits) PROVE UNCHANGED index
      <3>1. CASE MainStep \/ Interrupt \/ Finished
        BY <2>5, <3>1 DEF MainStep, BeginPass, StartPass, WalkFile, WalkPut, WalkFails, WalkEnds,
           CloseShops, Drain, GoPurge, EndPass, Interrupt, Finished, store, vars
      <3>2. CASE \E w \in InternWorkers : InternStep(w)
        BY <3>2 DEF InternStep, InternTakes, InternAborted, UpToDate, ReadFails, OutOfDate,
           Extract, FailsEarly, FailsLate, InternCancelled, InternPut, InternStopped,
           InternGoesOn, InternPutFails, store
      <3>3. CASE (\E w \in SplitWorkers : SplitStep(w)) \/ WriterStep
        BY <2>5, <3>3 DEF SplitStep, SplitTakes, SplitOffers, SplitPut, SplitQuits, WriterStep,
           WriterTakes, store
      <3>4. QED
        BY <3>1, <3>2, <3>3 DEF Next
    <2>6. QED
      BY <2>2, <2>3, <2>4, <2>5
  <1>3. QED
    BY <1>1, <1>2, TypedInit, DrainsInit, NextTyped, NextDrains, NextFlows, PTL
       DEF Spec, OnlyTheGoneArePurged
-----------------------------------------------------------------------------
(* What a complete pass leaves.  The first one finds an index as a complete *)
(* pass over an older tree left it; what an abandoned pass left may not be  *)
(* repaired (RestartRestores).                                              *)

(* What needUpdate() takes for up to date is so, with the subdocuments.     *)
Consistent(f) ==
    f \notin failed /\ index[f] = disk[f] /\ disk[f] # 0 =>
        \A k \in Kids : Parent[k] = f =>
            index[k] = IF k \in PartsNow(f) THEN disk[f] ELSE 0

(* The file's own document, or the one that stands for its failure, has    *)
(* still to be put.                                                        *)
OwesOwn(s, f) ==
    /\ s.file = f
    /\ \/ s.at = "check"
       \/ s.at \in {"extract", "put"} /\ f \in s.todo
       \/ s.at = "look" /\ f \in Left(s)
OwnToCome(f) ==
    f \in towalk \cup Items(iw.q) \/ \E w \in InternWorkers : OwesOwn(intern[w], f)

(* The file's handler failed, and the index says so or will; what is not   *)
(* kept here by the bit of its document is not deleted by the purge.       *)
FailNoted(f) ==
    /\ ~OwnToCome(f)
    /\ \A d \in Flying : d.udi = f => d.plus
    /\ f \in failed \ (known \ updated) \/ \E d \in Flying : d.udi = f

Shielded(u) == \E f \in Files : FailNoted(f) /\ FileOf(u) \in Beneath[f]

UntouchedYet ==
    /\ \A f \in Files : Unchecked(f) => Consistent(f) /\ \A d \in Flying : FileOf(d.udi) # f
    /\ \A f \in Files : OwnToCome(f) => \A d \in Flying : d.udi # f
LiveOnly ==
    /\ \A d \in Flying : d.udi \in Live
    /\ \A w \in InternWorkers :
        intern[w].at \in {"extract", "put", "look"} => intern[w].todo \subseteq Live
FailuresNoted ==
    \A f \in Files, w \in InternWorkers :
        intern[w].at = "look" /\ intern[w].doc.plus /\ intern[w].file = f => FailNoted(f)
LiveComing ==
    \A u \in Live : \/ index[u] = disk[FileOf(u)] \/ FileOf(u) \in cutshort
                    \/ Coming(u) \/ FailNoted(FileOf(u))
DeadUnmarked ==
    \A u \in Udis \ Live : index[u] # 0 => u \in known /\ (u \notin updated \/ Shielded(u))

Exacting == UntouchedYet /\ LiveOnly /\ FailuresNoted /\ LiveComing /\ DeadUnmarked

Excepted(u) == FileOf(u) \in cutshort \/ \E f \in failed : FileOf(u) \in Beneath[f]

Exacts ==
    /\ main = "idle" /\ passes = 0 => ~Aborted /\ \A f \in Files : Consistent(f)
    /\ main \in WalkOver \cup {"walk", "put"} /\ walkok /\ ~Aborted /\ mounted /\ passes = 0 =>
           Exacting
    /\ main = "complete" /\ mounted /\ ~Aborted /\ passes = 0 =>
           \A u \in Udis : UpToDateWithDisk(u) \/ Excepted(u)

LEMMA LiveUdis == Live \subseteq Udis
BY DEF Live, Udis

(* A failure stays noted until the purge.                                  *)
LEMMA NotedKept ==
    ASSUME NEW f \in Files, FailNoted(f), ~OwnToCome(f)', UNCHANGED known, updated \subseteq updated',
           \A d \in Flying' : d.udi = f => d \in Flying,
           \A d \in Flying : d.udi = f => d \in Flying' \/ f \in failed' \ (known \ updated'),
           f \in failed => f \in failed'
    PROVE  FailNoted(f)'
BY DEF FailNoted

(* What a step has to keep.                                                *)
LEMMA ExactKept ==
    ASSUME Exacting, UNCHANGED <<disk, known>>,
           \A f \in Files : Unchecked(f)' =>
               /\ Unchecked(f) /\ (f \in failed <=> f \in failed')
               /\ \A u \in Udis : FileOf(u) = f => index'[u] = index[u]
               /\ \A d \in Flying' : FileOf(d.udi) # f,
           \A f \in Files : OwnToCome(f)' => \A d \in Flying' : d.udi # f,
           LiveOnly', FailuresNoted',
           \A f \in Files : FailNoted(f) => FailNoted(f)',
           Typed,
           cutshort \subseteq cutshort',
           \A u \in Live : index[u] = disk[FileOf(u)] => index'[u] = index[u],
           \A u \in Live : Coming(u) =>
               index'[u] = disk[FileOf(u)] \/ FileOf(u) \in cutshort' \/ Coming(u)'
               \/ FailNoted(FileOf(u))',
           \A u \in Udis \ Live : /\ index'[u] = index[u]
                                  /\ u \in updated' => u \in updated \/ Shielded(u)
    PROVE  Exacting'
  <1>1. Live' = Live /\ \A f \in Files : PartsNow(f)' = PartsNow(f)
    BY DEF Live, PartsNow
  <1>2. \A u \in Udis : FileOf(u) \in Files
    BY DocTypes
  <1>3. UntouchedYet'
    <2>1. \A k \in Kids : k \in Udis /\ FileOf(k) = Parent[k]
      BY DocsAssumption DEF FileOf, Udis
    <2>2. \A f \in Files : f \in Udis /\ FileOf(f) = f
      BY DEF FileOf, Udis
    <2>3. \A f \in Files : Unchecked(f)' => Consistent(f)'
      BY <1>1, <2>1, <2>2 DEF Consistent, Exacting, UntouchedYet
    <2>4. QED
      BY <2>3 DEF UntouchedYet
  <1>4. LiveComing'
    <2>1. ASSUME NEW u \in Live
          PROVE  \/ index'[u] = disk[FileOf(u)] \/ FileOf(u) \in cutshort'
                 \/ Coming(u)' \/ FailNoted(FileOf(u))'
      <3>1. FileOf(u) \in Files
        BY <1>2, LiveUdis
      <3>2. QED
        BY <3>1 DEF Exacting, LiveComing
    <2>2. QED
      BY <1>1, <2>1 DEF LiveComing
  <1>5. DeadUnmarked'
    <2>1. \A u : Shielded(u) => Shielded(u)'
      BY DEF Shielded
    <2>2. QED
      BY <1>1, <2>1 DEF Exacting, DeadUnmarked
  <1>6. QED
    BY <1>3, <1>4, <1>5 DEF Exacting

LEMMA FlightExact ==
    ASSUME Typed, Exacting, UNCHANGED <<disk, store, towalk, iw, intern>>, Flying' = Flying
    PROVE  Exacting'
  <1>1. /\ UNCHANGED <<index, failed, known, updated, cutshort>>
        /\ Live' = Live
    BY DEF store, Live, PartsNow
  <1>2. \A f : /\ Unchecked(f)' = Unchecked(f) /\ OwnToCome(f)' = OwnToCome(f)
    BY DEF Unchecked, OwnToCome, OwesOwn, Left
  <1>3. \A f : FailNoted(f)' = FailNoted(f)
    BY <1>1, <1>2 DEF FailNoted
  <1>4. \A u : Coming(u)' = Coming(u)
    BY DEF Coming, Owes, Left
  <1>5. LiveOnly' /\ FailuresNoted'
    BY <1>1, <1>3 DEF Exacting, LiveOnly, FailuresNoted
  <1>6. \A u \in Udis \ Live : index'[u] = index[u] /\ (u \in updated' => u \in updated)
    BY <1>1
  <1>7. QED
    BY <1>1, <1>2, <1>3, <1>4, <1>5, <1>6, ExactKept DEF Exacting, UntouchedYet

(* A worker goes on with its file, or leaves it.                           *)
LEMMA OnwardOwn ==
    ASSUME Typed, Flow, NEW w \in InternWorkers, NEW s, Onward(w, s),
           \A f \in Files : OwesOwn(s, f) => OwesOwn(intern[w], f)
    PROVE  /\ \A f \in Files : OwnToCome(f)' => OwnToCome(f)
           /\ \A f \in Files : OwnToCome(f) =>
                  OwnToCome(f)' \/ OwesOwn(intern[w], f)
           /\ \A f \in Files : OwnToCome(f)' /\ f = intern[w].file => OwesOwn(s, f)
  <1>1. /\ intern'[w] = s /\ \A v \in InternWorkers : v # w => intern'[v] = intern[v]
        /\ iw'.q = iw.q /\ UNCHANGED towalk /\ w \in Busy
    BY DEF Onward, Typed, InternsOK
  <1>2. \A v \in InternWorkers : \A f : OwesOwn(intern'[v], f) <=> OwesOwn(intern[v], f)' 
    BY DEF OwesOwn, Left
  <1>3. ASSUME NEW f \in Files, OwnToCome(f)', f = intern[w].file
        PROVE  OwesOwn(s, f)
    <2>1. f \notin towalk \cup Items(iw.q)
      BY <1>1, <1>3 DEF Flow, OnePlace
    <2>2. PICK v \in InternWorkers : OwesOwn(intern'[v], f)
      BY <1>1, <1>2, <1>3, <2>1 DEF OwnToCome
    <2>3. CASE v # w
      <3>1. v \in Busy /\ intern[v].file = f
        BY <1>1, <2>2, <2>3 DEF OwesOwn, Busy
      <3>2. QED
        BY <1>1, <1>3, <2>3, <3>1 DEF Flow, OnePlace
    <2>4. QED
      BY <1>1, <2>2, <2>3
  <1>4. ASSUME NEW f \in Files, OwnToCome(f)'
        PROVE  OwnToCome(f)
    <2>1. CASE f \in towalk' \cup Items(iw'.q)
      BY <1>1, <2>1 DEF OwnToCome
    <2>2. ASSUME NEW v \in InternWorkers, OwesOwn(intern'[v], f)
          PROVE  OwnToCome(f)
      <3>1. OwesOwn(intern[v], f)
        BY <1>1, <2>2
      <3>2. QED
        BY <3>1 DEF OwnToCome
    <2>3. QED
      BY <1>2, <1>4, <2>1, <2>2 DEF OwnToCome
  <1>5. ASSUME NEW f \in Files, OwnToCome(f)
        PROVE  OwnToCome(f)' \/ OwesOwn(intern[w], f)
    <2>1. CASE f \in towalk \cup Items(iw.q)
      BY <1>1, <2>1 DEF OwnToCome
    <2>2. ASSUME NEW v \in InternWorkers, OwesOwn(intern[v], f), v # w
          PROVE  OwnToCome(f)'
      <3>1. OwesOwn(intern[v], f)'
        BY <1>1, <1>2, <2>2
      <3>2. QED
        BY <3>1 DEF OwnToCome
    <2>3. QED
      BY <1>5, <2>1, <2>2 DEF OwnToCome
  <1>6. QED
    BY <1>3, <1>4, <1>5

(* A step of an internfile worker that puts nothing on the queue.          *)
LEMMA OnwardExact ==
    ASSUME Typed, Flow, Exacting, NEW w \in InternWorkers, NEW s, Onward(w, s),
           UNCHANGED <<failed, dw>>,
           s.at # "look",
           s.at \in {"extract", "put"} => s.todo \subseteq Live,
           \A f \in Files : OwesOwn(s, f) => OwesOwn(intern[w], f),
           \A u \in Live : Owes(intern[w], u) =>
               Owes(s, u) \/ index[u] = disk[FileOf(u)] \/ FileOf(u) \in cutshort'
               \/ FailNoted(FileOf(u)),
           \A u \in Udis \ Live : u \in updated' => u \in updated \/ Shielded(u)
    PROVE  Exacting'
  <1>1. /\ intern'[w] = s /\ \A v \in InternWorkers : v # w => intern'[v] = intern[v]
        /\ iw'.q = iw.q /\ UNCHANGED <<disk, known, index, towalk, split, dw, wq, writer>>
        /\ updated \subseteq updated' /\ cutshort \subseteq cutshort'
    BY DEF Onward, Typed, InternsOK
  <1>2. Flying' = Flying
    BY <1>1 DEF Flying, SplitDocs, Splitting, Writing
  <1>3. \A f \in Files : Unchecked(f)' => Unchecked(f)
    BY OnwardPlaces
  <1>4. \A f \in Files : OwnToCome(f)' => OwnToCome(f)
    BY OnwardOwn
  <1>5. Live' = Live /\ \A u \in Live : FileOf(u) \in Files
    BY <1>1, LiveUdis, DocTypes DEF Live, PartsNow
  <1>6. \A f \in Files : FailNoted(f) => FailNoted(f)'
    <2>1. ASSUME NEW f \in Files, FailNoted(f) PROVE FailNoted(f)'
      <3>1. ~OwnToCome(f)'
        BY <1>4, <2>1 DEF FailNoted
      <3>2. QED
        BY <1>1, <1>2, <2>1, <3>1, NotedKept
    <2>2. QED
      BY <2>1
  <1>7. LiveOnly'
    BY <1>1, <1>2, <1>5 DEF Exacting, LiveOnly, Onward
  <1>8. FailuresNoted'
    <2>1. ASSUME NEW f \in Files, NEW v \in InternWorkers,
                 intern'[v].at = "look", intern'[v].doc.plus, intern'[v].file = f
          PROVE  FailNoted(f)'
      <3>1. intern'[v] = intern[v]
        BY <1>1, <2>1
      <3>2. QED
        BY <1>6, <2>1, <3>1 DEF Exacting, FailuresNoted
    <2>2. QED
      BY <2>1 DEF FailuresNoted
  <1>9. ASSUME NEW u \in Live, Coming(u)
        PROVE  index'[u] = disk[FileOf(u)] \/ FileOf(u) \in cutshort' \/ Coming(u)'
               \/ FailNoted(FileOf(u))'
    <2>1. CASE FileOf(u) \in towalk \cup Items(iw.q) \/ \E d \in Flying : d.udi = u
      BY <1>1, <1>2, <2>1 DEF Coming
    <2>2. ASSUME NEW v \in InternWorkers, Owes(intern[v], u), v # w
          PROVE  Coming(u)'
      <3>1. Owes(intern[v], u)'
        BY <1>1, <2>2 DEF Owes, Left
      <3>2. QED
        BY <3>1 DEF Coming
    <2>3. CASE Owes(intern[w], u)
      <3>1. CASE Owes(s, u)
        <4>1. Owes(intern[w], u)'
          BY <1>1, <3>1 DEF Owes, Left
        <4>2. QED
          BY <4>1 DEF Coming
      <3>2. QED
        BY <1>1, <1>5, <1>6, <2>3, <3>1
    <2>4. QED
      BY <1>9, <2>1, <2>2, <2>3 DEF Coming
  <1>10. \A f \in Files : Unchecked(f)' =>
               /\ Unchecked(f) /\ (f \in failed <=> f \in failed')
               /\ \A u \in Udis : FileOf(u) = f => index'[u] = index[u]
               /\ \A d \in Flying' : FileOf(d.udi) # f
    BY <1>1, <1>2, <1>3 DEF Exacting, UntouchedYet
  <1>11. \A f \in Files : OwnToCome(f)' => \A d \in Flying' : d.udi # f
    BY <1>2, <1>4 DEF Exacting, UntouchedYet
  <1>12. QED
    BY <1>1, <1>6, <1>7, <1>8, <1>9, <1>10, <1>11, ExactKept

(* The same for a worker that puts its document there.                     *)
LEMMA PutExact ==
    ASSUME Typed, Flow, Exacting, NEW w \in InternWorkers, NEW s, Onward(w, s),
           UNCHANGED store, intern[w].at = "put", dw' = Pushed(dw, intern[w].doc),
           \/ s.at = "look" /\ s.todo = intern[w].todo /\ s.doc = intern[w].doc
           \/ s.at = "idle" /\ Left(intern[w]) = {} /\ ~intern[w].doc.plus
    PROVE  Exacting'
  <1> DEFINE me == intern[w]
             doc == intern[w].doc
  <1>1. /\ intern'[w] = s /\ \A v \in InternWorkers : v # w => intern'[v] = intern[v]
        /\ UNCHANGED <<disk, known, index, failed, updated, cutshort, towalk, split, wq, writer>>
        /\ iw'.q = iw.q
    BY DEF Onward, Typed, InternsOK, store
  <1>2. /\ doc \in GoodDocs /\ FileOf(doc.udi) = me.file /\ doc.udi \in me.todo
        /\ me.file \in Files /\ doc.udi \in Live
        /\ doc.plus => doc.udi = me.file
    <2>1. doc \in GoodDocs /\ FileOf(doc.udi) = me.file /\ doc.udi \in me.todo /\ me.file \in Files
      BY DEF Typed, InternsOK, InternOK
    <2>2. doc.udi \in Live
      BY <2>1 DEF Exacting, LiveOnly
    <2>3. doc.plus => FileOf(doc.udi) = doc.udi
      BY <2>1 DEF GoodDocs, FileOf
    <2>4. QED
      BY <2>1, <2>2, <2>3
  <1>3. Flying' = Flying \cup {doc}
    <2>1. Items(dw'.q) = Items(dw.q) \cup {doc}
      BY <1>2, PushQueue DEF Typed, DwOK
    <2>2. QED
      BY <1>1, <2>1 DEF Flying, SplitDocs, Splitting, Writing
  <1>4. \A f \in Files : Unchecked(f)' => Unchecked(f) /\ f # me.file
    BY OnwardPlaces
  <1>5. \A f \in Files : OwesOwn(s, f) => OwesOwn(me, f) /\ doc.udi # f /\ ~doc.plus
    BY <1>2 DEF OwesOwn, Left, Onward
  <1>6. /\ \A f \in Files : OwnToCome(f)' => OwnToCome(f)
        /\ \A f \in Files : OwnToCome(f)' /\ f = me.file => OwesOwn(s, f)
    BY <1>5, OnwardOwn
  <1>7. \A f \in Files : doc.udi = f => f = me.file /\ OwesOwn(me, f) /\ OwnToCome(f)
    BY <1>2 DEF OwesOwn, OwnToCome, FileOf
  <1>8. Live' = Live /\ \A u \in Live : FileOf(u) \in Files
    BY <1>1, LiveUdis, DocTypes DEF Live, PartsNow
  <1>9. \A f \in Files : FailNoted(f) => FailNoted(f)'
    <2>1. ASSUME NEW f \in Files, FailNoted(f) PROVE FailNoted(f)'
      <3>1. ~OwnToCome(f)' /\ doc.udi # f
        BY <1>6, <1>7, <2>1 DEF FailNoted
      <3>2. QED
        BY <1>1, <1>3, <2>1, <3>1, NotedKept
    <2>2. QED
      BY <2>1
  <1>10. LiveOnly'
    BY <1>1, <1>2, <1>3, <1>8 DEF Exacting, LiveOnly, Onward
  <1>11. FailuresNoted'
    <2>1. ASSUME NEW f \in Files, NEW v \in InternWorkers,
                 intern'[v].at = "look", intern'[v].doc.plus, intern'[v].file = f
          PROVE  FailNoted(f)'
      <3>1. CASE v # w
        BY <1>1, <1>9, <2>1, <3>1 DEF Exacting, FailuresNoted
      <3>2. CASE v = w
        <4>1. f = me.file /\ doc.plus /\ doc.udi = f
          BY <1>1, <1>2, <2>1, <3>2 DEF Onward
        <4>2. ~OwnToCome(f)'
          BY <1>5, <1>6, <4>1
        <4>3. \A d \in Flying : d.udi # f
          BY <1>7, <4>1 DEF Exacting, UntouchedYet
        <4>4. QED
          BY <1>3, <4>1, <4>2, <4>3 DEF FailNoted
      <3>3. QED
        BY <3>1, <3>2
    <2>2. QED
      BY <2>1 DEF FailuresNoted
  <1>12. ASSUME NEW u \in Live, Coming(u)
         PROVE  Coming(u)'
    <2>1. CASE FileOf(u) \in towalk \cup Items(iw.q) \/ \E d \in Flying : d.udi = u
      BY <1>1, <1>3, <2>1 DEF Coming
    <2>2. ASSUME NEW v \in InternWorkers, Owes(intern[v], u), v # w
          PROVE  Coming(u)'
      <3>1. Owes(intern[v], u)'
        BY <1>1, <2>2 DEF Owes, Left
      <3>2. QED
        BY <3>1 DEF Coming
    <2>3. CASE Owes(intern[w], u)
      <3>1. CASE u = doc.udi
        BY <1>3, <3>1 DEF Coming
      <3>2. CASE u # doc.udi
        <4>1. Owes(s, u)
          BY <2>3, <3>2 DEF Owes, Left, Onward
        <4>2. Owes(intern[w], u)'
          BY <1>1, <4>1 DEF Owes, Left
        <4>3. QED
          BY <4>2 DEF Coming
      <3>3. QED
        BY <3>1, <3>2
    <2>4. QED
      BY <1>12, <2>1, <2>2, <2>3 DEF Coming
  <1>13. \A f \in Files : Unchecked(f)' =>
               /\ Unchecked(f) /\ (f \in failed <=> f \in failed')
               /\ \A u \in Udis : FileOf(u) = f => index'[u] = index[u]
               /\ \A d \in Flying' : FileOf(d.udi) # f
    BY <1>1, <1>2, <1>3, <1>4 DEF Exacting, UntouchedYet
  <1>14. \A f \in Files : OwnToCome(f)' => \A d \in Flying' : d.udi # f
    <2>1. ASSUME NEW f \in Files, OwnToCome(f)' PROVE doc.udi # f
      BY <1>5, <1>6, <1>7, <2>1
    <2>2. QED
      BY <1>3, <1>6, <2>1 DEF Exacting, UntouchedYet
  <1>15. QED
    BY <1>1, <1>9, <1>10, <1>11, <1>12, <1>13, <1>14, ExactKept

(* What an internfile worker that does not give up does to its file.       *)
LEMMA InternGoes ==
    ASSUME Typed, NEW w \in InternWorkers, InternStep(w), ~Aborted'
    PROVE  /\ ~InternQuits(w)
           /\ UNCHANGED <<disk, index, failed, known, stop, main, walk, wq, split, writer>>
  <1>1. UNCHANGED <<disk, index, failed, known, stop, main, walk, wq, split, writer>>
    BY DEF InternStep, InternTakes, InternAborted, UpToDate, ReadFails, OutOfDate, Extract,
           FailsEarly, FailsLate, InternCancelled, InternPut, InternStopped, InternGoesOn,
           InternPutFails, InternQuits, LeavesFile, Launch, store
  <1>2. SUFFICES ASSUME InternQuits(w) PROVE FALSE
    BY <1>1
  <1>3. iw'.exited = iw.exited + 1 /\ iw.exited \in Nat
    BY <1>2, QueueExits DEF InternQuits, Typed, IwOK
  <1>4. dw'.exited = dw.exited /\ wq'.exited = wq.exited /\ dw.exited \in Nat /\ wq.exited \in Nat
    BY <1>1, InternMoves, QueueExits DEF Typed, DwOK, WqOK
  <1>5. QED
    BY <1>3, <1>4 DEF Aborted

LEMMA TakesExact ==
    ASSUME Typed, Flow, Exacting, NEW w \in InternWorkers, InternTakes(w)
    PROVE  Exacting'
  <1> DEFINE f == Head(iw.q)
  <1>1. /\ intern \in [InternWorkers -> InternStates] /\ intern[w] \in InternStates
        /\ iw \in Queues({g \in Files : disk[g] # 0})
    BY DEF Typed, InternsOK, IwOK
  <1>2. intern[w].at = "idle" /\ iw.q # << >> /\ iw.q \in Seq({g \in Files : disk[g] # 0})
    BY <1>1, QueueFields DEF InternTakes
  <1>3. iw'.q = Tail(iw.q)
    BY <1>1, QueueExits DEF InternTakes, Popped, Queues
  <1>4. Items(iw.q) = Items(iw'.q) \cup {f} /\ f \in Files
    BY <1>2, <1>3, PopItems, HeadTailProperties
  <1>5. /\ intern'[w].at = "check" /\ intern'[w].file = f
        /\ \A v \in InternWorkers : v # w => intern'[v] = intern[v]
        /\ UNCHANGED <<dw, updated, cutshort, towalk, index, failed, disk, known, split, wq, writer>>
    BY <1>1 DEF InternTakes, InternStates, store, walk
  <1>6. /\ \A g \in Files : Unchecked(g)' => Unchecked(g)
        /\ \A v \in InternWorkers : intern'[v].at \notin {"idle", "check"} => intern'[v] = intern[v]
    BY <1>4, <1>5 DEF Unchecked
  <1>7. ASSUME NEW g \in Files, OwnToCome(g)' PROVE OwnToCome(g)
    <2>1. CASE g \in towalk' \cup Items(iw'.q)
      BY <1>4, <1>5, <2>1 DEF OwnToCome
    <2>2. ASSUME NEW v \in InternWorkers, OwesOwn(intern[v], g)' PROVE OwnToCome(g)
      <3>1. CASE v = w
        BY <1>4, <1>5, <2>2, <3>1 DEF OwnToCome, OwesOwn
      <3>2. CASE v # w
        <4>1. OwesOwn(intern[v], g)
          BY <1>5, <2>2, <3>2 DEF OwesOwn, Left
        <4>2. QED
          BY <4>1 DEF OwnToCome
      <3>3. QED
        BY <3>1, <3>2
    <2>3. QED
      BY <1>7, <2>1, <2>2 DEF OwnToCome
  <1>8. Flying' = Flying /\ Live' = Live
    BY <1>5 DEF Flying, SplitDocs, Splitting, Writing, Live, PartsNow
  <1>9. \A g \in Files : FailNoted(g) => FailNoted(g)'
    <2>1. ASSUME NEW g \in Files, FailNoted(g) PROVE FailNoted(g)'
      <3>1. ~OwnToCome(g)'
        BY <1>7, <2>1 DEF FailNoted
      <3>2. QED
        BY <1>5, <1>8, <2>1, <3>1, NotedKept
    <2>2. QED
      BY <2>1
  <1>10. LiveOnly' /\ FailuresNoted'
    BY <1>6, <1>8, <1>9 DEF Exacting, LiveOnly, FailuresNoted
  <1>11. ASSUME NEW u \in Live, Coming(u)
         PROVE  Coming(u)'
    <2>1. CASE FileOf(u) \in towalk \cup Items(iw.q)
      <3>1. FileOf(u) = f => Owes(intern[w], u)'
        BY <1>5 DEF Owes
      <3>2. QED
        BY <1>4, <1>5, <2>1, <3>1 DEF Coming
    <2>2. CASE \E d \in Flying : d.udi = u
      BY <1>8, <2>2 DEF Coming
    <2>3. ASSUME NEW v \in InternWorkers, Owes(intern[v], u)
          PROVE  Coming(u)'
      <3>1. v # w
        BY <1>2, <2>3 DEF Owes
      <3>2. Owes(intern[v], u)'
        BY <1>5, <2>3, <3>1 DEF Owes, Left
      <3>3. QED
        BY <3>2 DEF Coming
    <2>4. QED
      BY <1>11, <2>1, <2>2, <2>3 DEF Coming
  <1>12. QED
    BY <1>5, <1>6, <1>7, <1>8, <1>9, <1>10, <1>11, ExactKept DEF Exacting, UntouchedYet

LEMMA InternExact ==
    ASSUME Typed, Flow, Exacting, NEW w \in InternWorkers, InternStep(w), ~Aborted'
    PROVE  Exacting'
  <1> DEFINE me == intern[w]
  <1>1. /\ intern \in [InternWorkers -> InternStates] /\ me \in InternStates /\ InternOK(me)
        /\ me.at \notin {"idle", "gone"} => me.file \in Files /\ disk[me.file] # 0
        /\ me.at \in {"extract", "put", "look"} => me.todo \subseteq Live
    BY DEF Typed, InternsOK, InternOK, Exacting, LiveOnly
  <1>2. ~InternQuits(w) /\ UNCHANGED <<disk, index, failed, known, stop, main, walk, wq, split, writer>>
    BY InternGoes
  <1>3. Resting.at = "idle"
    BY DEF Resting
  <1>4. ASSUME NEW s, intern' = [intern EXCEPT ![w] = s], UNCHANGED iw,
               s.at = "idle" \/ (s.at \in {"extract", "put", "look"} /\ s.file = me.file),
               me.at \notin {"idle", "gone"},
               updated \subseteq updated', cutshort \subseteq cutshort'
        PROVE  Onward(w, s)
    BY <1>2, <1>4 DEF Onward, Busy, walk
  <1>5. CASE InternTakes(w)
    BY <1>5, TakesExact
  <1>6. CASE UpToDate(w) \/ ReadFails(w)
    <2>1. Onward(w, Resting) /\ UNCHANGED dw /\ me.at = "check"
      BY <1>2, <1>3, <1>4, <1>6 DEF UpToDate, ReadFails
    <2>2. \A f \in Files : ~OwesOwn(Resting, f)
      BY <1>3 DEF OwesOwn
    <2>3. me.file \in Files /\ disk[me.file] # 0 /\ Unchecked(me.file) /\ me.file \in Live
      BY <1>1, <2>1 DEF Unchecked, Live
    <2>4. CASE ReadFails(w)
      <3>1. \A u \in Live : Owes(me, u) => FileOf(u) \in cutshort'
        BY <2>4 DEF ReadFails, Owes
      <3>2. \A u \in Udis \ Live : u \in updated' => u \in updated
        BY <2>3, <2>4 DEF ReadFails
      <3>3. QED
        BY <1>2, <1>3, <2>1, <2>2, <3>1, <3>2, OnwardExact
    <2>5. CASE UpToDate(w)
      <3>1. /\ me.file \notin failed /\ index[me.file] = disk[me.file]
            /\ updated' = updated \cup Existing(me.file)
        BY <2>5 DEF UpToDate, NeedUpdate
      <3>2. \A k \in Kids : Parent[k] = me.file =>
                index[k] = IF k \in PartsNow(me.file) THEN disk[me.file] ELSE 0
        BY <2>3, <3>1 DEF Exacting, UntouchedYet, Consistent
      <3>3. \A u \in Live : Owes(me, u) => index[u] = disk[FileOf(u)]
        BY <3>1, <3>2 DEF Owes, Live, FileOf
      <3>4. \A u \in Existing(me.file) : u \in Live
        BY <2>3, <3>2 DEF Existing, Live
      <3>5. QED
        BY <1>2, <1>3, <2>1, <2>2, <3>1, <3>3, <3>4, OnwardExact
    <2>6. QED
      BY <1>6, <2>4, <2>5
  <1>7. CASE OutOfDate(w)
    <2> DEFINE s == [me EXCEPT !.at = "extract", !.todo = {me.file} \cup PartsNow(me.file)]
    <2>1. s.at = "extract" /\ s.file = me.file /\ s.todo = {me.file} \cup PartsNow(me.file)
      BY <1>1 DEF InternStates
    <2>2. intern' = [intern EXCEPT ![w] = s] /\ UNCHANGED <<iw, dw, updated, cutshort>> /\ me.at = "check"
      BY <1>7 DEF OutOfDate, store
    <2>3. s.todo \subseteq Live
      <3>1. me.file \in Files /\ disk[me.file] # 0
        BY <1>1, <2>2
      <3>2. \A k \in PartsNow(me.file) : k \in Kids /\ Parent[k] = me.file
        <4>1. PartsNow(me.file) \subseteq Udis /\ \A k \in PartsNow(me.file) : FileOf(k) = me.file
          BY <3>1, DocTypes
        <4>2. Parts[me.file][disk[me.file]] \subseteq Kids
          <5>1. disk[me.file] \in Versions
            BY <3>1 DEF Typed, FilesOK
          <5>2. Parts[me.file] \in [Versions -> SUBSET Kids]
            BY <3>1, DocsAssumption
          <5>3. QED
            BY <5>1, <5>2
        <4>3. QED
          BY <4>1, <4>2, DocsAssumption DEF PartsNow, FileOf
      <3>3. QED
        BY <2>1, <3>1, <3>2 DEF Live
    <2>4. \A u \in Live : Owes(me, u) => Owes(s, u)
      BY <2>1, <2>2 DEF Owes, Live, FileOf
    <2>5. \A f \in Files : OwesOwn(s, f) => OwesOwn(me, f)
      BY <2>1, <2>2 DEF OwesOwn
    <2> HIDE DEF s
    <2>6. Onward(w, s)
      BY <1>4, <2>1, <2>2
    <2>7. QED
      BY <1>2, <2>1, <2>2, <2>3, <2>4, <2>5, <2>6, OnwardExact
  <1>8. CASE (\E u \in Udis : Extract(w, u)) \/ FailsEarly(w)
    <2>1. PICK d : Launch(w, d) /\ UNCHANGED <<dw, updated>> /\ me.at = "extract"
      BY <1>8 DEF Extract, FailsEarly
    <2> DEFINE s == [me EXCEPT !.at = "put", !.doc = d]
    <2>2. s.at = "put" /\ s.file = me.file /\ s.todo = me.todo
      BY <1>1 DEF InternStates
    <2>3. intern' = [intern EXCEPT ![w] = s] /\ UNCHANGED <<iw, cutshort>>
      BY <1>2, <2>1 DEF Launch, LeavesFile
    <2>4. \A u \in Live : Owes(me, u) => Owes(s, u)
      BY <2>1, <2>2 DEF Owes
    <2>5. \A f \in Files : OwesOwn(s, f) => OwesOwn(me, f)
      BY <2>1, <2>2 DEF OwesOwn
    <2> HIDE DEF s
    <2>6. Onward(w, s)
      BY <1>4, <2>1, <2>2, <2>3
    <2>7. QED
      BY <1>1, <1>2, <2>1, <2>2, <2>4, <2>5, <2>6, OnwardExact DEF store
  <1>9. CASE FailsLate(w)
    <2>1. Onward(w, Resting) /\ UNCHANGED <<dw, updated>>
      BY <1>3, <1>4, <1>9 DEF FailsLate
    <2>2. /\ \A u \in Live : Owes(me, u) => FileOf(u) \in cutshort'
          /\ \A f \in Files : ~OwesOwn(Resting, f)
      BY <1>3, <1>9 DEF FailsLate, Owes, OwesOwn
    <2>3. QED
      BY <1>2, <1>3, <2>1, <2>2, OnwardExact
  <1>10. CASE InternPut(w)
    <2> DEFINE s == [me EXCEPT !.at = "look"]
    <2>1. s.at = "look" /\ s.file = me.file /\ s.todo = me.todo /\ s.doc = me.doc
      BY <1>1 DEF InternStates
    <2>2. /\ me.at = "put" /\ dw' = Pushed(dw, me.doc) /\ UNCHANGED <<iw, store>>
          /\ \/ intern' = [intern EXCEPT ![w] = s]
             \/ Left(me) = {} /\ ~me.doc.plus /\ intern' = [intern EXCEPT ![w] = Resting]
      BY <1>10 DEF InternPut
    <2> HIDE DEF s
    <2>3. CASE intern' = [intern EXCEPT ![w] = s]
      <3>1. Onward(w, s)
        BY <1>4, <2>1, <2>2, <2>3 DEF store
      <3>2. QED
        BY <2>1, <2>2, <3>1, PutExact
    <2>4. CASE Left(me) = {} /\ ~me.doc.plus /\ intern' = [intern EXCEPT ![w] = Resting]
      <3>1. Onward(w, Resting)
        BY <1>3, <1>4, <2>2, <2>4 DEF store
      <3>2. QED
        BY <1>3, <2>2, <2>4, <3>1, PutExact
    <2>5. QED
      BY <2>2, <2>3, <2>4
  <1>11. CASE InternGoesOn(w)
    <2> DEFINE s == IF Left(me) = {} THEN Resting
                    ELSE [me EXCEPT !.at = "extract", !.todo = Left(me), !.doc = NoDoc]
    <2>1. \/ s.at = "idle" /\ Left(me) = {}
          \/ s.at = "extract" /\ s.file = me.file /\ s.todo = Left(me)
      BY <1>1, <1>3 DEF InternStates
    <2>2. /\ me.at = "look" /\ intern' = [intern EXCEPT ![w] = s] /\ UNCHANGED <<iw, dw, cutshort>>
          /\ updated' = IF me.doc.plus THEN updated \cup Tree(me.file) ELSE updated
      BY <1>11 DEF InternGoesOn
    <2>3. me.file \in Files /\ Left(me) \subseteq Live
      BY <1>1, <2>2 DEF Left
    <2>4. me.doc.plus => FailNoted(me.file)
      BY <2>2, <2>3 DEF Exacting, FailuresNoted
    <2>5. \A u \in Live : Owes(me, u) => Owes(s, u) \/ FailNoted(FileOf(u))
      BY <2>1, <2>2, <2>4 DEF Owes
    <2>6. \A f \in Files : OwesOwn(s, f) => OwesOwn(me, f)
      BY <2>1, <2>2 DEF OwesOwn
    <2>7. \A u \in Udis \ Live : u \in updated' => u \in updated \/ Shielded(u)
      BY <2>2, <2>3, <2>4 DEF Tree, Shielded
    <2> HIDE DEF s
    <2>8. Onward(w, s)
      BY <1>4, <2>1, <2>2
    <2>9. QED
      BY <1>2, <2>1, <2>2, <2>3, <2>5, <2>6, <2>7, <2>8, OnwardExact
  <1>12. QED
    BY <1>2, <1>5, <1>6, <1>7, <1>8, <1>9, <1>10, <1>11
       DEF InternStep, InternAborted, InternCancelled, InternStopped, InternPutFails, LeavesFile

LEMMA SplitGoes ==
    ASSUME Typed, NEW w \in SplitWorkers, SplitStep(w), ~Aborted'
    PROVE  ~SplitQuits(w)
  <1>1. iw.exited \in Nat /\ wq.exited \in Nat /\ dw.exited \in Nat
    BY QueueExits DEF Typed, IwOK, DwOK, WqOK
  <1>2. SplitQuits(w) => iw' = iw /\ wq' = wq /\ dw'.exited = dw.exited + 1
    BY QueueExits DEF SplitQuits, Typed, DwOK
  <1>3. QED
    BY <1>1, <1>2 DEF Aborted

LEMMA WriterGoes ==
    ASSUME Typed, WriterStep, ~Aborted'
    PROVE  ~WriterQuits
  <1>1. iw.exited \in Nat /\ wq.exited \in Nat /\ dw.exited \in Nat
    BY QueueExits DEF Typed, IwOK, DwOK, WqOK
  <1>2. WriterQuits => iw' = iw /\ dw' = dw /\ wq'.exited = wq.exited + 1
    BY QueueExits DEF WriterQuits, Typed, WqOK
  <1>3. QED
    BY <1>1, <1>2 DEF Aborted

LEMMA SplitExact ==
    ASSUME Typed, Exacting, NEW w \in SplitWorkers, SplitStep(w), ~Aborted'
    PROVE  Exacting'
BY SplitGoes, SplitFlight, FlightExact

LEMMA WriterExact ==
    ASSUME Typed, Exacting, WriterStep, ~Aborted'
    PROVE  Exacting'
  <1>1. /\ index \in [Udis -> Versions \cup {0}]
        /\ UNCHANGED <<disk, known, cutshort, towalk, iw, intern>>
    BY WriterGoes, WriterFlight DEF Typed, StoreOK
  <1>2. CASE UNCHANGED store /\ Flying' = Flying
    BY <1>1, <1>2, FlightExact
  <1>3. ASSUME NEW d \in Flying \cap GoodDocs, Written(d), Flying = Flying' \cup {d}, d.udi \in Udis
        PROVE  Exacting'
    <2>1. /\ index' = [index EXCEPT ![d.udi] = disk[FileOf(d.udi)]]
          /\ failed' = (failed \ {d.udi}) \cup (IF d.plus THEN {d.udi} ELSE {})
          /\ updated' = updated \cup ({d.udi} \cap known)
      BY <1>3 DEF Written, GoodDocs
    <2>2. d.udi \in Live /\ Live' = Live /\ \A f \in Files : FileOf(f) = f
      BY <1>1, <1>3, DocTypes DEF Exacting, LiveOnly, Live, PartsNow
    <2>3. \A f : Unchecked(f)' = Unchecked(f) /\ OwnToCome(f)' = OwnToCome(f)
      BY <1>1 DEF Unchecked, OwnToCome, OwesOwn, Left
    <2>4. \A f \in Files : Unchecked(f)' =>
               /\ Unchecked(f) /\ (f \in failed <=> f \in failed')
               /\ \A u \in Udis : FileOf(u) = f => index'[u] = index[u]
               /\ \A e \in Flying' : FileOf(e.udi) # f
      <3>1. ASSUME NEW f \in Files, Unchecked(f)
            PROVE  FileOf(d.udi) # f /\ d.udi # f /\ \A e \in Flying' : FileOf(e.udi) # f
        BY <1>3, <2>2, <3>1 DEF Exacting, UntouchedYet
      <3>2. QED
        BY <1>1, <2>1, <2>3, <3>1
    <2>5. \A f \in Files : FailNoted(f) => FailNoted(f)'
      <3>1. ASSUME NEW f \in Files, FailNoted(f) PROVE FailNoted(f)'
        <4>1. d.udi = f => d.plus
          BY <1>3, <3>1 DEF FailNoted
        <4>2. /\ f \in failed => f \in failed'
              /\ d.udi = f => f \in failed' \ (known \ updated')
          BY <2>1, <4>1
        <4>3. \A e \in Flying : e.udi = f => e \in Flying' \/ f \in failed' \ (known \ updated')
          BY <1>3, <4>2
        <4>4. ~OwnToCome(f)' /\ Flying' \subseteq Flying
          BY <1>3, <2>3, <3>1 DEF FailNoted
        <4>5. QED
          BY <1>1, <2>1, <3>1, <4>2, <4>3, <4>4, NotedKept
      <3>2. QED
        BY <3>1
    <2>6. LiveOnly' /\ FailuresNoted'
      BY <1>1, <1>3, <2>2, <2>5 DEF Exacting, LiveOnly, FailuresNoted
    <2>7. ASSUME NEW u \in Live, Coming(u)
          PROVE  index'[u] = disk[FileOf(u)] \/ Coming(u)'
      <3>1. CASE d.udi = u
        BY <1>1, <1>3, <2>1, <3>1
      <3>2. CASE d.udi # u
        <4>1. \A v \in InternWorkers : Owes(intern[v], u)' = Owes(intern[v], u)
          BY <1>1 DEF Owes, Left
        <4>2. QED
          BY <1>1, <1>3, <2>7, <3>2, <4>1 DEF Coming
      <3>3. QED
        BY <3>1, <3>2
    <2>8. \A u \in Live : index[u] = disk[FileOf(u)] => index'[u] = index[u]
      BY <1>1, <1>3, <2>1, LiveUdis
    <2>9. \A u \in Udis \ Live : index'[u] = index[u] /\ (u \in updated' => u \in updated)
      BY <1>1, <2>1, <2>2
    <2>10. \A f \in Files : OwnToCome(f)' => \A e \in Flying' : e.udi # f
      BY <1>3, <2>3 DEF Exacting, UntouchedYet
    <2>11. QED
      BY <1>1, <2>4, <2>5, <2>6, <2>7, <2>8, <2>9, <2>10, ExactKept
  <1>4. QED
    BY <1>2, <1>3, WriterGoes, WriterFlight

LEMMA WalkPutExact ==
    ASSUME Typed, Exacting, WalkPut
    PROVE  Exacting'
  <1>1. /\ iw \in Queues({f \in Files : disk[f] # 0})
        /\ file \in towalk /\ file \in {f \in Files : disk[f] # 0}
    BY DEF WalkPut, Typed, IwOK, FilesOK
  <1>2. /\ iw' = Pushed(iw, file) /\ towalk' = towalk \ {file}
        /\ UNCHANGED <<disk, index, failed, known, updated, cutshort, dw, wq, intern, split, writer>>
    BY DEF WalkPut, store, workers
  <1>3. towalk' \cup Items(iw'.q) = towalk \cup Items(iw.q)
    BY <1>1, <1>2, PushQueue
  <1>4. Flying' = Flying /\ Live' = Live
    BY <1>2 DEF Flying, SplitDocs, Splitting, Writing, Live, PartsNow
  <1>5. \A f : Unchecked(f)' = Unchecked(f) /\ OwnToCome(f)' = OwnToCome(f)
    BY <1>2, <1>3 DEF Unchecked, OwnToCome, OwesOwn, Left
  <1>6. \A f : FailNoted(f)' = FailNoted(f)
    BY <1>2, <1>4, <1>5 DEF FailNoted
  <1>7. \A u : Coming(u)' = Coming(u)
    BY <1>2, <1>3, <1>4 DEF Coming, Owes, Left
  <1>8. LiveOnly' /\ FailuresNoted'
    BY <1>2, <1>4, <1>6 DEF Exacting, LiveOnly, FailuresNoted
  <1>9. QED
    BY <1>2, <1>4, <1>5, <1>6, <1>7, <1>8, ExactKept DEF Exacting, UntouchedYet

(* The walk begins with all the files, no bit and nothing in the queues.   *)
LEMMA BeginExact ==
    ASSUME Typed, BeginPass, mounted', \A f \in Files : Consistent(f)
    PROVE  Exacting'
  <1>1. /\ iw' = NewQueue /\ dw' = NewQueue /\ wq' = NewQueue /\ UNCHANGED <<disk, index, failed>>
        /\ known' = {u \in Udis : index[u] # 0} /\ updated' = {}
        /\ towalk' = {f \in Files : disk[f] # 0}
        /\ \A w \in InternWorkers : intern'[w].at = "idle"
        /\ split' = [w \in SplitWorkers |-> Free] /\ writer' = Free
    BY DEF BeginPass, StartPass, Resting
  <1>2. Flying' = {}
    <2>1. SplitDocs' = {} /\ Writing' = {}
      BY <1>1 DEF SplitDocs, Splitting, Writing, Free
    <2>2. QED
      BY <1>1, <2>1, NoItems DEF Flying, NewQueue
  <1>3. \A f \in Files : Consistent(f)'
    BY <1>1 DEF Consistent, PartsNow
  <1>4. \A u \in Live' : FileOf(u) \in towalk'
    <2>1. Live' = Live
      BY <1>1 DEF Live, PartsNow
    <2>2. \A k \in Kids : k \in PartsNow(Parent[k]) => disk[Parent[k]] # 0
      BY DEF PartsNow
    <2>3. QED
      BY <1>1, <2>1, <2>2, DocsAssumption DEF Live, FileOf
  <1>5. LiveComing'
    BY <1>4 DEF LiveComing, Coming
  <1>6. QED
    BY <1>1, <1>2, <1>3, <1>5
       DEF Exacting, UntouchedYet, LiveOnly, FailuresNoted, DeadUnmarked

(* The purge, once nothing is coming any more.                             *)
LEMMA PurgeExact ==
    ASSUME Typed, Drains, Flows, Exacting, Purge, ~Aborted
    PROVE  \A u \in Udis : UpToDateWithDisk(u)' \/ Excepted(u)'
  <1>1. /\ index' = [u \in Udis |-> IF u \in known \ updated THEN 0 ELSE index[u]]
        /\ failed' = failed \ (known \ updated)
        /\ UNCHANGED <<disk, cutshort>> /\ main = "purge"
    BY DEF Purge, Deleted
  <1>2. \A u : ~Coming(u)
    BY <1>1, NothingComes, AllTaken
  <1>3. Flying = {}
    <2>1. \A d \in Flying : Coming(d.udi)
      BY DEF Coming
    <2>2. QED
      BY <1>2, <2>1
  <1>4. \A f \in Files : FailNoted(f) => f \in failed'
    BY <1>1, <1>3 DEF FailNoted
  <1>5. \A u \in Live : FailNoted(FileOf(u)) => Excepted(u)'
    <2>1. \A u \in Live : FileOf(u) \in Files /\ FileOf(u) \in Beneath[FileOf(u)]
      BY LiveUdis, DocTypes, DocsAssumption
    <2>2. QED
      BY <1>4, <2>1 DEF Excepted
  <1>6. Live' = Live
    BY <1>1 DEF Live, PartsNow
  <1>7. ASSUME NEW u \in Live
        PROVE  UpToDateWithDisk(u)' \/ Excepted(u)'
    <2>1. u \in known => u \in updated \/ FileOf(u) \in cutshort
      BY <1>1, <1>2 DEF Flows, WalkOver, Flow, BitsComing
    <2>2. index[u] = disk[FileOf(u)] \/ FileOf(u) \in cutshort \/ FailNoted(FileOf(u))
      BY <1>2 DEF Exacting, LiveComing
    <2>3. QED
      BY <1>1, <1>5, <1>6, <2>1, <2>2, LiveUdis DEF UpToDateWithDisk, Excepted
  <1>8. ASSUME NEW u \in Udis \ Live
        PROVE  UpToDateWithDisk(u)' \/ Excepted(u)'
    <2>1. CASE index[u] = 0
      BY <1>1, <1>6, <2>1 DEF UpToDateWithDisk
    <2>2. CASE index[u] # 0 /\ u \in known \ updated
      BY <1>1, <1>6, <2>2 DEF UpToDateWithDisk
    <2>3. CASE Shielded(u)
      BY <1>4, <2>3 DEF Shielded, Excepted
    <2>4. QED
      BY <2>1, <2>2, <2>3 DEF Exacting, DeadUnmarked
  <1>9. QED
    BY <1>7, <1>8

LEMMA MainExact == Typed /\ Drains /\ Flows /\ Exacts /\ MainStep => Exacts'
  <1> SUFFICES ASSUME Typed, Drains, Flows, Exacts, MainStep PROVE Exacts'
    OBVIOUS
  <1>1. CASE BeginPass
    <2>1. main = "idle" /\ main' = "walk" /\ passes' = passes
      BY <1>1 DEF BeginPass, StartPass
    <2>2. mounted' /\ passes = 0 => Exacting'
      BY <1>1, <2>1, BeginExact DEF Exacts
    <2>3. QED
      BY <2>1, <2>2 DEF Exacts
  <1>2. CASE WalkPut
    <2>1. iw'.exited = iw.exited /\ UNCHANGED <<dw, wq, walkok, mounted, passes>>
          /\ main' = "walk" /\ main = "put"
      BY <1>2, QueueExits DEF WalkPut, Typed, IwOK
    <2>2. Aborted' = Aborted
      BY <2>1 DEF Aborted
    <2>3. QED
      BY <1>2, <2>1, <2>2, WalkPutExact DEF Exacts
  <1>3. CASE WalkFails \/ CloseShops
    BY <1>3 DEF WalkFails, CloseShops, Flows, Exacts, walk, WalkOver
  <1>4. CASE (\E f \in Files : WalkFile(f)) \/ WalkEnds \/ Drain \/ GoPurge
    <2>1. /\ UNCHANGED <<disk, store, towalk, walkok, mounted, passes, iw, dw, wq, intern, split,
                         writer>>
          /\ {main, main'} \subseteq WalkOver \cup {"walk", "put"}
      BY <1>4 DEF WalkFile, WalkEnds, Drain, GoPurge, walk, workers, WalkOver
    <2>2. Flying' = Flying /\ Aborted' = Aborted
      BY <2>1 DEF Flying, SplitDocs, Splitting, Writing, Aborted
    <2>3. Exacting => Exacting'
      BY <2>1, <2>2, FlightExact
    <2>4. main' \notin {"idle", "complete"}
      BY <2>1 DEF WalkOver
    <2>5. QED
      BY <2>1, <2>2, <2>3, <2>4 DEF Exacts
  <1>5. CASE Purge
    <2>1. /\ main = "purge" /\ main' = "complete"
          /\ UNCHANGED <<mounted, passes, iw, dw, wq>>
      BY <1>5 DEF Purge, walk
    <2>2. Aborted' = Aborted
      BY <2>1 DEF Aborted
    <2>3. mounted /\ ~Aborted /\ passes = 0 => Exacting
      BY <2>1 DEF Exacts, Flows, WalkOver
    <2>4. mounted /\ ~Aborted /\ passes = 0 => \A u \in Udis : UpToDateWithDisk(u)' \/ Excepted(u)'
      BY <1>5, <2>3, PurgeExact
    <2>5. QED
      BY <2>1, <2>2, <2>4 DEF Exacts, WalkOver
  <1>6. CASE PurgeCut \/ EndPass
    <2>1. main' = "cut" \/ (main' = "idle" /\ passes' = passes + 1 /\ passes \in Nat)
      BY <1>6 DEF PurgeCut, EndPass, Typed, MainOK
    <2>2. QED
      BY <2>1 DEF Exacts, WalkOver
  <1>7. QED
    BY <1>1, <1>2, <1>3, <1>4, <1>5, <1>6 DEF MainStep

(* After the waits, and before a pass, no worker has anything to do.       *)
LEMMA AllQuiet ==
    ASSUME Typed, Drains, main \in Over, ~Aborted
    PROVE  /\ \A w \in InternWorkers : ~InternStep(w)
           /\ \A w \in SplitWorkers : ~SplitStep(w)
           /\ ~WriterStep
  <1>1. iw.exited = 0 /\ dw.exited = 0 /\ wq.exited = 0
    BY QueueExits DEF Typed, IwOK, DwOK, WqOK, Aborted
  <1>2. /\ iw.q = << >> /\ dw.q = << >> /\ wq.q = << >>
        /\ \A w \in InternWorkers : intern[w].at \in {"idle", "gone"}
        /\ \A w \in SplitWorkers : split[w].at \in {"idle", "gone"}
        /\ writer.at \in {"idle", "gone"}
    BY <1>1, SomeWorkers DEF Drains, InternsBack, SplitsBack, WriterBack, Over
  <1>3. Ok(iw) /\ Ok(dw) /\ Ok(wq)
    BY <1>1 DEF Ok
  <1>4. \A w \in InternWorkers : ~InternStep(w)
    BY <1>2, <1>3 DEF InternStep, InternTakes, InternAborted, UpToDate, ReadFails, OutOfDate,
       Extract, FailsEarly, FailsLate, InternCancelled, InternPut, InternStopped, InternGoesOn,
       InternPutFails
  <1>5. \A w \in SplitWorkers : ~SplitStep(w)
    BY <1>2, <1>3 DEF SplitStep, SplitTakes, SplitOffers, SplitPut, SplitQuits
  <1>6. ~WriterStep
    BY <1>2 DEF WriterStep, WriterTakes, Write, WriterQuits
  <1>7. QED
    BY <1>4, <1>5, <1>6

LEMMA NextExact == Typed /\ Drains /\ Flows /\ Exacts /\ [Next]_vars => Exacts'
  <1> SUFFICES ASSUME Typed, Drains, Flows, Exacts, [Next]_vars PROVE Exacts'
    OBVIOUS
  <1>1. CASE Interrupt \/ Finished \/ UNCHANGED vars
    <2>1. UNCHANGED <<disk, store, towalk, iw, dw, wq, intern, split, writer, main, walkok,
                      mounted, passes>>
      BY <1>1 DEF Interrupt, Finished, vars, walk, workers
    <2>2. Flying' = Flying /\ Aborted' = Aborted
      BY <2>1 DEF Flying, SplitDocs, Splitting, Writing, Aborted
    <2>3. Exacting => Exacting'
      BY <2>1, <2>2, FlightExact
    <2>4. /\ \A f : Consistent(f)' = Consistent(f)
          /\ \A u : UpToDateWithDisk(u)' = UpToDateWithDisk(u) /\ Excepted(u)' = Excepted(u)
      BY <2>1 DEF store, Consistent, PartsNow, UpToDateWithDisk, Live, Excepted
    <2>5. QED
      BY <2>1, <2>2, <2>3, <2>4 DEF Exacts
  <1>2. CASE \/ \E w \in InternWorkers : InternStep(w)
             \/ \E w \in SplitWorkers : SplitStep(w)
             \/ WriterStep
    <2>1. UNCHANGED <<main, walkok, mounted, passes>>
      <3>1. CASE \E w \in InternWorkers : InternStep(w)
        BY <3>1 DEF InternStep, InternTakes, InternAborted, UpToDate, ReadFails, OutOfDate, Extract,
           FailsEarly, FailsLate, InternCancelled, InternPut, InternStopped, InternGoesOn,
           InternPutFails, InternQuits, LeavesFile, Launch, walk
      <3>2. CASE \E w \in SplitWorkers : SplitStep(w)
        BY <3>2 DEF SplitStep, SplitTakes, SplitOffers, SplitPut, SplitQuits, walk
      <3>3. CASE WriterStep
        BY <3>3 DEF WriterStep, WriterTakes, Write, WriterQuits, walk
      <3>4. QED
        BY <1>2, <3>1, <3>2, <3>3
    <2>2. ~Aborted' => ~Aborted
      BY <1>2, AbortedStays
    <2>3. ~Aborted' /\ Flow /\ Exacting => Exacting'
      BY <1>2, InternExact, SplitExact, WriterExact
    <2>4. ~Aborted => main \notin {"idle", "complete"}
      BY <1>2, AllQuiet DEF Over
    <2>5. main = "idle" /\ passes = 0 => FALSE
      BY <2>4 DEF Exacts
    <2>6. QED
      BY <2>1, <2>2, <2>3, <2>4, <2>5 DEF Exacts, Flows
  <1>3. QED
    BY <1>1, <1>2, MainExact DEF Next

(* CompletePassIsExact, of the first pass, which finds the index as a      *)
(* complete pass over an older tree left it (after a pass that was cut     *)
(* short the next one trusts signatures that say nothing of the            *)
(* subdocuments).  A document of a present file is right, or on its way,   *)
(* until the purge; one that is gone has no bit, unless a failure of a     *)
(* handler shields it, and that is noted in the index by then.             *)
THEOREM FirstPassExact == Spec => [](passes = 0 => CompletePassIsExact)
  <1>1. Init => Exacts
    <2> SUFFICES ASSUME Init PROVE Exacts
      OBVIOUS
    <2>1. main = "idle" /\ iw.exited = 0 /\ dw.exited = 0 /\ wq.exited = 0
      BY DEF Init, NewQueue
    <2>2. ASSUME NEW f \in Files PROVE Consistent(f)
      <3>1. PICK old \in [Files -> Versions \cup {0}] :
                index = [u \in Udis |->
                  LET g == FileOf(u)
                  IN  IF u \in Files \/ (old[g] # 0 /\ g \notin failed /\ u \in Parts[g][old[g]])
                      THEN old[g] ELSE 0]
        BY DEF Init
      <3>2. index[f] = old[f]
        BY <3>1 DEF FileOf, Udis
      <3>3. \A k \in Kids : Parent[k] = f =>
                index[k] = IF old[f] # 0 /\ f \notin failed /\ k \in Parts[f][old[f]] THEN old[f] ELSE 0
        BY <3>1, DocsAssumption DEF FileOf, Udis
      <3>4. QED
        BY <3>2, <3>3 DEF Consistent, PartsNow
    <2>3. QED
      BY <2>1, <2>2 DEF Exacts, Aborted, WalkOver
  <1>2. Init => Flows
    BY DEF Init, Flows, WalkOver
  <1>3. Typed /\ Exacts => (passes = 0 => CompletePassIsExact)
    BY DEF Exacts, CompletePassIsExact, Excepted
  <1>4. QED
    BY <1>1, <1>2, <1>3, TypedInit, DrainsInit, NextTyped, NextDrains, NextFlows, NextExact, PTL
       DEF Spec
=============================================================================
