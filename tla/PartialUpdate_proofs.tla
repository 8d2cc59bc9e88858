------------------------ MODULE PartialUpdate_proofs ------------------------
(***************************************************************************)
(* Proofs about the updates for lists of files: what a call leaves of each *)
(* file, whatever changes while it runs, fails or is dropped.              *)
(***************************************************************************)
EXTENDS PartialUpdate, TLAPS

-----------------------------------------------------------------------------
(* The parts of the inductive invariant: first what the main thread does   *)
(* says about the queues and the lists.                                    *)

Stages ==
    /\ pc \notin {"index", "drain"} => flight = {} /\ \A f \in Files : job[f] = NoJob
    /\ deletes # {} => pc = "delete" /\ writer
    /\ orphans # {} => pc = "orphans" /\ writer
    /\ orphans \subseteq candidates
    /\ del # {} => pc \in {"delete", "off"}
    /\ ret /\ pc \in {"drain", "orphans", "purge", "idle"} => mod = {}
    /\ pc \in {"idle", "delete", "deleted", "orphans"} => ret
    /\ pc = "idle" => ~stop
    /\ pc = "off" /\ ret /\ ~stop => purging
    /\ purging => del = {} /\ deletes = {} /\ pc \in {"index", "drain", "orphans", "purge", "off"}
    /\ ~purging => unseen = {}

-----------------------------------------------------------------------------
(* What is true of each file.                                              *)

Flying(f) == {d \in flight : FileOf(d.udi) = f}
InFlight(u) == \E d \in flight : d.udi = u
Extracting(f) == job[f].at = "extract"

(* The handler of the file failed, and the index says so or will.          *)
Failing(f) ==
    \/ \E d \in flight : d.udi = f /\ d.plus
    \/ f \in plus /\ ~InFlight(f)

(* The file's own document has, or will have, the signature s.             *)
OwnIs(f, s) ==
    \/ \E d \in flight : d.udi = f /\ ~d.plus /\ d.sig = s
    \/ ~InFlight(f) /\ index[f].sig = s /\ f \notin plus

(* The signature is the version of the stat, the text is at least as       *)
(* recent, and there is one document of each name in flight.               *)
Versioned(f) ==
    /\ index[f] # NoText => index[f].sig # 0
    /\ index[f].sig <= index[f].ver \/ f \in plus
    /\ index[f].sig <= disk[f].ver /\ index[f].ver <= disk[f].ver
    /\ f \in plus => Indexed(f) /\ f \notin unseen
    /\ \A k \in KidsOf(f) : Indexed(k) =>
        /\ index[k].sig # 0 /\ index[k].ver # 0 /\ index[k].sig <= index[k].ver
        /\ index[k].ver <= disk[f].ver
        /\ k \in Parts[f][index[k].ver]
    /\ \A d \in Flying(f) :
        /\ d.sig <= disk[f].ver /\ d.ver <= disk[f].ver
        /\ d.sig <= d.ver \/ d.plus
        /\ d.udi # f => d.ver # 0 /\ d.udi \in Parts[f][d.ver] /\ ~d.plus
        /\ \A e \in Flying(f) :
            /\ e.sig = d.sig
            /\ e.udi = d.udi => e = d
            /\ ~d.plus /\ ~e.plus => e.ver = d.ver
    /\ job[f].at # "none" => job[f].sig # 0 /\ job[f].sig <= disk[f].ver
    /\ Extracting(f) /\ job[f].ver # 0 =>
        job[f].sig <= job[f].ver /\ job[f].ver <= disk[f].ver

(* A file is worked on once in a call, and has an event if it changes then.*)
Timely(f) ==
    /\ job[f].at # "none" \/ Flying(f) # {} =>
        /\ f \notin mod
        /\ disk[f].there \/ f \in removed
    /\ job[f].at = "none" => job[f] = NoJob
    /\ job[f].at = "queued" => Flying(f) = {}
    /\ job[f].at # "none" /\ f \notin modified => job[f].sig = disk[f].ver
    /\ disk[f].there /\ f \in removed => f \in modified
    /\ disk[f].there /\ f \in del \cup deletes => f \in modified \cup mod

(* The work of an internfile worker on the file.                           *)
Extracted(f) ==
    Extracting(f) =>
        IF job[f].ver = 0 THEN job[f].todo = {f} /\ Flying(f) = {}
        ELSE LET now == {f} \cup Parts[f][job[f].ver]
             IN  /\ job[f].todo \subseteq now /\ job[f].todo # {}
                 /\ \A d \in Flying(f) :
                        /\ d.sig = job[f].sig /\ d.ver = job[f].ver /\ ~d.plus
                        /\ d.udi \notin job[f].todo
                 /\ (queues = "ok" /\ writer) \/ f \notin cut =>
                    \A u \in now \ job[f].todo :
                        InFlight(u) \/ (/\ index[u] = [sig |-> job[f].sig, ver |-> job[f].ver]
                                        /\ u \notin plus \cup unseen)
                 /\ job[f].old \/ f \in cut \/ \A k \in KidsOf(f) : Indexed(k) => k \in now
                 /\ job[f].sig = job[f].ver =>
                        \A k \in KidsOf(f) : Indexed(k) /\ index[k].sig = job[f].sig => k \in now

(* No subdocument without the document of its file, unless that was lost.  *)
Rooted(f) ==
    \/ Indexed(f) \/ InFlight(f) \/ (Extracting(f) /\ f \in job[f].todo)
    \/ f \in cut
    \/ pc = "off"
    \/ \A k \in KidsOf(f) : ~Indexed(k) /\ ~InFlight(k)

(* The subdocuments that the file does not hold any more will be deleted.  *)
OrphansToGo(f) == f \in orphans \/ (f \in candidates /\ pc \in {"index", "drain"})

Complete(f, v) ==
    LET now == [sig |-> v, ver |-> v]
    IN  /\ \A d \in Flying(f) : d.sig = v /\ d.ver = v
        /\ \A u \in {f} \cup Parts[f][v] : InFlight(u) \/ index[u] = now
        /\ \A k \in KidsOf(f) \ Parts[f][v] : Indexed(k) =>
            index[k].sig # v /\ (Parts[f][v] # {} => OrphansToGo(f))

(* The call has not been cut short: what it decided will be done.          *)
Live == pc # "off" /\ (pc = "purge" => ret)

(* What needUpdate() takes for up to date is so.                           *)
UpToDateIsComplete(f) ==
    Live /\ f \notin cut /\ ~Extracting(f) /\ OwnIs(f, disk[f].ver) => Complete(f, disk[f].ver)

(* A file without an event, and that was not dropped, is up to date.       *)
ProcessedIsNow(f) ==
    pc # "off" /\ f \notin modified \cup mod \cup cut /\ job[f].at = "none" /\ disk[f].there =>
        \/ Failing(f)
        \/ /\ Live => OwnIs(f, disk[f].ver)
           /\ \A u \in {f} \cup Parts[f][disk[f].ver] : u \in unseen => InFlight(u)

(* A file that is gone has no document, or will not after the purge.       *)
GoneIsEmpty(f) ==
    Live /\ f \notin cut \cup removed \cup del \cup deletes /\ ~disk[f].there =>
        \A u \in {f} \cup KidsOf(f) : Indexed(u) => u \in unseen

FailedIsSeen(f) ==
    f \in plus \/ (\E d \in flight : d.udi = f /\ d.plus) =>
        \A k \in KidsOf(f) : Indexed(k) => k \notin unseen

(* What is new among the candidates was recorded in this call.             *)
NewIsProper(f) ==
    pc \in {"index", "drain", "orphans"} /\ f \in candidates \ carried =>
        /\ job[f].at = "none" /\ f \notin mod
        /\ ~writer \/ ~ret \/ (f \notin cut /\ ~Failing(f))

FileOK(f) ==
    /\ Versioned(f) /\ Timely(f) /\ Extracted(f) /\ Rooted(f)
    /\ UpToDateIsComplete(f) /\ ProcessedIsNow(f) /\ GoneIsEmpty(f)
    /\ FailedIsSeen(f) /\ NewIsProper(f)

(* What the command leaves when it ends well.                              *)
Outcome ==
    pc = "off" /\ purging /\ ret /\ ~stop =>
        \A f \in Files : Settled(f) => Exact(f) \/ Excused(f)

Updates == TypeOK /\ Stages /\ (\A f \in Files : FileOK(f)) /\ Outcome

-----------------------------------------------------------------------------
LEMMA FilesAndKids ==
    /\ \A f \in Files : f \in Udis /\ FileOf(f) = f
    /\ \A k \in Kids : k \in Udis /\ k \notin Files /\ FileOf(k) = Parent[k] /\ Parent[k] \in Files
    /\ \A f \in Files : \A k \in KidsOf(f) : k \in Kids /\ Parent[k] = f /\ FileOf(k) = f
    /\ \A u \in Udis : FileOf(u) \in Files /\ u \in {FileOf(u)} \cup KidsOf(FileOf(u))
    /\ \A f \in Files, v \in Versions : Parts[f][v] \subseteq KidsOf(f)
  BY FilesAssumption DEF Udis, FileOf, KidsOf, Versions

LEMMA Types ==
    ASSUME TypeOK
    PROVE  /\ MaxVersion \in Nat \ {0}
           /\ \A f \in Files :
                /\ disk[f].there \in BOOLEAN /\ disk[f].ver \in Versions /\ disk[f].ver \in Nat \ {0}
                /\ job[f] \in Job /\ job[f].at \in {"none", "queued", "extract"}
                /\ job[f].sig \in 0 .. MaxVersion /\ job[f].ver \in 0 .. MaxVersion
                /\ job[f].todo \subseteq Udis /\ job[f].old \in BOOLEAN
           /\ \A u \in Udis :
                /\ index[u] \in Text /\ index[u].sig \in 0 .. MaxVersion
                /\ index[u].ver \in 0 .. MaxVersion
           /\ \A d \in flight :
                /\ d \in Doc /\ d.udi \in Udis /\ d.sig \in Versions /\ d.ver \in 0 .. MaxVersion
                /\ d.plus \in BOOLEAN
           /\ removed \subseteq Files /\ modified \subseteq Files /\ del \subseteq Files
           /\ mod \subseteq Files /\ plus \subseteq Files /\ candidates \subseteq Files
           /\ deletes \subseteq Files /\ orphans \subseteq Files
           /\ carried \subseteq Files /\ cut \subseteq Files
           /\ unseen \subseteq Udis
  <1>1. \A f \in Files : disk[f] \in [there : BOOLEAN, ver : Versions] /\ job[f] \in Job
    BY DEF TypeOK
  <1>2. MaxVersion \in Nat \ {0} /\ \A v \in Versions : v \in Nat \ {0}
    BY FilesAssumption DEF Versions
  <1>3. \A u \in Udis : index[u] \in Text
    BY DEF TypeOK
  <1>4. \A d \in flight : d \in Doc
    BY DEF TypeOK
  <1>5. \A S \in {removed, modified, del, mod, plus, candidates, deletes, orphans, carried, cut} :
            S \in SUBSET Files
    BY DEF TypeOK
  <1>6. unseen \subseteq Udis
    BY DEF TypeOK
  <1>7. QED
    BY <1>1, <1>2, <1>3, <1>4, <1>5, <1>6 DEF Job, Text, Doc

-----------------------------------------------------------------------------
(* A file that a step does not concern.                                    *)

Same(g) ==
    /\ disk'[g] = disk[g] /\ job'[g] = job[g] /\ Flying(g)' = Flying(g)
    /\ \A u \in {g} \cup KidsOf(g) :
        /\ index'[u] = index[u]
        /\ (u \in unseen' <=> u \in unseen) /\ (u \in plus' <=> u \in plus)

SameLists(g) ==
    /\ (g \in removed' <=> g \in removed) /\ (g \in modified' <=> g \in modified)
    /\ (g \in del' <=> g \in del) /\ (g \in deletes' <=> g \in deletes)
    /\ (g \in mod' <=> g \in mod) /\ (g \in orphans' <=> g \in orphans)
    /\ (g \in candidates' <=> g \in candidates) /\ (g \in carried' <=> g \in carried)
    /\ (g \in cut' <=> g \in cut)

LEMMA SameFlight ==
    ASSUME NEW g \in Files, Same(g)
    PROVE  /\ \A u \in {g} \cup KidsOf(g) : InFlight(u)' <=> InFlight(u)
           /\ (\E d \in flight' : d.udi = g /\ d.plus) <=> (\E d \in flight : d.udi = g /\ d.plus)
           /\ Failing(g)' <=> Failing(g)
           /\ \A s : OwnIs(g, s)' <=> OwnIs(g, s)
  <1>1. \A u \in {g} \cup KidsOf(g) : FileOf(u) = g
    BY FilesAndKids
  <1>2. \A d : FileOf(d.udi) = g => (d \in flight' <=> d \in flight)
    BY DEF Same, Flying, FileOf
  <1>3. \A u \in {g} \cup KidsOf(g) : InFlight(u)' <=> InFlight(u)
    BY <1>1, <1>2 DEF InFlight
  <1>4. (\E d \in flight' : d.udi = g /\ d.plus) <=> (\E d \in flight : d.udi = g /\ d.plus)
    BY <1>1, <1>2
  <1>5. \A s : (\E d \in flight' : d.udi = g /\ ~d.plus /\ d.sig = s)
                 <=> (\E d \in flight : d.udi = g /\ ~d.plus /\ d.sig = s)
    BY <1>1, <1>2
  <1>6. index'[g] = index[g] /\ (g \in plus' <=> g \in plus) /\ (InFlight(g)' <=> InFlight(g))
    BY <1>3 DEF Same
  <1>7. Failing(g)' <=> Failing(g)
    BY <1>4, <1>6 DEF Failing
  <1>8. \A s : OwnIs(g, s)' <=> OwnIs(g, s)
    BY <1>5, <1>6 DEF OwnIs
  <1>9. QED
    BY <1>3, <1>4, <1>7, <1>8

LEMMA Untouched ==
    ASSUME TypeOK, NEW g \in Files, FileOK(g), Same(g), SameLists(g),
           pc' = pc, ret' = ret, writer' = writer \/ ~writer',
           queues' = queues \/ queues' # "ok"
    PROVE  FileOK(g)'
  <1>1. /\ \A u \in {g} \cup KidsOf(g) : (InFlight(u)' <=> InFlight(u)) /\ (Indexed(u)' <=> Indexed(u))
        /\ Extracting(g)' <=> Extracting(g)
    BY SameFlight DEF Same, Indexed, Extracting
  <1>2. Versioned(g)'
    BY <1>1 DEF FileOK, Versioned, Same, NoText, Indexed
  <1>3. Timely(g)'
    BY DEF FileOK, Timely, Same, SameLists
  <1>4. Extracted(g)'
    <2>1. SUFFICES ASSUME Extracting(g), job[g].ver # 0 PROVE Extracted(g)'
      BY <1>1 DEF FileOK, Extracted, Same
    <2>2. Parts[g][job[g].ver] \subseteq KidsOf(g)
      BY <2>1, Types, FilesAndKids DEF Versions
    <2>3. queues' = "ok" /\ writer' => queues = "ok" /\ writer
      OBVIOUS
    <2>4. QED
      BY <1>1, <2>1, <2>2, <2>3 DEF FileOK, Extracted, Same, SameLists
  <1>5. Rooted(g)'
    BY <1>1 DEF FileOK, Rooted, Same, SameLists
  <1>6. UpToDateIsComplete(g)'
    <2>1. SUFFICES ASSUME Live, g \notin cut, ~Extracting(g), OwnIs(g, disk[g].ver)
                   PROVE  Complete(g, disk[g].ver)'
      BY <1>1, SameFlight DEF UpToDateIsComplete, Live, Same, SameLists
    <2>2. Complete(g, disk[g].ver) /\ Parts[g][disk[g].ver] \subseteq KidsOf(g)
      BY <2>1, Types, FilesAndKids DEF FileOK, UpToDateIsComplete
    <2>3. OrphansToGo(g)' <=> OrphansToGo(g)
      BY DEF OrphansToGo, SameLists
    <2>4. QED
      BY <1>1, <2>2, <2>3 DEF Complete, Same
  <1>7. ProcessedIsNow(g)'
    <2>1. Parts[g][disk[g].ver] \subseteq KidsOf(g)
      BY Types, FilesAndKids
    <2>2. QED
      BY <1>1, <2>1, SameFlight DEF FileOK, ProcessedIsNow, Same, SameLists, Live
  <1>8. GoneIsEmpty(g)'
    BY <1>1 DEF FileOK, GoneIsEmpty, Same, SameLists, Live
  <1>9. FailedIsSeen(g)'
    BY <1>1, SameFlight DEF FileOK, FailedIsSeen, Same
  <1>10. NewIsProper(g)'
    BY <1>1, SameFlight DEF FileOK, NewIsProper, Same, SameLists
  <1>11. QED
    BY <1>2, <1>3, <1>4, <1>5, <1>6, <1>7, <1>8, <1>9, <1>10 DEF FileOK

-----------------------------------------------------------------------------
(* The types.                                                              *)

Trees == [Files -> [there : BOOLEAN, ver : Versions]]
Stage == {"idle", "delete", "deleted", "index", "drain", "orphans", "purge", "off"}

LEMMA TypedNext ==
    ASSUME disk' \in Trees,
           removed' \subseteq Files, modified' \subseteq Files, del' \subseteq Files,
           mod' \subseteq Files, plus' \subseteq Files, candidates' \subseteq Files,
           deletes' \subseteq Files, orphans' \subseteq Files, carried' \subseteq Files,
           cut' \subseteq Files, index' \in [Udis -> Text], unseen' \subseteq Udis,
           pc' \in Stage,
           purging' \in BOOLEAN, ret' \in BOOLEAN, stop' \in BOOLEAN, writer' \in BOOLEAN,
           job' \in [Files -> Job], flight' \subseteq Doc, queues' \in {"ok", "split", "intern"}
    PROVE  TypeOK'
  BY DEF TypeOK, Trees, Stage

LEMMA TypedNow ==
    ASSUME TypeOK
    PROVE  /\ disk \in Trees
           /\ removed \subseteq Files /\ modified \subseteq Files /\ del \subseteq Files
           /\ mod \subseteq Files /\ plus \subseteq Files /\ candidates \subseteq Files
           /\ deletes \subseteq Files /\ orphans \subseteq Files /\ carried \subseteq Files
           /\ cut \subseteq Files /\ index \in [Udis -> Text] /\ unseen \subseteq Udis
           /\ pc \in Stage
           /\ purging \in BOOLEAN /\ ret \in BOOLEAN /\ stop \in BOOLEAN /\ writer \in BOOLEAN
           /\ job \in [Files -> Job] /\ flight \subseteq Doc /\ queues \in {"ok", "split", "intern"}
  BY Types DEF TypeOK, Trees, Stage

LEMMA NoJobIsJob == NoJob \in Job /\ NoText \in Text
  BY FilesAssumption DEF NoJob, Job, NoText, Text

LEMMA MainTyped ==
    ASSUME TypeOK, Main
    PROVE  TypeOK'
  <1> USE DEF tree, store, call, pipe
  <1>1. CASE StartCalls
    BY <1>1, TypedNow, TypedNext DEF StartCalls, Stage
  <1>2. ASSUME NEW f \in Files, PurgeFile(f) PROVE TypeOK'
    BY <1>2, TypedNow, TypedNext DEF PurgeFile
  <1>3. ASSUME NEW f \in Files, ProcessOne(f) PROVE TypeOK'
    <2>1. job' \in [Files -> Job]
      <3>1. disk[f].ver \in 0 .. MaxVersion
        BY Types DEF Versions
      <3>2. [NoJob EXCEPT !.at = "queued", !.sig = disk[f].ver] \in Job
        BY <3>1, NoJobIsJob DEF Job
      <3>3. QED
        BY <1>3, <3>2, TypedNow DEF ProcessOne
    <2>2. QED
      BY <1>3, <2>1, TypedNow, TypedNext DEF ProcessOne
  <1>4. CASE PurgeFilesFails \/ PurgeFilesEnds
    BY <1>4, TypedNow, TypedNext DEF PurgeFilesFails, PurgeFilesEnds, Stage
  <1>5. CASE StartIndexFiles
    BY <1>5, TypedNow, TypedNext DEF StartIndexFiles, Stage
  <1>6. CASE ProcessOneFails \/ ListEnds \/ OrphansEnd
    BY <1>6, TypedNow, TypedNext DEF ProcessOneFails, ListEnds, OrphansEnd, Stage
  <1>7. CASE Drained
    <2>1. orphans' \subseteq Files /\ cut' \subseteq Files
      BY <1>7, TypedNow DEF Drained, PurgeOrphans
    <2>2. QED
      BY <1>7, <2>1, TypedNow, TypedNext DEF Drained, Stage
  <1>8. CASE Purge
    <2>1. index' \in [Udis -> Text]
      BY <1>8, TypedNow, NoJobIsJob DEF Purge
    <2>2. QED
      BY <1>8, <2>1, TypedNow, TypedNext DEF Purge, Stage
  <1>9. QED
    BY <1>1, <1>2, <1>3, <1>4, <1>5, <1>6, <1>7, <1>8 DEF Main

LEMMA WorkerTyped ==
    ASSUME TypeOK, NEW f \in Files, FileOK(f), Worker(f)
    PROVE  TypeOK'
  <1> USE DEF tree, store, call
  <1>1. job[f] \in Job /\ job \in [Files -> Job] /\ job[f].todo \subseteq Udis
    BY Types, TypedNow
  <1>2. [job EXCEPT ![f] = NoJob] \in [Files -> Job]
    BY <1>1, NoJobIsJob
  <1>10. job[f].at = "extract" => job[f].sig \in Versions /\ job[f].ver \in 0 .. MaxVersion
    BY Types DEF FileOK, Versioned, Versions
  <1>3. CASE UpToDate(f)
    BY <1>2, <1>3, TypedNow, TypedNext DEF UpToDate
  <1>4. CASE OutOfDate(f)
    <2>1. /\ (IF disk[f].there THEN disk[f].ver ELSE 0) \in 0 .. MaxVersion
          /\ {f} \cup PartsNow(f) \subseteq Udis /\ Indexed(f) \in BOOLEAN
      BY Types, FilesAndKids, FilesAssumption DEF Versions, PartsNow, Indexed
    <2>2. job' \in [Files -> Job]
      BY <1>1, <1>4, <2>1 DEF OutOfDate, Job
    <2>3. QED
      BY <1>4, <2>2, TypedNow, TypedNext DEF OutOfDate
  <1>5. ASSUME NEW u \in Udis, Launch(f, u) PROVE TypeOK'
    <2>1. job' \in [Files -> Job]
      BY <1>1, <1>2, <1>5 DEF Launch, Job
    <2>2. candidates' \subseteq Files /\ cut' \subseteq Files
      BY <1>5, TypedNow DEF Launch, Recorded
    <2>3. flight' \subseteq Doc
      <3>1. job[f].sig \in Versions /\ job[f].ver \in 0 .. MaxVersion
        BY <1>5, <1>10 DEF Launch
      <3>2. QED
        <4>1. [udi |-> u, sig |-> job[f].sig, ver |-> job[f].ver, plus |-> FALSE] \in Doc
          BY <3>1 DEF Doc
        <4>2. QED
          BY <4>1, <1>5, TypedNow DEF Launch, Launched
    <2>4. QED
      BY <1>5, <2>1, <2>2, <2>3, TypedNow, TypedNext DEF Launch
  <1>6. CASE FailEarly(f)
    <2>1. flight' \subseteq Doc
      <3>1. job[f].sig \in Versions /\ job[f].ver \in 0 .. MaxVersion /\ f \in Udis
        BY <1>6, <1>10, FilesAndKids DEF FailEarly
      <3>2. QED
        <4>1. [udi |-> f, sig |-> job[f].sig, ver |-> job[f].ver, plus |-> TRUE] \in Doc
          BY <3>1 DEF Doc
        <4>2. QED
          BY <4>1, <1>6, TypedNow DEF FailEarly, Launched
    <2>2. QED
      BY <1>2, <1>6, <2>1, TypedNow, TypedNext DEF FailEarly
  <1>7. CASE FailLate(f)
    BY <1>2, <1>7, TypedNow, TypedNext DEF FailLate
  <1>8. CASE JobDropped(f)
    BY <1>2, <1>8, TypedNow, TypedNext DEF JobDropped
  <1>9. QED
    BY <1>3, <1>4, <1>5, <1>6, <1>7, <1>8 DEF Worker

LEMMA WriterTyped ==
    ASSUME TypeOK, \A f \in Files : FileOK(f), Writer \/ WriterQuits
    PROVE  TypeOK'
  <1> USE DEF tree, store, call
  <1>1. ASSUME NEW d \in flight, Write(d) PROVE TypeOK'
    <2>1. d.udi \in Udis /\ [sig |-> d.sig, ver |-> d.ver] \in Text
      BY Types DEF Text, Versions
    <2>2. index' \in [Udis -> Text]
      BY <1>1, <2>1, TypedNow DEF Write
    <2>3. plus' \subseteq Files
      <3>1. d.plus => d.udi \in Files
        BY FilesAndKids, Types DEF FileOK, Versioned, Flying
      <3>2. QED
        BY <1>1, <3>1, TypedNow DEF Write
    <2>4. QED
      BY <1>1, <2>2, <2>3, TypedNow, TypedNext DEF Write
  <1>2. ASSUME NEW f \in Files, DeleteFile(f) \/ DeleteOrphans(f) PROVE TypeOK'
    <2>1. index' \in [Udis -> Text]
      BY <1>2, TypedNow, NoJobIsJob DEF DeleteFile, DeleteOrphans
    <2>2. QED
      BY <1>2, <2>1, TypedNow, TypedNext DEF DeleteFile, DeleteOrphans
  <1>3. CASE Dropped
    <2>1. \A d \in flight : FileOf(d.udi) \in Files
      BY Types, FilesAndKids
    <2>2. QED
      BY <1>3, <2>1, TypedNow, TypedNext DEF Dropped
  <1>4. CASE WriterQuits
    <2>1. \A d \in flight : FileOf(d.udi) \in Files
      BY Types, FilesAndKids
    <2>2. cut' \subseteq Files /\ flight' \subseteq flight
      BY <1>4, <2>1, TypedNow DEF WriterQuits
    <2>3. QED
      BY <1>4, <2>2, TypedNow, TypedNext DEF WriterQuits
  <1>5. QED
    BY <1>1, <1>2, <1>3, <1>4 DEF Writer

LEMMA TreeTyped ==
    ASSUME TypeOK, NEW f \in Files, Modify(f) \/ Remove(f) \/ Interrupt
    PROVE  TypeOK'
  <1> USE DEF tree, store, call, pipe
  <1>1. CASE Modify(f)
    <2>1. disk[f].ver + 1 \in Versions
      BY <1>1, Types, FilesAssumption DEF Modify, Versions
    <2>2. disk' \in Trees
      BY <1>1, <2>1, TypedNow DEF Modify, Trees
    <2>3. QED
      BY <1>1, <2>2, TypedNow, TypedNext DEF Modify
  <1>2. CASE Remove(f)
    <2>1. disk' \in Trees
      BY <1>2, TypedNow DEF Remove, Trees
    <2>2. QED
      BY <1>2, <2>1, TypedNow, TypedNext DEF Remove
  <1>3. CASE Interrupt
    BY <1>3, TypedNow, TypedNext DEF Interrupt
  <1>4. QED
    BY <1>1, <1>2, <1>3

-----------------------------------------------------------------------------
(* The tree changes.                                                       *)

LEMMA TreeStep ==
    ASSUME Updates, NEW f \in Files, Modify(f) \/ Remove(f)
    PROVE  Stages' /\ (\A g \in Files : FileOK(g)') /\ Outcome'
  <1> USE DEF tree, store, call, pipe
  <1>1. TypeOK /\ Stages /\ FileOK(f) /\ \A g \in Files : FileOK(g)
    BY DEF Updates
  <1>2. UNCHANGED <<store, call, stop, pipe, carried, cut>>
    BY DEF Modify, Remove
  <1>3. Stages'
    BY <1>1, <1>2 DEF Stages
  <1>4. disk \in Trees /\ disk[f].ver \in Nat \ {0}
    BY <1>1, TypedNow, Types
  <1>5. ASSUME NEW g \in Files, g # f PROVE FileOK(g)'
    <2>1. Same(g) /\ SameLists(g)
      BY <1>2, <1>4, <1>5 DEF Modify, Remove, Same, SameLists, Trees, Flying
    <2>2. QED
      BY <1>1, <1>2, <2>1, Untouched
  <1>6. \A u \in Udis : (InFlight(u)' <=> InFlight(u)) /\ (Indexed(u)' <=> Indexed(u))
    BY <1>2 DEF InFlight, Indexed
  <1>7. /\ Extracting(f)' <=> Extracting(f)
        /\ Failing(f)' <=> Failing(f)
        /\ \A s : OwnIs(f, s)' <=> OwnIs(f, s)
    BY <1>2, <1>6, FilesAndKids DEF Extracting, Failing, OwnIs, InFlight
  <1>8. Extracted(f)' /\ Rooted(f)' /\ FailedIsSeen(f)' /\ NewIsProper(f)'
    BY <1>1, <1>2, <1>7 DEF FileOK, Extracted, Rooted, FailedIsSeen, NewIsProper, Extracting, InFlight,
                            Indexed, Flying
  <1>9. ASSUME Modify(f) PROVE FileOK(f)'
    <2>1. disk'[f] = [there |-> TRUE, ver |-> disk[f].ver + 1] /\ f \in modified' /\ removed' = removed
      BY <1>4, <1>9 DEF Modify, Trees
    <2>2. Versioned(f)'
      <3>1. \A n \in Nat : n <= disk[f].ver => n <= disk'[f].ver
        BY <2>1, <1>4
      <3>2. index[f].sig \in Nat /\ index[f].ver \in Nat
        BY <1>1, Types, FilesAndKids
      <3>3. \A k \in KidsOf(f) : index[k].ver \in Nat
        BY <1>1, Types, FilesAndKids
      <3>4. \A d \in flight : d.sig \in Nat /\ d.ver \in Nat
        BY <1>1, Types DEF Versions
      <3>5. job[f].sig \in Nat /\ job[f].ver \in Nat
        BY <1>1, Types
      <3>6. QED
        BY <1>1, <1>2, <3>1, <3>2, <3>3, <3>4, <3>5 DEF FileOK, Versioned, Flying, Indexed, Extracting
    <2>3. Timely(f)'
      BY <1>1, <1>2, <2>1 DEF FileOK, Timely, Flying
    <2>4. UpToDateIsComplete(f)'
      <3>1. ~OwnIs(f, disk[f].ver + 1)
        <4>1. \A d \in flight : d.udi = f => d \in Flying(f)
          BY FilesAndKids DEF Flying
        <4>2. index[f].sig <= disk[f].ver /\ index[f].sig \in Nat
          BY <1>1, Types, FilesAndKids DEF FileOK, Versioned
        <4>3. \A d \in flight : d.udi = f => d.sig <= disk[f].ver /\ d.sig \in Nat
          BY <1>1, <4>1, Types DEF FileOK, Versioned, Versions
        <4>4. QED
          BY <1>4, <4>2, <4>3 DEF OwnIs
      <3>2. QED
        BY <2>1, <3>1, <1>7 DEF UpToDateIsComplete
    <2>5. ProcessedIsNow(f)' /\ GoneIsEmpty(f)'
      BY <2>1 DEF ProcessedIsNow, GoneIsEmpty
    <2>6. QED
      BY <1>8, <2>2, <2>3, <2>4, <2>5 DEF FileOK
  <1>10. ASSUME Remove(f) PROVE FileOK(f)'
    <2>1. disk'[f].there = FALSE /\ disk'[f].ver = disk[f].ver /\ f \in removed' /\ modified' = modified
      BY <1>4, <1>10 DEF Remove, Trees
    <2>2. Versioned(f)'
      BY <1>1, <1>2, <2>1 DEF FileOK, Versioned, Flying, Indexed, Extracting
    <2>3. Timely(f)'
      BY <1>1, <1>2, <2>1 DEF FileOK, Timely, Flying
    <2>4. UpToDateIsComplete(f)'
      BY <1>1, <1>2, <1>7, <2>1 DEF FileOK, UpToDateIsComplete, Live, Complete, Flying, InFlight, Indexed,
                                    OrphansToGo
    <2>5. ProcessedIsNow(f)' /\ GoneIsEmpty(f)'
      BY <2>1 DEF ProcessedIsNow, GoneIsEmpty
    <2>6. QED
      BY <1>8, <2>2, <2>3, <2>4, <2>5 DEF FileOK
  <1>11. Outcome'
    <2>1. SUFFICES ASSUME pc = "off" /\ purging /\ ret /\ ~stop, NEW g \in Files, Settled(g)'
                   PROVE  Exact(g)' \/ Excused(g)'
      BY <1>2 DEF Outcome
    <2>2. g # f /\ Settled(g) /\ disk'[g] = disk[g]
      BY <2>1, <1>2, <1>4 DEF Settled, Modify, Remove, Trees
    <2>3. Exact(g) \/ Excused(g)
      BY <2>1, <2>2 DEF Updates, Outcome
    <2>4. QED
      BY <2>2, <2>3, <1>2 DEF Exact, Excused, PartsNow, Indexed
  <1>12. QED
    BY <1>3, <1>5, <1>9, <1>10, <1>11

-----------------------------------------------------------------------------
(* The main thread.                                                        *)

(* A step that changes no document and no job.                             *)
LEMMA SameData ==
    ASSUME NEW f \in Files, FileOK(f),
           UNCHANGED <<disk, job, flight, index, plus, unseen, queues>>,
           f \in cut => f \in cut', writer' => writer \/ job[f].at = "none"
    PROVE  /\ Versioned(f)' /\ Extracted(f)' /\ FailedIsSeen(f)'
           /\ \A u : (InFlight(u)' <=> InFlight(u)) /\ (Indexed(u)' <=> Indexed(u))
           /\ Flying(f)' = Flying(f)
           /\ Extracting(f)' <=> Extracting(f)
           /\ Failing(f)' <=> Failing(f)
           /\ \A s : OwnIs(f, s)' <=> OwnIs(f, s)
  <1>1. /\ \A u : (InFlight(u)' <=> InFlight(u)) /\ (Indexed(u)' <=> Indexed(u))
        /\ Flying(f)' = Flying(f)
        /\ Extracting(f)' <=> Extracting(f)
    BY DEF InFlight, Indexed, Flying, Extracting
  <1>2. (Failing(f)' <=> Failing(f)) /\ \A s : (OwnIs(f, s)' <=> OwnIs(f, s))
    BY <1>1 DEF Failing, OwnIs
  <1>3. Versioned(f)' /\ FailedIsSeen(f)'
    BY <1>1 DEF FileOK, Versioned, FailedIsSeen
  <1>4. Extracted(f)'
    <2>1. CASE job[f].at = "none"
      BY <2>1 DEF Extracted, Extracting
    <2>2. CASE job[f].at # "none"
      BY <1>1, <2>2 DEF FileOK, Extracted
    <2>3. QED
      BY <2>1, <2>2
  <1>5. QED
    BY <1>1, <1>2, <1>3, <1>4

(* And no list that matters: the stage may change.                         *)
LEMMA SameFiles ==
    ASSUME NEW f \in Files, FileOK(f),
           UNCHANGED <<disk, job, flight, index, plus, unseen, queues, removed, modified>>,
           f \in cut => f \in cut', writer' => writer \/ job[f].at = "none",
           f \in mod' <=> f \in mod,
           f \in del' \cup deletes' <=> f \in del \cup deletes,
           Live' => Live, pc = "off" => pc' = "off", OrphansToGo(f) => OrphansToGo(f)' \/ ~Live' \/ f \in cut',
           NewIsProper(f)'
    PROVE  FileOK(f)'
  <1>1. /\ Versioned(f)' /\ Extracted(f)' /\ FailedIsSeen(f)'
        /\ \A u : (InFlight(u)' <=> InFlight(u)) /\ (Indexed(u)' <=> Indexed(u))
        /\ Flying(f)' = Flying(f)
        /\ Extracting(f)' <=> Extracting(f)
        /\ Failing(f)' <=> Failing(f)
        /\ \A s : OwnIs(f, s)' <=> OwnIs(f, s)
    BY SameData
  <1>2. Timely(f)'
    BY <1>1 DEF FileOK, Timely
  <1>3. Rooted(f)'
    BY <1>1 DEF FileOK, Rooted
  <1>4. UpToDateIsComplete(f)'
    BY <1>1 DEF FileOK, UpToDateIsComplete, Complete
  <1>5. ProcessedIsNow(f)'
    BY <1>1 DEF FileOK, ProcessedIsNow
  <1>6. GoneIsEmpty(f)'
    BY <1>1 DEF FileOK, GoneIsEmpty
  <1>7. QED
    BY <1>1, <1>2, <1>3, <1>4, <1>5, <1>6 DEF FileOK

LEMMA StageStep ==
    ASSUME Updates, \/ PurgeFilesFails \/ PurgeFilesEnds \/ StartIndexFiles \/ ProcessOneFails
                    \/ ListEnds \/ Drained \/ OrphansEnd \/ Interrupt
    PROVE  Stages' /\ (\A g \in Files : FileOK(g)') /\ Outcome'
  <1> USE DEF tree, store, call, pipe
  <1>1. TypeOK /\ Stages /\ \A g \in Files : FileOK(g)
    BY DEF Updates
  <1>2. /\ UNCHANGED <<disk, job, flight, index, plus, unseen, queues, removed, modified, mod,
                       del, deletes, purging, candidates>>
        /\ cut \subseteq cut' /\ (Drained \/ cut' = cut)
    BY DEF PurgeOrphans, PurgeFilesFails, PurgeFilesEnds, StartIndexFiles, ProcessOneFails, ListEnds, Drained,
           OrphansEnd, Interrupt
  <1>3. ret \in BOOLEAN /\ stop \in BOOLEAN
    BY <1>1, TypedNow
  <1>4. Stages'
    <2>1. CASE Interrupt
      BY <1>1, <1>2, <2>1 DEF Stages, Interrupt
    <2>2. CASE Drained
      BY <1>1, <1>2, <2>2 DEF Stages, Drained, PurgeOrphans
    <2>3. CASE StartIndexFiles
      BY <1>1, <1>2, <2>3 DEF Stages, StartIndexFiles
    <2>4. CASE PurgeFilesFails \/ PurgeFilesEnds
      BY <1>1, <1>2, <2>4 DEF Stages, PurgeFilesFails, PurgeFilesEnds
    <2>5. CASE ProcessOneFails \/ ListEnds \/ OrphansEnd
      BY <1>1, <1>2, <2>5 DEF Stages, ProcessOneFails, ListEnds, OrphansEnd
    <2>6. QED
      BY <2>1, <2>2, <2>3, <2>4, <2>5
  <1>5. ASSUME NEW f \in Files PROVE FileOK(f)'
    <2>1. Live' => Live
      BY DEF Live, PurgeFilesFails, PurgeFilesEnds, StartIndexFiles, ProcessOneFails, ListEnds, Drained,
             OrphansEnd, Interrupt
    <2>2. pc # "off"
      BY DEF PurgeFilesFails, PurgeFilesEnds, StartIndexFiles, ProcessOneFails, ListEnds, Drained,
             OrphansEnd, Interrupt
    <2>3. OrphansToGo(f) => OrphansToGo(f)' \/ ~Live' \/ f \in cut'
      <3>1. CASE Drained
        BY <1>1, <1>2, <1>3, <3>1 DEF OrphansToGo, Live, Stages, Drained, PurgeOrphans
      <3>2. CASE ~Drained
        BY <1>1, <1>2, <1>3, <3>2 DEF OrphansToGo, Live, Stages, PurgeFilesFails, PurgeFilesEnds,
                  StartIndexFiles, ProcessOneFails, ListEnds, OrphansEnd, Interrupt
      <3>3. QED
        BY <3>1, <3>2
    <2>4. NewIsProper(f)'
      <3>1. CASE StartIndexFiles
        BY <1>2, <3>1 DEF NewIsProper, StartIndexFiles
      <3>2. CASE ~StartIndexFiles
        <4>1. carried' = carried /\ writer' = writer
          BY <3>2 DEF PurgeFilesFails, PurgeFilesEnds, ProcessOneFails, ListEnds, Drained,
                      OrphansEnd, Interrupt
        <4>2. pc' \in {"index", "drain", "orphans"} => pc \in {"index", "drain", "orphans"}
          BY <3>2 DEF PurgeFilesFails, PurgeFilesEnds, ProcessOneFails, ListEnds, Drained,
                      OrphansEnd, Interrupt
        <4>3. Failing(f)' <=> Failing(f)
          BY <1>1, <1>2, <4>1, SameData
        <4>4. /\ ~writer' \/ cut' = cut \/ ~ret
              /\ ret' => ret
              /\ ret' \in BOOLEAN
          <5>1. CASE Drained
            BY <1>3, <5>1 DEF Drained, PurgeOrphans
          <5>2. CASE PurgeFilesFails \/ ProcessOneFails
            BY <1>3, <5>2 DEF PurgeFilesFails, ProcessOneFails
          <5>3. CASE PurgeFilesEnds \/ ListEnds \/ OrphansEnd \/ Interrupt
            BY <1>3, <5>3 DEF PurgeFilesEnds, ListEnds, OrphansEnd, Interrupt
          <5>4. QED
            BY <3>2, <5>1, <5>2, <5>3
        <4>5. QED
          BY <1>1, <1>2, <1>3, <4>1, <4>2, <4>3, <4>4 DEF FileOK, NewIsProper
      <3>3. QED
        BY <3>1, <3>2
    <2>5. writer' => writer \/ job[f].at = "none"
      <3>1. CASE StartIndexFiles
        BY <1>1, <3>1 DEF Stages, StartIndexFiles, NoJob
      <3>2. CASE ~StartIndexFiles
        BY <3>2 DEF PurgeFilesFails, PurgeFilesEnds, ProcessOneFails, ListEnds, Drained,
                    OrphansEnd, Interrupt
      <3>3. QED
        BY <3>1, <3>2
    <2>6. QED
      BY <1>1, <1>2, <2>1, <2>2, <2>3, <2>4, <2>5, SameFiles
  <1>6. Outcome'
    BY <1>1, <1>2, <1>3 DEF Outcome, Stages, PurgeFilesFails, PurgeFilesEnds, StartIndexFiles,
            ProcessOneFails, ListEnds, Drained, OrphansEnd, Interrupt
  <1>7. QED
    BY <1>4, <1>5, <1>6

LEMMA CallsStart ==
    ASSUME Updates, StartCalls
    PROVE  Stages' /\ (\A g \in Files : FileOK(g)') /\ Outcome'
  <1> USE DEF tree, store, call, pipe
  <1>1. TypeOK /\ Stages /\ \A g \in Files : FileOK(g)
    BY DEF Updates
  <1>2. /\ pc = "idle" /\ pc' = "delete" /\ ret /\ mod = {} /\ del = {} /\ deletes = {} /\ orphans = {}
        /\ flight = {} /\ ~purging
    BY <1>1 DEF StartCalls, Stages
  <1>3. Stages' /\ Outcome'
    BY <1>1, <1>2 DEF StartCalls, Stages, Outcome
  <1>4. ASSUME NEW f \in Files PROVE FileOK(f)'
    <2>1. /\ Versioned(f)' /\ Extracted(f)' /\ FailedIsSeen(f)'
          /\ \A u : (InFlight(u)' <=> InFlight(u)) /\ (Indexed(u)' <=> Indexed(u))
          /\ Flying(f)' = Flying(f)
          /\ Extracting(f)' <=> Extracting(f)
          /\ Failing(f)' <=> Failing(f)
          /\ \A s : OwnIs(f, s)' <=> OwnIs(f, s)
      <3>1. job[f].at = "none"
        BY <1>1, <1>2 DEF Stages, NoJob
      <3>2. QED
        BY <1>1, <3>1, SameData DEF StartCalls
    <2>2. job[f].at = "none" /\ Flying(f) = {}
      BY <1>1, <1>2 DEF Stages, Flying, NoJob
    <2>3. Timely(f)'
      BY <1>1, <1>2, <2>1, <2>2 DEF FileOK, Timely, StartCalls
    <2>4. Rooted(f)'
      BY <1>1, <1>2, <2>1 DEF FileOK, Rooted, StartCalls
    <2>5. UpToDateIsComplete(f)'
      BY <1>1, <1>2, <2>1 DEF FileOK, UpToDateIsComplete, Complete, Live, OrphansToGo, StartCalls
    <2>6. ProcessedIsNow(f)'
      BY <1>1, <1>2, <2>1 DEF FileOK, ProcessedIsNow, Live, StartCalls
    <2>7. GoneIsEmpty(f)'
      BY <1>1, <1>2, <2>1 DEF FileOK, GoneIsEmpty, Live, StartCalls
    <2>8. NewIsProper(f)'
      BY <1>2 DEF NewIsProper
    <2>9. QED
      BY <2>1, <2>3, <2>4, <2>5, <2>6, <2>7, <2>8 DEF FileOK
  <1>5. QED
    BY <1>3, <1>4

LEMMA FilePurged ==
    ASSUME Updates, NEW f \in Files, PurgeFile(f)
    PROVE  Stages' /\ (\A g \in Files : FileOK(g)') /\ Outcome'
  <1> USE DEF tree, store, call, pipe
  <1>1. TypeOK /\ Stages /\ \A g \in Files : FileOK(g)
    BY DEF Updates
  <1>2. /\ pc = "delete" /\ pc' = pc /\ flight = {} /\ job[f].at = "none" /\ orphans = {}
        /\ UNCHANGED <<disk, job, flight, index, plus, unseen, queues, cut, removed, modified, mod,
                       orphans, candidates, carried, writer, ret>>
    BY <1>1 DEF PurgeFile, Stages, NoJob
  <1>3. Stages' /\ Outcome'
    BY <1>1, <1>2 DEF PurgeFile, Stages, Outcome
  <1>4. ASSUME NEW g \in Files, g # f PROVE FileOK(g)'
    <2>1. Same(g) /\ SameLists(g)
      BY <1>2, <1>4 DEF PurgeFile, Same, SameLists, Flying
    <2>2. QED
      BY <1>1, <1>2, <2>1, Untouched
  <1>5. FileOK(f)'
    <2>1. NewIsProper(f)'
      BY <1>2 DEF NewIsProper
    <2>2. CASE Indexed(f)
      <3>1. f \in del' \cup deletes' <=> f \in del \cup deletes
        BY <2>2 DEF PurgeFile
      <3>2. QED
        BY <1>1, <1>2, <2>1, <3>1, SameFiles DEF Live, OrphansToGo
    <2>3. CASE ~Indexed(f)
      <3>1. /\ Versioned(f)' /\ Extracted(f)' /\ FailedIsSeen(f)'
            /\ \A u : (InFlight(u)' <=> InFlight(u)) /\ (Indexed(u)' <=> Indexed(u))
            /\ Flying(f)' = Flying(f)
            /\ Extracting(f)' <=> Extracting(f)
            /\ Failing(f)' <=> Failing(f)
            /\ \A s : OwnIs(f, s)' <=> OwnIs(f, s)
        BY <1>1, <1>2, SameData
      <3>2. deletes' = deletes /\ del' = del \ {f}
        BY <2>3 DEF PurgeFile
      <3>3. Timely(f)'
        BY <1>1, <1>2, <3>1, <3>2 DEF FileOK, Timely
      <3>4. Rooted(f)'
        BY <1>1, <1>2, <3>1 DEF FileOK, Rooted
      <3>5. UpToDateIsComplete(f)'
        BY <1>1, <1>2, <3>1 DEF FileOK, UpToDateIsComplete, Complete, Live, OrphansToGo
      <3>6. ProcessedIsNow(f)'
        BY <1>1, <1>2, <3>1 DEF FileOK, ProcessedIsNow, Live
      <3>7. GoneIsEmpty(f)'
        <4>1. f \in cut \/ \A k \in KidsOf(f) : ~Indexed(k)
          BY <1>1, <1>2, <2>3 DEF FileOK, Rooted, Extracting, InFlight
        <4>2. QED
          BY <1>2, <2>3, <3>1, <4>1 DEF GoneIsEmpty
      <3>8. QED
        BY <2>1, <3>1, <3>3, <3>4, <3>5, <3>6, <3>7 DEF FileOK
    <2>4. QED
      BY <2>2, <2>3
  <1>6. QED
    BY <1>3, <1>4, <1>5

LEMMA OneProcessed ==
    ASSUME Updates, NEW f \in Files, ProcessOne(f)
    PROVE  Stages' /\ (\A g \in Files : FileOK(g)') /\ Outcome'
  <1> USE DEF tree, store, call, pipe
  <1>1. TypeOK /\ Stages /\ \A g \in Files : FileOK(g)
    BY DEF Updates
  <1>2. /\ pc = "index" /\ pc' = pc /\ del = {} /\ deletes = {} /\ f \in mod
        /\ UNCHANGED <<disk, flight, index, plus, unseen, queues, cut, removed, modified, del, deletes,
                       orphans, candidates, carried, writer, ret, purging, stop>>
    BY <1>1 DEF ProcessOne, Stages
  <1>3. job[f].at = "none" /\ Flying(f) = {} /\ job \in [Files -> Job]
    BY <1>1, <1>2, Types, TypedNow DEF FileOK, Timely
  <1>4. Stages' /\ Outcome'
    BY <1>1, <1>2 DEF ProcessOne, Stages, Outcome
  <1>5. ASSUME NEW g \in Files, g # f PROVE FileOK(g)'
    <2>1. Same(g) /\ SameLists(g)
      BY <1>2, <1>3, <1>5 DEF ProcessOne, Same, SameLists, Flying
    <2>2. QED
      BY <1>1, <1>2, <2>1, Untouched
  <1>6. ASSUME disk[f].there PROVE FileOK(f)'
    <2>1. /\ job'[f].at = "queued" /\ job'[f].sig = disk[f].ver /\ f \notin mod'
      BY <1>2, <1>3, <1>6 DEF ProcessOne, NoJob
    <2>2. /\ \A u : (InFlight(u)' <=> InFlight(u)) /\ (Indexed(u)' <=> Indexed(u))
          /\ Flying(f)' = Flying(f) /\ ~Extracting(f)' /\ ~Extracting(f)
      BY <1>2, <1>3, <2>1 DEF InFlight, Indexed, Flying, Extracting
    <2>3. (Failing(f)' <=> Failing(f)) /\ \A s : OwnIs(f, s)' <=> OwnIs(f, s)
      BY <1>2, <2>2 DEF Failing, OwnIs
    <2>4. disk[f].ver \in Nat \ {0}
      BY <1>1, Types
    <2>5. Versioned(f)'
      BY <1>1, <1>2, <2>1, <2>2, <2>4 DEF FileOK, Versioned
    <2>6. Timely(f)'
      BY <1>1, <1>2, <1>3, <1>6, <2>1, <2>2 DEF FileOK, Timely
    <2>7. Extracted(f)' /\ FailedIsSeen(f)' /\ Rooted(f)'
      BY <1>1, <1>2, <2>2 DEF FileOK, Extracted, FailedIsSeen, Rooted
    <2>8. UpToDateIsComplete(f)'
      BY <1>1, <1>2, <2>2, <2>3 DEF FileOK, UpToDateIsComplete, Complete, Live, OrphansToGo
    <2>9. ProcessedIsNow(f)' /\ GoneIsEmpty(f)'
      BY <1>2, <1>6, <2>1 DEF ProcessedIsNow, GoneIsEmpty
    <2>10. NewIsProper(f)'
      BY <1>1, <1>2 DEF FileOK, NewIsProper
    <2>11. QED
      BY <2>5, <2>6, <2>7, <2>8, <2>9, <2>10 DEF FileOK
  <1>7. ASSUME ~disk[f].there PROVE FileOK(f)'
    <2>1. job' = job /\ mod' \subseteq mod
      BY <1>7 DEF ProcessOne
    <2>2. /\ Versioned(f)' /\ Extracted(f)' /\ FailedIsSeen(f)'
          /\ \A u : (InFlight(u)' <=> InFlight(u)) /\ (Indexed(u)' <=> Indexed(u))
          /\ Flying(f)' = Flying(f)
          /\ Extracting(f)' <=> Extracting(f)
          /\ Failing(f)' <=> Failing(f)
          /\ \A s : OwnIs(f, s)' <=> OwnIs(f, s)
      BY <1>1, <1>2, <2>1, SameData
    <2>3. Timely(f)'
      BY <1>1, <1>2, <1>7, <2>1, <2>2 DEF FileOK, Timely
    <2>4. Rooted(f)'
      BY <1>1, <1>2, <2>1, <2>2 DEF FileOK, Rooted
    <2>5. UpToDateIsComplete(f)'
      BY <1>1, <1>2, <2>2 DEF FileOK, UpToDateIsComplete, Complete, Live, OrphansToGo
    <2>6. ProcessedIsNow(f)'
      BY <1>2, <1>7 DEF ProcessedIsNow
    <2>7. GoneIsEmpty(f)'
      BY <1>1, <1>2, <2>2 DEF FileOK, GoneIsEmpty, Live
    <2>8. NewIsProper(f)'
      BY <1>1, <1>2 DEF FileOK, NewIsProper
    <2>9. QED
      BY <2>2, <2>3, <2>4, <2>5, <2>6, <2>7, <2>8 DEF FileOK
  <1>8. QED
    BY <1>4, <1>5, <1>6, <1>7, <1>1, TypedNow, Types

(* What the files are like when the queues are empty and the orphans gone. *)
LEMMA WhenDone ==
    ASSUME Updates, NEW f \in Files, pc \in {"idle", "purge"}, ret, Settled(f), ~Excused(f)
    PROVE  LET now == [sig |-> disk[f].ver, ver |-> disk[f].ver]
           IN  IF disk[f].there
               THEN /\ \A u \in {f} \cup PartsNow(f) : index[u] = now /\ u \notin unseen
                    /\ PartsNow(f) # {} => \A k \in KidsOf(f) : Indexed(k) => k \in PartsNow(f)
               ELSE \A u \in {f} \cup KidsOf(f) : Indexed(u) => u \in unseen
  <1> DEFINE now == [sig |-> disk[f].ver, ver |-> disk[f].ver]
  <1>1. TypeOK /\ Stages /\ FileOK(f)
    BY DEF Updates
  <1>2. /\ flight = {} /\ job[f].at = "none" /\ deletes = {} /\ orphans = {}
        /\ Live /\ f \notin plus \cup cut \cup removed \cup modified \cup mod \cup del
    BY <1>1 DEF Stages, Live, NoJob, Excused, Settled
  <1>3. ASSUME disk[f].there
        PROVE  /\ \A u \in {f} \cup PartsNow(f) : index[u] = now /\ u \notin unseen
               /\ PartsNow(f) # {} => \A k \in KidsOf(f) : Indexed(k) => k \in PartsNow(f)
    <2>1. ~Failing(f) /\ \A u : ~InFlight(u)
      BY <1>2 DEF Failing, InFlight
    <2>2. OwnIs(f, disk[f].ver) /\ \A u \in {f} \cup PartsNow(f) : u \notin unseen
      BY <1>1, <1>2, <1>3, <2>1 DEF FileOK, ProcessedIsNow, PartsNow
    <2>3. Complete(f, disk[f].ver)
      BY <1>1, <1>2, <2>2 DEF FileOK, UpToDateIsComplete, Extracting
    <2>4. ~OrphansToGo(f)
      BY <1>2 DEF OrphansToGo
    <2>5. PartsNow(f) = Parts[f][disk[f].ver]
      BY <1>3 DEF PartsNow
    <2>6. QED
      BY <2>1, <2>2, <2>3, <2>4, <2>5 DEF Complete
  <1>4. ASSUME ~disk[f].there PROVE \A u \in {f} \cup KidsOf(f) : Indexed(u) => u \in unseen
    BY <1>1, <1>2, <1>4 DEF FileOK, GoneIsEmpty
  <1>5. QED
    BY <1>3, <1>4

LEMMA Purged ==
    ASSUME Updates, Purge
    PROVE  Stages' /\ (\A g \in Files : FileOK(g)') /\ Outcome'
  <1> USE DEF tree, store, call, pipe
  <1>1. TypeOK /\ Stages /\ \A g \in Files : FileOK(g)
    BY DEF Updates
  <1>2. /\ flight = {} /\ deletes = {} /\ orphans = {} /\ del = {} /\ mod' = {} /\ unseen' = {}
        /\ \A f \in Files : job[f] = NoJob /\ job[f].at = "none"
        /\ pc = "purge" /\ pc' \in {"idle", "off"} /\ (pc' = "idle" => ret /\ ~stop /\ ~purging)
        /\ UNCHANGED <<disk, removed, modified, del, purging, candidates, ret, stop, job, flight, deletes,
                       orphans, writer, queues, carried, cut>>
    BY <1>1 DEF Purge, Stages, NoJob
  <1>3. Stages'
    BY <1>1, <1>2 DEF Purge, Stages
  <1>4. \A u \in Udis : index'[u] = index[u] \/ (purging /\ u \in unseen /\ index'[u] = NoText)
    BY <1>1, TypedNow DEF Purge
  <1>5. ASSUME NEW f \in Files PROVE FileOK(f)'
    <2>1. /\ ~Extracting(f) /\ ~Extracting(f)' /\ Flying(f)' = {} /\ Flying(f) = {}
          /\ \A u : ~InFlight(u) /\ ~InFlight(u)'
      BY <1>2 DEF Extracting, Flying, InFlight
    <2>2. Versioned(f)'
      <3>1. f \in plus' <=> f \in plus
        BY <1>1 DEF FileOK, Versioned, Purge
      <3>2. f \in plus => index'[f] = index[f]
        BY <1>1, <1>4, FilesAndKids DEF FileOK, Versioned
      <3>3. NoText.sig = 0 /\ NoText.ver = 0 /\ 0 <= disk[f].ver
        BY <1>1, Types DEF NoText
      <3>4. index'[f] = index[f] \/ index'[f] = NoText
        BY <1>4, FilesAndKids
      <3>5. \A k \in KidsOf(f) : index'[k] = index[k] \/ index'[k] = NoText
        BY <1>4, FilesAndKids
      <3>6. QED
        BY <1>1, <1>2, <2>1, <3>1, <3>2, <3>3, <3>4, <3>5 DEF FileOK, Versioned, Indexed
    <2>3. Timely(f)'
      BY <1>1, <1>2, <2>1 DEF FileOK, Timely
    <2>4. Extracted(f)' /\ NewIsProper(f)' /\ FailedIsSeen(f)'
      BY <1>2, <2>1 DEF Extracted, NewIsProper, FailedIsSeen
    <2>5. CASE pc' = "off"
      BY <2>2, <2>3, <2>4, <2>5 DEF FileOK, Rooted, UpToDateIsComplete, ProcessedIsNow, GoneIsEmpty, Live
    <2>6. CASE pc' = "idle"
      <3>1. index' = index /\ plus' = plus /\ unseen = {} /\ mod = {} /\ ret
        BY <1>1, <1>2, <2>6 DEF Purge, Stages
      <3>2. /\ \A u : Indexed(u)' <=> Indexed(u)
            /\ \A s : OwnIs(f, s)' <=> OwnIs(f, s)
            /\ Failing(f)' <=> Failing(f)
        BY <1>2, <3>1 DEF Indexed, OwnIs, Failing, InFlight
      <3>3. Live /\ Live' /\ ~OrphansToGo(f)
        BY <1>2, <2>6, <3>1 DEF Live, OrphansToGo
      <3>4. Rooted(f)'
        BY <1>1, <1>2, <2>1, <3>2 DEF FileOK, Rooted
      <3>5. UpToDateIsComplete(f)'
        BY <1>1, <1>2, <2>1, <3>1, <3>2, <3>3 DEF FileOK, UpToDateIsComplete, Complete
      <3>6. ProcessedIsNow(f)' /\ GoneIsEmpty(f)'
        BY <1>1, <1>2, <3>1, <3>2, <3>3 DEF FileOK, ProcessedIsNow, GoneIsEmpty
      <3>7. QED
        BY <2>2, <2>3, <2>4, <3>4, <3>5, <3>6 DEF FileOK
    <2>7. QED
      BY <1>2, <2>5, <2>6
  <1>6. Outcome'
    <2>1. SUFFICES ASSUME purging, ret, ~stop, NEW f \in Files, Settled(f)', ~Excused(f)'
                   PROVE  Exact(f)'
      BY <1>2 DEF Outcome
    <2>2. mod = {} /\ f \notin plus
      BY <1>1, <1>2, <2>1 DEF Stages, FileOK, Versioned, Purge, Excused
    <2>3. Settled(f) /\ ~Excused(f) /\ f \notin plus'
      BY <1>2, <2>1, <2>2 DEF Settled, Excused
    <2>4. \A u \in Udis : index'[u] = IF u \in unseen THEN NoText ELSE index[u]
      BY <1>1, <2>1, TypedNow DEF Purge
    <2>5. /\ f \in Udis /\ PartsNow(f) \subseteq KidsOf(f) /\ KidsOf(f) \subseteq Udis
          /\ PartsNow(f)' = PartsNow(f)
      BY <1>1, <1>2, FilesAndKids, Types DEF PartsNow
    <2>6. ASSUME disk[f].there PROVE Exact(f)'
      <3>1. /\ \A u \in {f} \cup PartsNow(f) : index[u] = [sig |-> disk[f].ver, ver |-> disk[f].ver]
                                               /\ u \notin unseen
            /\ PartsNow(f) # {} => \A k \in KidsOf(f) : Indexed(k) => k \in PartsNow(f)
        BY <1>2, <2>1, <2>3, <2>6, WhenDone
      <3>2. \A k \in KidsOf(f) : Indexed(k)' => Indexed(k)
        BY <2>4, <2>5 DEF Indexed
      <3>3. QED
        BY <1>2, <2>3, <2>4, <2>5, <2>6, <3>1, <3>2 DEF Exact
    <2>7. ASSUME ~disk[f].there PROVE Exact(f)'
      <3>1. \A u \in {f} \cup KidsOf(f) : Indexed(u) => u \in unseen
        BY <1>2, <2>1, <2>3, <2>7, WhenDone
      <3>2. QED
        BY <1>2, <2>4, <2>5, <2>7, <3>1 DEF Exact, Indexed
    <2>8. QED
      BY <2>6, <2>7
  <1>7. QED
    BY <1>3, <1>5, <1>6

-----------------------------------------------------------------------------
(* The internfile workers.                                                 *)

(* What a worker leaves alone, and the other files.                        *)
LEMMA WorkerFrame ==
    ASSUME Updates, NEW f \in Files, Worker(f)
    PROVE  /\ UNCHANGED <<disk, removed, modified, del, mod, purging, index, plus, pc, ret, stop, deletes,
                          orphans, writer, carried>>
           /\ pc \in {"index", "drain"} /\ job[f].at # "none" /\ f \notin mod
           /\ disk[f].there \/ f \in removed
           /\ f \notin candidates \ carried
           /\ \A u : Indexed(u)' <=> Indexed(u)
           /\ GoneIsEmpty(f)'
           /\ Stages' /\ Outcome'
           /\ \A g \in Files : g # f => FileOK(g)'
  <1> USE DEF tree, store, call, pipe
  <1>1. TypeOK /\ Stages /\ \A g \in Files : FileOK(g)
    BY DEF Updates
  <1>2. UNCHANGED <<disk, removed, modified, del, mod, purging, index, plus, pc, ret, stop, deletes,
                    orphans, writer, carried>>
    BY DEF Worker, UpToDate, OutOfDate, Launch, FailEarly, FailLate, JobDropped
  <1>3. job[f].at # "none"
    BY DEF Worker, UpToDate, OutOfDate, Launch, FailEarly, FailLate, JobDropped
  <1>4. pc \in {"index", "drain"} /\ f \notin mod /\ (disk[f].there \/ f \in removed)
    BY <1>1, <1>3 DEF Stages, NoJob, FileOK, Timely
  <1>5. f \notin candidates \ carried
    BY <1>1, <1>3, <1>4 DEF FileOK, NewIsProper
  <1>6. GoneIsEmpty(f)'
    BY <1>2, <1>4 DEF GoneIsEmpty
  <1>7. queues' = queues \/ queues' # "ok"
    BY DEF Worker, UpToDate, OutOfDate, Launch, FailEarly, FailLate, JobDropped
  <1>8. \A g \in Files : g # f => job'[g] = job[g]
    BY <1>1, TypedNow DEF Worker, UpToDate, OutOfDate, Launch, FailEarly, FailLate, JobDropped
  <1>9. /\ candidates \subseteq candidates' /\ candidates' \subseteq candidates \cup {f}
        /\ cut' \subseteq cut \cup {f} /\ cut \subseteq cut' \cup {f}
    BY DEF Worker, UpToDate, OutOfDate, Launch, FailEarly, FailLate, JobDropped, Recorded
  <1>10. \A u : u \notin {f} \cup KidsOf(f) => (u \in unseen' <=> u \in unseen)
    BY DEF Worker, UpToDate, OutOfDate, Launch, FailEarly, FailLate, JobDropped, Existing
  <1>11. \A e : FileOf(e.udi) # f => (e \in flight' <=> e \in flight)
    <2>1. CASE UpToDate(f) \/ OutOfDate(f) \/ FailLate(f) \/ JobDropped(f)
      BY <2>1 DEF UpToDate, OutOfDate, FailLate, JobDropped
    <2>2. CASE FailEarly(f)
      <3>1. FileOf([udi |-> f, sig |-> job[f].sig, ver |-> job[f].ver, plus |-> TRUE].udi) = f
        BY FilesAndKids
      <3>2. QED
        BY <2>2, <3>1 DEF FailEarly, Launched
    <2>3. ASSUME NEW u \in Udis, Launch(f, u)
          PROVE  \A e : FileOf(e.udi) # f => (e \in flight' <=> e \in flight)
      <3>1. u \in {f} \cup Parts[f][job[f].ver] /\ job[f].ver \in Versions
        <4>1. job[f].at = "extract" /\ job[f].ver # 0 /\ u \in job[f].todo
          BY <2>3 DEF Launch
        <4>2. job[f].ver \in Versions
          BY <1>1, <4>1, Types DEF Versions
        <4>3. u \in {f} \cup Parts[f][job[f].ver]
          BY <1>1, <4>1 DEF FileOK, Extracted, Extracting
        <4>4. QED
          BY <4>2, <4>3
      <3>2. FileOf(u) = f
        BY <3>1, FilesAndKids
      <3>3. FileOf([udi |-> u, sig |-> job[f].sig, ver |-> job[f].ver, plus |-> FALSE].udi) = f
        BY <3>2
      <3>4. QED
        BY <2>3, <3>3 DEF Launch, Launched
    <2>4. QED
      BY <2>1, <2>2, <2>3 DEF Worker
  <1>12. ASSUME NEW g \in Files, g # f PROVE FileOK(g)'
    <2>1. \A u \in {g} \cup KidsOf(g) : u \notin {f} \cup KidsOf(f)
      BY <1>12, FilesAndKids
    <2>2. Flying(g)' = Flying(g)
      BY <1>11, <1>12 DEF Flying, FileOf
    <2>3. Same(g) /\ SameLists(g)
      BY <1>2, <1>8, <1>9, <1>10, <1>12, <2>1, <2>2 DEF Same, SameLists
    <2>4. QED
      BY <1>1, <1>2, <1>7, <2>3, Untouched
  <1>13. Stages'
    <2>1. orphans = {} /\ (~purging => unseen' = {})
      BY <1>1, <1>4 DEF Stages, Worker, UpToDate, OutOfDate, Launch, FailEarly, FailLate, JobDropped
    <2>2. QED
      BY <1>1, <1>2, <1>4, <1>9, <2>1 DEF Stages
  <1>14. Outcome'
    BY <1>2, <1>4 DEF Outcome
  <1>15. QED
    BY <1>2, <1>3, <1>4, <1>5, <1>6, <1>12, <1>13, <1>14 DEF Indexed

LEMMA NotUpdated ==
    ASSUME Updates, NEW f \in Files, UpToDate(f)
    PROVE  FileOK(f)'
  <1>1. TypeOK /\ FileOK(f)
    BY DEF Updates
  <1>2. /\ UNCHANGED <<disk, removed, modified, del, mod, index, plus, pc, ret, deletes,
                       orphans, writer, carried, flight, cut, candidates>>
        /\ pc \in {"index", "drain"} /\ f \notin mod /\ f \notin candidates \ carried
        /\ disk[f].there \/ f \in removed
        /\ \A u : Indexed(u)' <=> Indexed(u)
        /\ GoneIsEmpty(f)'
    BY WorkerFrame DEF Worker, UpToDate, call
  <1>3. /\ job[f].at = "queued" /\ Flying(f) = {} /\ job'[f] = NoJob /\ job[f].sig \in Nat \ {0}
        /\ index[f].sig = job[f].sig /\ f \notin plus /\ unseen' = unseen \ Existing(f)
        /\ queues' = queues \/ queues' = "intern"
    BY <1>1, Types, TypedNow DEF FileOK, Timely, Versioned, UpToDate, NeedUpdate
  <1>4. /\ Flying(f)' = {} /\ ~Extracting(f)' /\ ~Extracting(f)
        /\ \A u : InFlight(u)' <=> InFlight(u)
        /\ \A s : OwnIs(f, s)' <=> OwnIs(f, s)
    BY <1>2, <1>3 DEF Flying, InFlight, Extracting, NoJob, OwnIs
  <1>5. \A u \in {f} \cup KidsOf(f) : ~InFlight(u)
    BY <1>3, FilesAndKids DEF Flying, InFlight
  <1>6. Versioned(f)'
    BY <1>1, <1>2, <1>3, <1>4 DEF FileOK, Versioned, NoJob
  <1>7. Timely(f)'
    BY <1>1, <1>2, <1>3, <1>4 DEF FileOK, Timely, NoJob
  <1>8. Extracted(f)' /\ NewIsProper(f)'
    BY <1>2, <1>4 DEF Extracted, NewIsProper
  <1>9. Rooted(f)'
    <2>1. Indexed(f)
      BY <1>3 DEF Indexed, NoText
    <2>2. QED
      BY <1>2, <2>1 DEF Rooted
  <1>10. UpToDateIsComplete(f)'
    BY <1>1, <1>2, <1>4 DEF FileOK, UpToDateIsComplete, Complete, Live, OrphansToGo, Flying
  <1>11. ProcessedIsNow(f)'
    <2>1. SUFFICES ASSUME f \notin modified \cup mod \cup cut
                   PROVE  /\ OwnIs(f, disk[f].ver)
                          /\ \A u \in {f} \cup Parts[f][disk[f].ver] : u \notin unseen'
      BY <1>2, <1>4 DEF ProcessedIsNow
    <2>2. job[f].sig = disk[f].ver
      BY <1>1, <1>3, <2>1 DEF FileOK, Timely
    <2>3. OwnIs(f, disk[f].ver)
      BY <1>3, <1>5, <2>2 DEF OwnIs
    <2>4. Complete(f, disk[f].ver)
      BY <1>1, <1>2, <1>4, <2>1, <2>3 DEF FileOK, UpToDateIsComplete, Live
    <2>5. \A u \in {f} \cup Parts[f][disk[f].ver] : u \in Existing(f)
      <3>1. Parts[f][disk[f].ver] \subseteq KidsOf(f) /\ disk[f].ver # 0
        BY <1>1, Types, FilesAndKids
      <3>2. QED
        BY <1>5, <2>4, <3>1 DEF Complete, Existing, Indexed, NoText
    <2>6. QED
      BY <1>3, <2>3, <2>5
  <1>12. FailedIsSeen(f)'
    BY <1>1, <1>2, <1>3 DEF FileOK, FailedIsSeen
  <1>13. QED
    BY <1>2, <1>6, <1>7, <1>8, <1>9, <1>10, <1>11, <1>12 DEF FileOK

LEMMA Opened ==
    ASSUME Updates, NEW f \in Files, OutOfDate(f)
    PROVE  FileOK(f)'
  <1>1. TypeOK /\ FileOK(f)
    BY DEF Updates
  <1>2. /\ UNCHANGED <<disk, removed, modified, del, mod, index, plus, unseen, pc, ret, deletes, queues,
                       orphans, writer, carried, flight, cut, candidates>>
        /\ pc \in {"index", "drain"} /\ f \notin mod /\ f \notin candidates \ carried
        /\ disk[f].there \/ f \in removed
        /\ \A u : Indexed(u)' <=> Indexed(u)
        /\ GoneIsEmpty(f)'
    BY WorkerFrame DEF Worker, OutOfDate, store, call
  <1>3. /\ job[f].at = "queued" /\ Flying(f) = {} /\ ~Extracting(f)
        /\ job'[f].at = "extract" /\ job'[f].sig = job[f].sig /\ job'[f].old = Indexed(f)
        /\ job'[f].ver = (IF disk[f].there THEN disk[f].ver ELSE 0)
        /\ job'[f].todo = {f} \cup PartsNow(f)
    <2>1. job \in [Files -> Job]
      BY <1>1, TypedNow
    <2>2. /\ job[f].at = "queued"
          /\ job'[f].at = "extract" /\ job'[f].sig = job[f].sig /\ job'[f].old = Indexed(f)
          /\ job'[f].ver = (IF disk[f].there THEN disk[f].ver ELSE 0)
          /\ job'[f].todo = {f} \cup PartsNow(f)
      BY <2>1 DEF OutOfDate, Job
    <2>3. QED
      BY <1>1, <2>2 DEF FileOK, Timely, Extracting
  <1>4. /\ Flying(f)' = {} /\ Extracting(f)' /\ \A u : InFlight(u)' <=> InFlight(u)
    BY <1>2, <1>3 DEF Flying, InFlight, Extracting
  <1>5. \A u \in {f} \cup KidsOf(f) : ~InFlight(u)
    BY <1>3, FilesAndKids DEF Flying, InFlight
  <1>6. disk[f].ver \in Nat \ {0} /\ \A k \in KidsOf(f) : index[k].sig \in Nat /\ index[k].ver \in Nat
    BY <1>1, Types, FilesAndKids
  <1>7. Versioned(f)'
    BY <1>1, <1>2, <1>3, <1>4, <1>6 DEF FileOK, Versioned
  <1>8. Timely(f)'
    BY <1>1, <1>2, <1>3, <1>4 DEF FileOK, Timely
  <1>9. Extracted(f)'
    <2>1. CASE ~disk[f].there
      BY <1>3, <1>4, <2>1 DEF Extracted, PartsNow
    <2>2. CASE disk[f].there
      <3>1. job'[f].ver = disk[f].ver /\ job'[f].todo = {f} \cup Parts[f][disk[f].ver]
        BY <1>3, <2>2 DEF PartsNow
      <3>2. job'[f].old \/ f \in cut \/ \A k \in KidsOf(f) : ~Indexed(k)
        BY <1>1, <1>2, <1>3, <1>5 DEF FileOK, Rooted
      <3>3. job[f].sig = disk[f].ver =>
                \A k \in KidsOf(f) : Indexed(k) /\ index[k].sig = job[f].sig => k \in Parts[f][disk[f].ver]
        BY <1>1, <1>6 DEF FileOK, Versioned
      <3>4. QED
        BY <1>2, <1>3, <1>4, <1>6, <3>1, <3>2, <3>3 DEF Extracted
    <2>3. QED
      BY <2>1, <2>2
  <1>10. Rooted(f)' /\ UpToDateIsComplete(f)' /\ ProcessedIsNow(f)' /\ NewIsProper(f)'
    BY <1>2, <1>3, <1>4 DEF Rooted, UpToDateIsComplete, ProcessedIsNow, NewIsProper
  <1>11. FailedIsSeen(f)'
    BY <1>1, <1>2 DEF FileOK, FailedIsSeen
  <1>12. QED
    BY <1>2, <1>7, <1>8, <1>9, <1>10, <1>11 DEF FileOK

(* What a worker has launched, and launches now.                           *)
Whole(f) == {f} \cup Parts[f][job[f].ver]
NewDoc(f, u) == [udi |-> u, sig |-> job[f].sig, ver |-> job[f].ver, plus |-> FALSE]

LEMMA LaunchFrame ==
    ASSUME Updates, NEW f \in Files, NEW u \in Udis, Launch(f, u)
    PROVE  /\ UNCHANGED <<disk, removed, modified, del, mod, index, plus, unseen, pc, ret, deletes, queues,
                          orphans, writer, carried>>
           /\ pc \in {"index", "drain"} /\ f \notin mod /\ f \notin candidates \ carried
           /\ disk[f].there \/ f \in removed
           /\ \A v : Indexed(v)' <=> Indexed(v)
           /\ GoneIsEmpty(f)'
           /\ queues = "ok" /\ Extracting(f)
           /\ f \in Whole(f) /\ u \in Whole(f) /\ Whole(f) \subseteq {f} \cup KidsOf(f)
           /\ job[f].ver \in Versions
           /\ flight' = flight \cup {NewDoc(f, u)}
           /\ Flying(f)' = Flying(f) \cup {NewDoc(f, u)} /\ NewDoc(f, u) \notin flight
           /\ \A v : InFlight(v)' <=> InFlight(v) \/ v = u
           /\ \A e \in Flying(f)' : e.sig = job[f].sig /\ e.ver = job[f].ver /\ ~e.plus
           /\ \A e \in Flying(f) : e.udi # u
           /\ writer \/ f \notin cut =>
                \A v \in Whole(f) \ job[f].todo :
                    InFlight(v) \/ (/\ index[v] = [sig |-> job[f].sig, ver |-> job[f].ver]
                                    /\ v \notin plus \cup unseen)
           /\ job[f].sig # 0
  <1> DEFINE now == Whole(f)
  <1> DEFINE d == NewDoc(f, u)
  <1> USE DEF Whole, NewDoc
  <1>1. TypeOK /\ FileOK(f)
    BY DEF Updates
  <1>2. /\ UNCHANGED <<disk, removed, modified, del, mod, index, plus, unseen, pc, ret, deletes, queues,
                       orphans, writer, carried>>
        /\ pc \in {"index", "drain"} /\ f \notin mod /\ f \notin candidates \ carried
        /\ disk[f].there \/ f \in removed
        /\ \A v : Indexed(v)' <=> Indexed(v)
        /\ GoneIsEmpty(f)'
    BY WorkerFrame DEF Worker, Launch, store
  <1>3. /\ queues = "ok" /\ Extracting(f) /\ job[f].ver # 0 /\ u \in job[f].todo
        /\ flight' = flight \cup {d}
    BY DEF Launch, Launched, Accepts, Extracting
  <1>4. /\ u \in now /\ job[f].todo \subseteq now
        /\ \A e \in Flying(f) :
                /\ e.sig = job[f].sig /\ e.ver = job[f].ver /\ ~e.plus
                /\ e.udi \notin job[f].todo
        /\ writer \/ f \notin cut =>
            \A v \in now \ job[f].todo :
                    InFlight(v) \/ (/\ index[v] = [sig |-> job[f].sig, ver |-> job[f].ver]
                                    /\ v \notin plus \cup unseen)
    BY <1>1, <1>3 DEF FileOK, Extracted
  <1>5. job[f].ver \in Versions /\ now \subseteq {f} \cup KidsOf(f)
    BY <1>1, <1>3, Types, FilesAndKids DEF Versions
  <1>6. FileOf(u) = f /\ d.udi = u
    BY <1>4, <1>5, FilesAndKids
  <1>7. Flying(f)' = Flying(f) \cup {d}
    BY <1>3, <1>6 DEF Flying, FileOf
  <1>8. \A v : InFlight(v)' <=> InFlight(v) \/ v = u
    BY <1>3, <1>6 DEF InFlight
  <1>9. \A e \in Flying(f) : e.udi # u
    BY <1>3, <1>4
  <1>10. d \notin flight
    BY <1>6, <1>9 DEF Flying
  <1>11. \A e \in Flying(f)' : e.sig = job[f].sig /\ e.ver = job[f].ver /\ ~e.plus
    BY <1>4, <1>7
  <1>12. job[f].sig # 0
    BY <1>1, <1>3 DEF FileOK, Versioned, Extracting
  <1>13. QED
    BY <1>2, <1>3, <1>4, <1>5, <1>7, <1>8, <1>9, <1>10, <1>11, <1>12

(* Whether or not it is the last document.                                 *)
LEMMA LaunchKeeps ==
    ASSUME Updates, NEW f \in Files, NEW u \in Udis, Launch(f, u),
           \/ job'[f] = NoJob
           \/ /\ job'[f].at = "extract" /\ job'[f].sig = job[f].sig /\ job'[f].ver = job[f].ver
              /\ f \in job[f].todo \ {u} => f \in job'[f].todo,
           f \in cut => f \in cut' \/ writer
    PROVE  /\ Versioned(f)' /\ Timely(f)' /\ FailedIsSeen(f)'
           /\ (job'[f] = NoJob => f \notin job[f].todo \ {u}) => Rooted(f)'
  <1> DEFINE now == Whole(f)
  <1> DEFINE d == NewDoc(f, u)
  <1>1. TypeOK /\ FileOK(f)
    BY DEF Updates
  <1>2. /\ UNCHANGED <<disk, removed, modified, del, mod, index, plus, unseen, pc, ret, deletes, queues,
                       orphans, writer, carried>>
        /\ pc \in {"index", "drain"} /\ f \notin mod
        /\ disk[f].there \/ f \in removed
        /\ \A v : Indexed(v)' <=> Indexed(v)
        /\ queues = "ok" /\ Extracting(f) /\ f \in now /\ u \in now /\ job[f].ver \in Versions
        /\ flight' = flight \cup {d} /\ Flying(f)' = Flying(f) \cup {d}
        /\ \A v : InFlight(v)' <=> InFlight(v) \/ v = u
        /\ \A e \in Flying(f)' : e.sig = job[f].sig /\ e.ver = job[f].ver /\ ~e.plus
        /\ \A e \in Flying(f) : e.udi # u
        /\ writer \/ f \notin cut =>
            \A v \in now \ job[f].todo :
                InFlight(v) \/ index[v] = [sig |-> job[f].sig, ver |-> job[f].ver]
        /\ job[f].sig # 0
    BY LaunchFrame
  <1> USE DEF Whole
  <1>3. /\ job[f].sig <= job[f].ver /\ job[f].ver <= disk[f].ver /\ job[f].sig <= disk[f].ver
        /\ job[f].ver # 0
    BY <1>1, <1>2 DEF FileOK, Versioned, Extracting, Versions
  <1>4. d.udi = u /\ d.sig = job[f].sig /\ d.ver = job[f].ver /\ ~d.plus
    BY DEF NewDoc
  <1>5. \/ job'[f].at = "none"
        \/ job'[f].at = "extract" /\ job'[f].sig = job[f].sig /\ job'[f].ver = job[f].ver
    BY DEF NoJob
  <1>6. Versioned(f)'
    <2>1. \A e \in Flying(f)' :
            /\ e.sig <= disk[f].ver /\ e.ver <= disk[f].ver
            /\ e.sig <= e.ver
            /\ e.udi # f => e.ver # 0 /\ e.udi \in Parts[f][e.ver] /\ ~e.plus
      <3>1. \A e \in Flying(f) : e.udi # f => e.udi \in Parts[f][e.ver]
        BY <1>1 DEF FileOK, Versioned
      <3>2. QED
        BY <1>2, <1>3, <1>4, <3>1
    <2>2. \A e, g \in Flying(f)' : e.sig = g.sig /\ e.ver = g.ver /\ (e.udi = g.udi => e = g)
      <3>1. \A e, g \in Flying(f) : e.udi = g.udi => e = g
        BY <1>1 DEF FileOK, Versioned
      <3>2. QED
        BY <1>2, <1>4, <3>1
    <2>3. /\ job'[f].at # "none" => job'[f].sig # 0 /\ job'[f].sig <= disk[f].ver
          /\ Extracting(f)' /\ job'[f].ver # 0 =>
                job'[f].sig <= job'[f].ver /\ job'[f].ver <= disk[f].ver
      BY <1>2, <1>3, <1>5 DEF Extracting
    <2>4. QED
      BY <1>1, <1>2, <2>1, <2>2, <2>3 DEF FileOK, Versioned
  <1>7. Timely(f)'
    <2>1. job'[f].at = "none" => job'[f] = NoJob
      BY <1>5
    <2>2. job[f].at # "none" /\ job'[f].at # "queued"
      BY <1>2, <1>5 DEF Extracting
    <2>3. QED
      BY <1>1, <1>2, <1>5, <2>1, <2>2 DEF FileOK, Timely
  <1>8. FailedIsSeen(f)'
    <2>1. (\E e \in flight' : e.udi = f /\ e.plus) => \E e \in flight : e.udi = f /\ e.plus
      BY <1>2, <1>4
    <2>2. QED
      BY <1>1, <1>2, <2>1 DEF FileOK, FailedIsSeen
  <1>9. ASSUME job'[f] = NoJob => f \notin job[f].todo \ {u} PROVE Rooted(f)'
    <2>1. CASE f = u
      BY <1>2, <2>1 DEF Rooted
    <2>2. CASE f \notin job[f].todo
      <3>1. f \in cut' \/ InFlight(f) \/ Indexed(f)
        BY <1>2, <2>2 DEF Indexed, NoText
      <3>2. QED
        BY <1>2, <3>1 DEF Rooted
    <2>3. CASE f # u /\ f \in job[f].todo
      BY <1>9, <2>3 DEF Rooted, Extracting, NoJob
    <2>4. QED
      BY <2>1, <2>2, <2>3
  <1>10. QED
    BY <1>6, <1>7, <1>8, <1>9

LEMMA Launching ==
    ASSUME Updates, NEW f \in Files, NEW u \in Udis, Launch(f, u), job[f].todo # {u}
    PROVE  FileOK(f)'
  <1> DEFINE now == Whole(f)
  <1>1. TypeOK /\ FileOK(f)
    BY DEF Updates
  <1>2. /\ UNCHANGED <<disk, removed, modified, mod, index, plus, unseen, pc, queues, writer>>
        /\ f \notin mod /\ (disk[f].there \/ f \in removed)
        /\ \A v : Indexed(v)' <=> Indexed(v)
        /\ GoneIsEmpty(f)'
        /\ queues = "ok" /\ Extracting(f) /\ u \in now /\ job[f].ver \in Versions
        /\ Flying(f)' = Flying(f) \cup {NewDoc(f, u)}
        /\ \A v : InFlight(v)' <=> InFlight(v) \/ v = u
        /\ \A e \in Flying(f)' : e.sig = job[f].sig /\ e.ver = job[f].ver /\ ~e.plus
    BY LaunchFrame
  <1> USE DEF Whole
  <1>3. /\ job'[f].at = "extract" /\ job'[f].sig = job[f].sig /\ job'[f].ver = job[f].ver
        /\ job'[f].old = job[f].old /\ job'[f].todo = job[f].todo \ {u}
        /\ u \in job[f].todo /\ UNCHANGED <<candidates, carried, cut>>
    <2>1. job \in [Files -> Job]
      BY <1>1, TypedNow
    <2>2. QED
      BY <2>1 DEF Launch, Job
  <1>4. Versioned(f)' /\ Timely(f)' /\ FailedIsSeen(f)' /\ Rooted(f)'
    BY <1>3, LaunchKeeps DEF NoJob
  <1>5. Extracted(f)'
    <2>1. /\ job[f].todo \subseteq now
          /\ \A e \in Flying(f) : e.udi \notin job[f].todo
          /\ writer \/ f \notin cut =>
                \A v \in now \ job[f].todo :
                    InFlight(v) \/ (/\ index[v] = [sig |-> job[f].sig, ver |-> job[f].ver]
                                    /\ v \notin plus \cup unseen)
          /\ job[f].old \/ f \in cut \/ \A k \in KidsOf(f) : Indexed(k) => k \in now
          /\ job[f].sig = job[f].ver =>
                \A k \in KidsOf(f) : Indexed(k) /\ index[k].sig = job[f].sig => k \in now
      BY <1>1, <1>2 DEF FileOK, Extracted, Versions
    <2>2. \A e \in Flying(f)' : e.udi \notin job'[f].todo
      BY <1>2, <1>3, <2>1 DEF NewDoc
    <2>3. job'[f].todo \subseteq now /\ job'[f].todo # {}
      BY <1>3, <2>1
    <2>4. writer \/ f \notin cut => \A v \in now \ job'[f].todo :
                InFlight(v)' \/ (/\ index[v] = [sig |-> job[f].sig, ver |-> job[f].ver]
                                 /\ v \notin plus \cup unseen)
      BY <1>2, <1>3, <2>1
    <2>5. job[f].ver # 0
      BY <1>2 DEF Versions
    <2>6. QED
      BY <1>2, <1>3, <2>1, <2>2, <2>3, <2>4, <2>5 DEF Extracted
  <1>6. UpToDateIsComplete(f)' /\ ProcessedIsNow(f)' /\ NewIsProper(f)'
    <2>1. f \notin candidates \ carried
      BY LaunchFrame
    <2>2. QED
      BY <1>3, <2>1 DEF UpToDateIsComplete, ProcessedIsNow, NewIsProper, Extracting
  <1>7. QED
    BY <1>2, <1>4, <1>5, <1>6 DEF FileOK

LEMMA LastLaunched ==
    ASSUME Updates, NEW f \in Files, NEW u \in Udis, Launch(f, u), job[f].todo = {u}
    PROVE  FileOK(f)'
  <1> DEFINE now == Whole(f)
  <1>1. TypeOK /\ FileOK(f)
    BY DEF Updates
  <1>2. /\ UNCHANGED <<disk, removed, modified, mod, index, plus, unseen, pc, ret, queues, writer, carried>>
        /\ f \notin mod /\ pc \in {"index", "drain"} /\ (disk[f].there \/ f \in removed)
        /\ \A v : Indexed(v)' <=> Indexed(v)
        /\ GoneIsEmpty(f)'
        /\ queues = "ok" /\ Extracting(f) /\ u \in now /\ job[f].ver \in Versions
        /\ \A v : InFlight(v)' <=> InFlight(v) \/ v = u
        /\ \A e \in Flying(f)' : e.sig = job[f].sig /\ e.ver = job[f].ver /\ ~e.plus
        /\ writer \/ f \notin cut =>
            \A v \in now \ job[f].todo :
              InFlight(v) \/ (/\ index[v] = [sig |-> job[f].sig, ver |-> job[f].ver]
                              /\ v \notin plus \cup unseen)
    BY LaunchFrame
  <1> USE DEF Whole
  <1>3. /\ job'[f] = NoJob /\ candidates' = Recorded(f)
        /\ f \in cut' <=> f \in cut /\ ~Repairs(f)
        /\ Repairs(f) => writer
    BY <1>1, TypedNow DEF Launch, Repairs
  <1>4. Versioned(f)' /\ Timely(f)' /\ FailedIsSeen(f)' /\ Rooted(f)'
    BY <1>3, LaunchKeeps
  <1>5. Extracted(f)' /\ ~Extracting(f)' /\ job'[f].at = "none"
    BY <1>3 DEF Extracted, Extracting, NoJob
  <1>6. f \notin cut' =>
            \A v \in now : InFlight(v)' \/ (/\ index[v] = [sig |-> job[f].sig, ver |-> job[f].ver]
                                            /\ v \notin plus \cup unseen)
    BY <1>2, <1>3
  <1>7. \A e : e \in flight' /\ e.udi = f => e \in Flying(f)'
    BY FilesAndKids DEF Flying
  <1>8. /\ job[f].sig \in Nat /\ job[f].ver \in Nat /\ disk[f].ver \in Nat
        /\ job[f].sig <= job[f].ver /\ job[f].ver <= disk[f].ver
    <2>1. job[f].sig \in Nat /\ job[f].ver \in Nat /\ disk[f].ver \in Nat
      BY <1>1, Types
    <2>2. QED
      BY <1>1, <1>2, <2>1 DEF FileOK, Versioned, Versions
  <1>9. UpToDateIsComplete(f)'
    <2>1. SUFFICES ASSUME f \notin cut', OwnIs(f, disk[f].ver)' PROVE Complete(f, disk[f].ver)'
      BY <1>2 DEF UpToDateIsComplete
    <2>2. job[f].sig = disk[f].ver /\ job[f].ver = disk[f].ver
      <3>1. job[f].sig = disk[f].ver
        BY <1>2, <1>6, <1>7, <2>1 DEF OwnIs
      <3>2. QED
        BY <1>8, <3>1
    <2>3. \A k \in KidsOf(f) \ Parts[f][disk[f].ver] : Indexed(k) =>
            index[k].sig # disk[f].ver /\ (Parts[f][disk[f].ver] # {} => OrphansToGo(f)')
      <3>1. /\ job[f].old \/ \A k \in KidsOf(f) : Indexed(k) => k \in now
            /\ \A k \in KidsOf(f) : Indexed(k) /\ index[k].sig = job[f].sig => k \in now
        BY <1>1, <1>2, <1>3, <2>1, <2>2 DEF FileOK, Extracted, Versions, Repairs
      <3>2. \A k \in KidsOf(f) : k # f
        BY FilesAndKids
      <3>3. job[f].old /\ Parts[f][disk[f].ver] # {} => OrphansToGo(f)'
        BY <1>2, <1>3, <2>2 DEF OrphansToGo, Recorded
      <3>4. QED
        BY <2>2, <3>1, <3>2, <3>3
    <2>4. QED
      BY <1>2, <1>6, <2>1, <2>2, <2>3 DEF Complete
  <1>10. ProcessedIsNow(f)'
    <2>1. SUFFICES ASSUME f \notin modified, f \notin cut'
                   PROVE  /\ OwnIs(f, disk[f].ver)'
                          /\ \A v \in {f} \cup Parts[f][disk[f].ver] : v \in unseen => InFlight(v)'
      BY <1>2 DEF ProcessedIsNow
    <2>2. job[f].sig = disk[f].ver /\ job[f].ver = disk[f].ver
      <3>1. job[f].sig = disk[f].ver
        BY <1>1, <1>2, <2>1 DEF FileOK, Timely, Extracting
      <3>2. QED
        BY <1>8, <3>1
    <2>3. OwnIs(f, disk[f].ver)'
      <3>1. CASE InFlight(f)'
        BY <1>2, <1>7, <2>2, <3>1 DEF OwnIs, InFlight
      <3>2. CASE ~InFlight(f)'
        BY <1>2, <1>6, <2>1, <2>2, <3>2 DEF OwnIs
      <3>3. QED
        BY <3>1, <3>2
    <2>4. QED
      BY <1>6, <2>1, <2>2, <2>3
  <1>11. NewIsProper(f)'
    <2>1. f \notin cut' => ~Failing(f)'
      BY <1>2, <1>6, <1>7 DEF Failing
    <2>2. f \in candidates' \ carried => job[f].old
      BY <1>3, LaunchFrame DEF Recorded
    <2>3. job[f].old /\ writer => f \notin cut'
      BY <1>3 DEF Repairs
    <2>4. QED
      BY <1>2, <1>3, <1>5, <2>1, <2>2, <2>3 DEF NewIsProper
  <1>12. QED
    BY <1>2, <1>4, <1>5, <1>9, <1>10, <1>11 DEF FileOK

LEMMA FailedEarly ==
    ASSUME Updates, NEW f \in Files, FailEarly(f)
    PROVE  FileOK(f)'
  <1> DEFINE d == [udi |-> f, sig |-> job[f].sig, ver |-> job[f].ver, plus |-> TRUE]
  <1>1. TypeOK /\ FileOK(f)
    BY DEF Updates
  <1>2. /\ UNCHANGED <<disk, removed, modified, del, mod, index, plus, pc, ret, deletes,
                       orphans, writer, carried>>
        /\ pc \in {"index", "drain"} /\ f \notin mod /\ f \notin candidates \ carried
        /\ disk[f].there \/ f \in removed
        /\ \A u : Indexed(u)' <=> Indexed(u)
        /\ GoneIsEmpty(f)'
    BY WorkerFrame DEF Worker
  <1>3. /\ Extracting(f) /\ f \in job[f].todo /\ flight' = flight \cup {d} /\ job'[f] = NoJob
        /\ unseen' = unseen \ Existing(f) /\ UNCHANGED <<candidates, carried>>
    BY <1>1, TypedNow DEF FailEarly, Launched, Extracting, call
  <1>4. d.udi = f /\ d.sig = job[f].sig /\ d.ver = job[f].ver /\ d.plus
    OBVIOUS
  <1> HIDE DEF d
  <1>5. Flying(f)' = Flying(f) \cup {d} /\ \A v : InFlight(v)' <=> InFlight(v) \/ v = f
    <2>1. FileOf(d.udi) = f
      BY <1>4, FilesAndKids
    <2>2. QED
      BY <1>3, <1>4, <2>1 DEF Flying, FileOf, InFlight
  <1>6. \A e \in Flying(f) : e.sig = job[f].sig /\ e.ver = job[f].ver /\ ~e.plus /\ e.udi # f
    BY <1>1, <1>3 DEF FileOK, Extracted
  <1>7. \A e \in flight' : e.udi = f => e = d
    <2>1. \A e \in flight' : e.udi = f => e \in Flying(f)'
      BY FilesAndKids DEF Flying
    <2>2. QED
      BY <1>5, <1>6, <2>1
  <1>8. Versioned(f)'
    <2>1. /\ job[f].sig <= disk[f].ver /\ job[f].ver <= disk[f].ver
      <3>1. job[f].sig <= disk[f].ver /\ (job[f].ver = 0 \/ job[f].ver <= disk[f].ver)
        BY <1>1, <1>3 DEF FileOK, Versioned, Extracting
      <3>2. disk[f].ver \in Nat /\ job[f].ver \in Nat
        BY <1>1, Types
      <3>3. QED
        BY <3>1, <3>2
    <2>2. \A e \in Flying(f)' :
            /\ e.sig <= disk[f].ver /\ e.ver <= disk[f].ver
            /\ e.sig <= e.ver \/ e.plus
            /\ e.udi # f => e.ver # 0 /\ e.udi \in Parts[f][e.ver] /\ ~e.plus
            /\ e.sig = job[f].sig
      BY <1>1, <1>4, <1>5, <1>6, <2>1 DEF FileOK, Versioned
    <2>3. \A e, g \in Flying(f)' :
            /\ e.sig = g.sig
            /\ g.udi = e.udi => g = e
            /\ ~e.plus /\ ~g.plus => g.ver = e.ver
      <3>1. \A e, g \in Flying(f) : g.udi = e.udi => g = e
        BY <1>1 DEF FileOK, Versioned
      <3>2. QED
        BY <1>4, <1>5, <1>6, <2>2, <3>1
    <2>4. job'[f].at = "none" /\ ~Extracting(f)'
      BY <1>3 DEF NoJob, Extracting
    <2>5. f \in plus => f \notin unseen'
      BY <1>3 DEF Existing
    <2>6. QED
      BY <1>1, <1>2, <2>2, <2>3, <2>4, <2>5 DEF FileOK, Versioned
  <1>9. Timely(f)'
    BY <1>1, <1>2, <1>3 DEF FileOK, Timely, NoJob
  <1>10. Extracted(f)' /\ Rooted(f)' /\ NewIsProper(f)'
    BY <1>2, <1>3, <1>5 DEF Extracted, Extracting, Rooted, NoJob, NewIsProper
  <1>11. UpToDateIsComplete(f)'
    <2>1. ~OwnIs(f, disk[f].ver)'
      BY <1>2, <1>4, <1>5, <1>7 DEF OwnIs
    <2>2. QED
      BY <1>2, <2>1 DEF UpToDateIsComplete
  <1>12. ProcessedIsNow(f)'
    BY <1>3, <1>4 DEF ProcessedIsNow, Failing
  <1>13. FailedIsSeen(f)'
    BY <1>2, <1>3 DEF FailedIsSeen, Existing
  <1>14. QED
    BY <1>2, <1>8, <1>9, <1>10, <1>11, <1>12, <1>13 DEF FileOK

(* The work of a file that nobody goes on with.                            *)
LEMMA Abandoned ==
    ASSUME Updates, NEW f \in Files, FailLate(f) \/ JobDropped(f)
    PROVE  FileOK(f)'
  <1>1. TypeOK /\ FileOK(f)
    BY DEF Updates
  <1>2. /\ UNCHANGED <<disk, removed, modified, del, mod, index, plus, unseen, pc, ret, deletes,
                       orphans, writer, carried, flight, candidates>>
        /\ pc \in {"index", "drain"} /\ f \notin mod /\ f \notin candidates \ carried
        /\ disk[f].there \/ f \in removed
        /\ \A u : Indexed(u)' <=> Indexed(u)
        /\ GoneIsEmpty(f)'
    BY WorkerFrame DEF Worker, FailLate, JobDropped, store, call
  <1>3. /\ job[f].at # "none" /\ job'[f] = NoJob /\ f \in cut'
        /\ FailLate(f) => Extracting(f) /\ f \notin job[f].todo /\ queues' = queues
        /\ JobDropped(f) => queues' = "intern"
    BY <1>1, TypedNow DEF FailLate, JobDropped, Extracting
  <1>4. /\ Flying(f)' = Flying(f) /\ \A u : InFlight(u)' <=> InFlight(u)
        /\ ~Extracting(f)' /\ job'[f].at = "none"
    BY <1>2, <1>3 DEF Flying, InFlight, Extracting, NoJob
  <1>5. Versioned(f)'
    BY <1>1, <1>2, <1>4 DEF FileOK, Versioned
  <1>6. Timely(f)'
    BY <1>1, <1>2, <1>3, <1>4 DEF FileOK, Timely
  <1>7. Extracted(f)' /\ NewIsProper(f)' /\ FailedIsSeen(f)'
    BY <1>1, <1>2, <1>4 DEF FileOK, Extracted, NewIsProper, FailedIsSeen
  <1>8. Rooted(f)'
    BY <1>3 DEF Rooted
  <1>9. UpToDateIsComplete(f)' /\ ProcessedIsNow(f)'
    BY <1>3 DEF UpToDateIsComplete, ProcessedIsNow
  <1>10. QED
    BY <1>2, <1>5, <1>6, <1>7, <1>8, <1>9 DEF FileOK

LEMMA WorkerStep ==
    ASSUME Updates, NEW f \in Files, Worker(f)
    PROVE  Stages' /\ (\A g \in Files : FileOK(g)') /\ Outcome'
  <1>1. FileOK(f)'
    <2>1. ASSUME NEW u \in Udis, Launch(f, u) PROVE FileOK(f)'
      BY <2>1, Launching, LastLaunched
    <2>2. QED
      BY <2>1, NotUpdated, Opened, FailedEarly, Abandoned DEF Worker
  <1>2. QED
    BY <1>1, WorkerFrame

-----------------------------------------------------------------------------
(* The write thread.                                                       *)

LEMMA Written ==
    ASSUME Updates, NEW d \in flight, Write(d)
    PROVE  Stages' /\ (\A g \in Files : FileOK(g)') /\ Outcome'
  <1> DEFINE f == FileOf(d.udi)
  <1> USE DEF tree, store, call, pipe
  <1>1. TypeOK /\ Stages /\ \A g \in Files : FileOK(g)
    BY DEF Updates
  <1>2. /\ UNCHANGED <<disk, removed, modified, del, mod, purging, candidates, pc, ret, stop, job, deletes,
                       orphans, writer, queues, carried, cut>>
        /\ writer /\ pc \in {"index", "drain"} /\ flight' = flight \ {d}
    BY <1>1 DEF Write, Stages
  <1>3. f \in Files /\ d.udi \in {f} \cup KidsOf(f) /\ d.udi \in Udis
    BY <1>1, Types, FilesAndKids
  <1>4. Stages' /\ Outcome'
    BY <1>1, <1>2 DEF Stages, Outcome, Write
  <1>5. /\ \A u \in Udis : index'[u] = IF u = d.udi THEN [sig |-> d.sig, ver |-> d.ver] ELSE index[u]
        /\ \A u : u # d.udi => (u \in plus' <=> u \in plus) /\ (u \in unseen' <=> u \in unseen)
        /\ (d.udi \in plus' <=> d.plus) /\ d.udi \notin unseen'
    <2>1. index \in [Udis -> Text] /\ d.plus \in BOOLEAN
      BY <1>1, TypedNow, Types
    <2>2. QED
      BY <2>1 DEF Write
  <1>6. ASSUME NEW g \in Files, g # f PROVE FileOK(g)'
    <2>1. \A u \in {g} \cup KidsOf(g) : u # d.udi /\ u \in Udis
      BY <1>3, <1>6, FilesAndKids
    <2>2. Flying(g)' = Flying(g)
      BY <1>2, <1>6 DEF Flying, FileOf
    <2>3. Same(g) /\ SameLists(g)
      BY <1>2, <1>5, <2>1, <2>2 DEF Same, SameLists
    <2>4. QED
      BY <1>1, <1>2, <2>3, Untouched
  <1> HIDE DEF f
  <1>7. FileOK(f)'
    <2>1. FileOK(f) /\ d \in Flying(f) /\ Flying(f)' = Flying(f) \ {d}
      BY <1>1, <1>2, <1>3 DEF Flying, FileOf, f
    <2>2. /\ d.sig \in Nat \ {0} /\ d.ver \in Nat /\ d.plus \in BOOLEAN
          /\ d.sig <= disk[f].ver /\ d.ver <= disk[f].ver /\ (d.sig <= d.ver \/ d.plus)
          /\ d.udi # f => d.ver # 0 /\ d.udi \in Parts[f][d.ver] /\ ~d.plus
      BY <1>1, <2>1, Types DEF FileOK, Versioned, Versions
    <2>3. \A e \in flight : e.udi = d.udi => e = d
      BY <2>1 DEF FileOK, Versioned, Flying
    <2>4. /\ \A v : InFlight(v)' <=> InFlight(v) /\ v # d.udi
          /\ InFlight(d.udi)
      BY <1>2, <2>3 DEF InFlight
    <2>5. \A u \in {f} \cup KidsOf(f) : u \in Udis /\ (Indexed(u)' <=> u = d.udi \/ Indexed(u))
      BY <1>3, <1>5, <2>2, FilesAndKids DEF Indexed, NoText
    <2>6. \A k \in KidsOf(f) : k # f
      BY <1>3, FilesAndKids
    <2>7. job[f].at # "none" => ~(job[f].at = "queued")
      BY <2>1 DEF FileOK, Timely
    <2>8. Versioned(f)'
      <3>1. /\ index'[f] # NoText => index'[f].sig # 0
            /\ index'[f].sig <= index'[f].ver \/ f \in plus'
            /\ index'[f].sig <= disk[f].ver /\ index'[f].ver <= disk[f].ver
            /\ f \in plus' => Indexed(f)' /\ f \notin unseen'
        BY <1>3, <1>5, <2>1, <2>2, <2>5 DEF FileOK, Versioned
      <3>2. ASSUME NEW k \in KidsOf(f), Indexed(k)'
            PROVE  /\ index'[k].sig # 0 /\ index'[k].ver # 0 /\ index'[k].sig <= index'[k].ver
                   /\ index'[k].ver <= disk[f].ver /\ k \in Parts[f][index'[k].ver]
        <4>1. CASE k = d.udi
          BY <1>5, <2>2, <2>5, <2>6, <4>1
        <4>2. CASE k # d.udi
          BY <1>5, <2>1, <2>5, <3>2, <4>2 DEF FileOK, Versioned
        <4>3. QED
          BY <4>1, <4>2
      <3>3. QED
        BY <1>2, <2>1, <3>1, <3>2 DEF FileOK, Versioned, Extracting
    <2>9. Timely(f)'
      BY <1>2, <2>1 DEF FileOK, Timely
    <2>10. Extracted(f)'
      <3>1. SUFFICES ASSUME Extracting(f) PROVE Extracted(f)'
        BY <1>2 DEF Extracted, Extracting
      <3>2. job[f].ver # 0 /\ d.sig = job[f].sig /\ d.ver = job[f].ver /\ ~d.plus
        BY <2>1, <3>1 DEF FileOK, Extracted
      <3>3. \A u \in ({f} \cup Parts[f][job[f].ver]) \ job[f].todo :
                (queues = "ok" /\ writer) \/ f \notin cut =>
                InFlight(u)' \/ (/\ index'[u] = [sig |-> job[f].sig, ver |-> job[f].ver]
                                 /\ u \notin plus' \cup unseen')
        <4>1. Parts[f][job[f].ver] \subseteq Udis
          BY <1>1, <1>3, <3>2, Types, FilesAndKids DEF Versions
        <4>2. QED
          BY <1>3, <1>5, <2>1, <2>4, <2>5, <3>1, <3>2, <4>1 DEF FileOK, Extracted
      <3>4. \A k \in KidsOf(f) : Indexed(k)' => Indexed(k) \/ k \in Parts[f][job[f].ver]
        BY <2>2, <2>5, <2>6, <3>2
      <3>5. \A k \in KidsOf(f) : k \in Parts[f][job[f].ver] \/ index'[k] = index[k]
        BY <1>5, <2>2, <2>5, <2>6, <3>2
      <3>6. QED
        BY <1>2, <2>1, <3>1, <3>2, <3>3, <3>4, <3>5 DEF FileOK, Extracted
    <2>11. Rooted(f)'
      <3>1. d.udi = f \/ d.udi \in KidsOf(f)
        BY <1>3
      <3>2. QED
        BY <1>2, <2>1, <2>4, <2>5, <3>1 DEF FileOK, Rooted, Extracting
    <2>12. \A e \in flight : e.udi = f => e = d \/ (e \in flight' /\ d.udi # f)
      BY <1>2, <2>3
    <2>13. \A s : s # 0 => (OwnIs(f, s)' => OwnIs(f, s)) /\ (OwnIs(f, s) => OwnIs(f, s)')
      <3>1. CASE d.udi = f
        BY <1>2, <1>3, <1>5, <2>3, <2>4, <3>1 DEF OwnIs
      <3>2. CASE d.udi # f
        <4>1. \A e : e.udi = f => (e \in flight' <=> e \in flight)
          BY <1>2, <3>2
        <4>2. (InFlight(f)' <=> InFlight(f)) /\ index'[f] = index[f] /\ (f \in plus' <=> f \in plus)
          BY <1>5, <2>4, <2>5, <3>2
        <4>3. QED
          BY <4>1, <4>2 DEF OwnIs
      <3>3. QED
        BY <3>1, <3>2
    <2>14. Failing(f)' <=> Failing(f)
      <3>1. CASE d.udi = f
        BY <1>2, <1>5, <2>3, <2>4, <3>1 DEF Failing
      <3>2. CASE d.udi # f
        <4>1. \A e : e.udi = f => (e \in flight' <=> e \in flight)
          BY <1>2, <3>2
        <4>2. (InFlight(f)' <=> InFlight(f)) /\ (f \in plus' <=> f \in plus)
          BY <1>5, <2>4, <3>2
        <4>3. QED
          BY <4>1, <4>2 DEF Failing
      <3>3. QED
        BY <3>1, <3>2
    <2>15. disk[f].ver # 0 /\ Parts[f][disk[f].ver] \subseteq KidsOf(f)
      BY <1>1, <1>3, Types, FilesAndKids
    <2>16. UpToDateIsComplete(f)'
      <3>1. SUFFICES ASSUME Complete(f, disk[f].ver) PROVE Complete(f, disk[f].ver)'
        BY <1>2, <2>1, <2>13, <2>15 DEF FileOK, UpToDateIsComplete, Live, Extracting
      <3>2. d.sig = disk[f].ver /\ d.ver = disk[f].ver
        BY <2>1, <3>1 DEF Complete
      <3>3. \A u \in {f} \cup Parts[f][disk[f].ver] :
                InFlight(u)' \/ index'[u] = [sig |-> disk[f].ver, ver |-> disk[f].ver]
        BY <1>5, <2>4, <2>5, <2>15, <3>1, <3>2 DEF Complete
      <3>4. \A k \in KidsOf(f) \ Parts[f][disk[f].ver] : k # d.udi /\ index'[k] = index[k]
        BY <1>5, <2>2, <2>5, <2>6, <3>2
      <3>5. OrphansToGo(f)' <=> OrphansToGo(f)
        BY <1>2 DEF OrphansToGo
      <3>6. QED
        BY <1>2, <2>1, <3>1, <3>3, <3>4, <3>5 DEF Complete, Indexed
    <2>17. ProcessedIsNow(f)'
      <3>1. \A u \in {f} \cup Parts[f][disk[f].ver] : (u \in unseen => InFlight(u)) =>
                (u \in unseen' => InFlight(u)')
        BY <1>5, <2>4
      <3>2. QED
        BY <1>2, <2>1, <2>13, <2>14, <2>15, <3>1 DEF FileOK, ProcessedIsNow, Live
    <2>18. GoneIsEmpty(f)'
      BY <1>2, <2>1 DEF FileOK, Timely, GoneIsEmpty
    <2>19. FailedIsSeen(f)'
      <3>1. f \in plus' \/ (\E e \in flight' : e.udi = f /\ e.plus) =>
                f \in plus \/ (\E e \in flight : e.udi = f /\ e.plus)
        BY <1>2, <1>5
      <3>2. QED
        BY <1>5, <2>1, <2>5, <3>1 DEF FileOK, FailedIsSeen
    <2>20. NewIsProper(f)'
      BY <1>2, <2>1, <2>14 DEF FileOK, NewIsProper
    <2>21. QED
      BY <2>8, <2>9, <2>10, <2>11, <2>16, <2>17, <2>18, <2>19, <2>20 DEF FileOK
  <1>8. QED
    BY <1>4, <1>6, <1>7

LEMMA FileDeleted ==
    ASSUME Updates, NEW f \in Files, DeleteFile(f)
    PROVE  Stages' /\ (\A g \in Files : FileOK(g)') /\ Outcome'
  <1> USE DEF tree, store, call, pipe
  <1>1. TypeOK /\ Stages /\ \A g \in Files : FileOK(g)
    BY DEF Updates
  <1>2. /\ UNCHANGED <<disk, removed, modified, del, mod, purging, candidates, pc, ret, stop, job, flight,
                       unseen, orphans, writer, queues, carried>>
        /\ writer /\ pc = "delete" /\ flight = {} /\ f \in deletes /\ deletes' = deletes \ {f}
        /\ cut' = cut \ {f} /\ plus' = plus \ {f} /\ \A g \in Files : job[g] = NoJob /\ job[g].at = "none"
    BY <1>1 DEF DeleteFile, Stages, NoJob
  <1>3. Stages' /\ Outcome'
    BY <1>1, <1>2 DEF Stages, Outcome
  <1>4. \A u \in Udis : index'[u] = IF FileOf(u) = f THEN NoText ELSE index[u]
    BY DEF DeleteFile
  <1>5. ASSUME NEW g \in Files, g # f PROVE FileOK(g)'
    <2>1. \A u \in {g} \cup KidsOf(g) : u # f /\ u \in Udis /\ FileOf(u) = g
      BY <1>5, FilesAndKids
    <2>2. Flying(g)' = Flying(g)
      BY <1>2 DEF Flying
    <2>3. Same(g) /\ SameLists(g)
      BY <1>2, <1>4, <1>5, <2>1, <2>2 DEF Same, SameLists
    <2>4. QED
      BY <1>1, <1>2, <2>3, Untouched
  <1>6. FileOK(f)'
    <2>1. /\ \A u : ~InFlight(u)'
          /\ Flying(f)' = {} /\ ~Extracting(f)' /\ f \notin plus'
      BY <1>2 DEF InFlight, Flying, Extracting
    <2>2. \A u \in {f} \cup KidsOf(f) : index'[u] = NoText /\ ~Indexed(u)'
      BY <1>4, FilesAndKids DEF Indexed
    <2>3. NoText.sig = 0 /\ NoText.ver = 0
      BY DEF NoText
    <2>4. Versioned(f)'
      BY <1>1, <1>2, <2>1, <2>2, <2>3, Types DEF Versioned
    <2>5. Timely(f)'
      BY <1>1, <1>2, <2>1 DEF FileOK, Timely
    <2>6. Extracted(f)' /\ Rooted(f)' /\ GoneIsEmpty(f)' /\ FailedIsSeen(f)' /\ NewIsProper(f)'
      BY <1>2, <2>1, <2>2 DEF Extracted, Rooted, GoneIsEmpty, FailedIsSeen, NewIsProper
    <2>7. UpToDateIsComplete(f)'
      <3>1. ~OwnIs(f, disk[f].ver)'
        BY <1>1, <1>2, <2>1, <2>2, <2>3, Types DEF OwnIs
      <3>2. QED
        BY <1>2, <3>1 DEF UpToDateIsComplete
    <2>8. ProcessedIsNow(f)'
      BY <1>1, <1>2 DEF FileOK, Timely, ProcessedIsNow
    <2>9. QED
      BY <2>4, <2>5, <2>6, <2>7, <2>8 DEF FileOK
  <1>7. QED
    BY <1>3, <1>5, <1>6

LEMMA OrphansDeleted ==
    ASSUME Updates, NEW f \in Files, DeleteOrphans(f)
    PROVE  Stages' /\ (\A g \in Files : FileOK(g)') /\ Outcome'
  <1> USE DEF tree, store, call, pipe
  <1>1. TypeOK /\ Stages /\ \A g \in Files : FileOK(g)
    BY DEF Updates
  <1>2. /\ UNCHANGED <<disk, removed, modified, del, mod, purging, candidates, pc, ret, stop, job, flight,
                       plus, unseen, deletes, writer, queues, carried, cut>>
        /\ pc = "orphans" /\ flight = {} /\ orphans' = orphans \ {f}
        /\ \A g \in Files : job[g] = NoJob /\ job[g].at = "none"
    BY <1>1 DEF DeleteOrphans, Stages, NoJob
  <1>3. Stages' /\ Outcome'
    BY <1>1, <1>2 DEF Stages, Outcome
  <1>4. \A u \in Udis : index'[u] = IF u \in KidsOf(f) /\ Orphan(u) /\ Indexed(f) THEN NoText ELSE index[u]
    BY DEF DeleteOrphans
  <1>5. ASSUME NEW g \in Files, g # f PROVE FileOK(g)'
    <2>1. \A u \in {g} \cup KidsOf(g) : u \notin KidsOf(f) /\ u \in Udis
      BY <1>5, FilesAndKids
    <2>2. Flying(g)' = Flying(g)
      BY <1>2 DEF Flying
    <2>3. Same(g) /\ SameLists(g)
      BY <1>2, <1>4, <1>5, <2>1, <2>2 DEF Same, SameLists
    <2>4. QED
      BY <1>1, <1>2, <2>3, Untouched
  <1>6. FileOK(f)'
    <2>1. /\ \A u : ~InFlight(u)' /\ ~InFlight(u)
          /\ Flying(f)' = {} /\ ~Extracting(f)' /\ ~Extracting(f)
      BY <1>2 DEF InFlight, Flying, Extracting
    <2>2. index'[f] = index[f] /\ (Indexed(f)' <=> Indexed(f))
      BY <1>4, FilesAndKids DEF Indexed
    <2>3. \A k \in KidsOf(f) : /\ index'[k] = index[k] \/ index'[k] = NoText
                               /\ Indexed(k)' => Indexed(k) /\ index'[k] = index[k]
      BY <1>4, FilesAndKids DEF Indexed
    <2>4. /\ \A s : OwnIs(f, s)' <=> OwnIs(f, s)
          /\ Failing(f)' <=> Failing(f)
      BY <1>2, <2>1, <2>2 DEF OwnIs, Failing
    <2>5. Versioned(f)'
      BY <1>1, <1>2, <2>1, <2>2, <2>3 DEF FileOK, Versioned
    <2>6. Timely(f)' /\ NewIsProper(f)'
      BY <1>1, <1>2, <2>1, <2>4 DEF FileOK, Timely, NewIsProper
    <2>7. Extracted(f)' /\ Rooted(f)' /\ GoneIsEmpty(f)' /\ FailedIsSeen(f)'
      BY <1>1, <1>2, <2>1, <2>2, <2>3 DEF FileOK, Extracted, Rooted, GoneIsEmpty, FailedIsSeen, Live
    <2>8. UpToDateIsComplete(f)'
      <3>1. SUFFICES ASSUME Complete(f, disk[f].ver), OwnIs(f, disk[f].ver)
                     PROVE  Complete(f, disk[f].ver)'
        BY <1>1, <1>2, <2>1, <2>4 DEF FileOK, UpToDateIsComplete, Live
      <3>2. index[f].sig = disk[f].ver /\ f \notin plus /\ disk[f].ver # 0
        BY <1>1, <1>2, <2>1, <3>1, Types DEF OwnIs
      <3>3. Indexed(f) /\ Parts[f][disk[f].ver] \subseteq KidsOf(f)
        BY <1>1, <3>2, Types, FilesAndKids DEF Indexed, NoText
      <3>4. \A u \in Parts[f][disk[f].ver] : index[u] = [sig |-> disk[f].ver, ver |-> disk[f].ver]
        BY <2>1, <3>1 DEF Complete
      <3>5. \A k \in KidsOf(f) : Parent[k] = f /\ k \in Udis
        BY FilesAndKids
      <3>6. \A u \in Parts[f][disk[f].ver] : index'[u] = index[u]
        BY <1>4, <3>2, <3>3, <3>4, <3>5 DEF Orphan
      <3>7. \A k \in KidsOf(f) \ Parts[f][disk[f].ver] : ~Indexed(k)'
        <4>1. ASSUME NEW k \in KidsOf(f) \ Parts[f][disk[f].ver], Indexed(k) PROVE Orphan(k)
          BY <3>1, <3>2, <3>5, <4>1 DEF Complete, Orphan
        <4>2. QED
          BY <1>4, <3>3, <3>5, <4>1 DEF Indexed
      <3>8. QED
        BY <1>2, <2>1, <2>2, <3>1, <3>4, <3>6, <3>7 DEF Complete
    <2>9. ProcessedIsNow(f)'
      BY <1>1, <1>2, <2>1, <2>4 DEF FileOK, ProcessedIsNow, Live
    <2>10. QED
      BY <2>5, <2>6, <2>7, <2>8, <2>9 DEF FileOK
  <1>7. QED
    BY <1>3, <1>5, <1>6

(* What the write queue loses: of the files concerned all that is claimed  *)
(* is that they were cut.                                                  *)
LEMMA Lost ==
    ASSUME Updates, UNCHANGED <<disk, removed, modified, del, mod, purging, candidates, pc, ret, stop,
                                job, index, plus, unseen, carried>>,
           flight' \subseteq flight, writer' = writer \/ ~writer', queues' = queues \/ queues' # "ok",
           deletes' \subseteq deletes, orphans' \subseteq orphans, cut \subseteq cut',
           writer' \/ (deletes' = {} /\ orphans' = {}),
           \A f \in Files :
                \/ /\ Flying(f)' = Flying(f) /\ (f \in cut' <=> f \in cut)
                   /\ (f \in deletes' <=> f \in deletes) /\ (f \in orphans' <=> f \in orphans)
                \/ /\ f \in cut'
                   /\ ~writer' \/ (queues' # "ok" /\ ~ret)
    PROVE  Stages' /\ (\A g \in Files : FileOK(g)') /\ Outcome'
  <1>1. TypeOK /\ Stages /\ \A g \in Files : FileOK(g)
    BY DEF Updates
  <1>2. Stages'
    BY <1>1 DEF Stages
  <1>3. Outcome'
    BY DEF Updates, Outcome, Settled, Exact, Excused, PartsNow, Indexed
  <1>4. ASSUME NEW f \in Files PROVE FileOK(f)'
    <2>1. CASE /\ Flying(f)' = Flying(f) /\ (f \in cut' <=> f \in cut)
               /\ (f \in deletes' <=> f \in deletes) /\ (f \in orphans' <=> f \in orphans)
      <3>1. Same(f) /\ SameLists(f)
        BY <2>1 DEF Same, SameLists
      <3>2. QED
        BY <1>1, <3>1, Untouched
    <2>2. CASE f \in cut' /\ (~writer' \/ (queues' # "ok" /\ ~ret))
      <3>1. /\ Flying(f)' \subseteq Flying(f)
            /\ Extracting(f)' <=> Extracting(f)
            /\ \A u : (InFlight(u)' => InFlight(u)) /\ (Indexed(u)' <=> Indexed(u))
        BY DEF Flying, Extracting, InFlight, Indexed
      <3>2. Versioned(f)'
        BY <1>1, <3>1 DEF FileOK, Versioned
      <3>3. Timely(f)'
        BY <1>1, <3>1 DEF FileOK, Timely
      <3>4. Extracted(f)'
        BY <1>1, <2>2, <3>1 DEF FileOK, Extracted
      <3>5. Rooted(f)'
        BY <2>2 DEF Rooted
      <3>6. UpToDateIsComplete(f)' /\ ProcessedIsNow(f)' /\ GoneIsEmpty(f)'
        BY <2>2 DEF UpToDateIsComplete, ProcessedIsNow, GoneIsEmpty
      <3>7. FailedIsSeen(f)' /\ NewIsProper(f)'
        BY <1>1, <2>2, <3>1 DEF FileOK, FailedIsSeen, NewIsProper
      <3>8. QED
        BY <3>2, <3>3, <3>4, <3>5, <3>6, <3>7 DEF FileOK
    <2>3. QED
      BY <2>1, <2>2
  <1>5. QED
    BY <1>2, <1>3, <1>4

LEMMA Quits ==
    ASSUME Updates, WriterQuits
    PROVE  Stages' /\ (\A g \in Files : FileOK(g)') /\ Outcome'
  <1> USE DEF tree, store, call
  <1>1. PICK lost \in SUBSET flight :
            /\ flight' = flight \ lost
            /\ cut' = cut \cup {FileOf(d.udi) : d \in lost} \cup deletes \cup orphans
    BY DEF WriterQuits
  <1>2. /\ UNCHANGED <<disk, removed, modified, del, mod, purging, candidates, pc, ret, stop, job,
                       index, plus, unseen, queues, carried>>
        /\ deletes' = {} /\ orphans' = {} /\ writer' = FALSE
    BY DEF WriterQuits
  <1>3. ASSUME NEW f \in Files,
               \/ f \notin cut'
               \/ f \in cut /\ f \notin {FileOf(d.udi) : d \in lost} \cup deletes \cup orphans
        PROVE  /\ Flying(f)' = Flying(f) /\ (f \in cut' <=> f \in cut)
               /\ (f \in deletes' <=> f \in deletes) /\ (f \in orphans' <=> f \in orphans)
    <2>1. \A d \in lost : FileOf(d.udi) # f
      BY <1>1, <1>3
    <2>2. Flying(f)' = Flying(f)
      BY <1>1, <2>1 DEF Flying, FileOf
    <2>3. QED
      BY <1>1, <1>2, <1>3, <2>2
  <1>4. QED
    BY <1>1, <1>2, <1>3, Lost

LEMMA TaskDropped ==
    ASSUME Updates, Dropped
    PROVE  Stages' /\ (\A g \in Files : FileOK(g)') /\ Outcome'
  <1> USE DEF tree, store, call
  <1>1. PICK d \in flight :
            /\ flight' = flight \ {d} /\ cut' = cut \cup {FileOf(d.udi)}
            /\ queues' = IF queues = "ok" THEN "split" ELSE queues
    BY DEF Dropped
  <1>2. /\ UNCHANGED <<disk, removed, modified, del, mod, purging, candidates, pc, ret, stop, job,
                       index, plus, unseen, deletes, orphans, writer, carried>>
        /\ ~writer \/ ~ret
        /\ queues' # "ok"
    BY <1>1 DEF Dropped
  <1>3. writer \/ (deletes = {} /\ orphans = {})
    BY DEF Updates, Stages
  <1>4. ASSUME NEW f \in Files, f # FileOf(d.udi)
        PROVE  Flying(f)' = Flying(f) /\ (f \in cut' <=> f \in cut)
    BY <1>1, <1>4 DEF Flying, FileOf
  <1>5. QED
    BY <1>1, <1>2, <1>3, <1>4, Lost

-----------------------------------------------------------------------------
(* The invariant.                                                          *)

LEMMA UpdatesNext ==
    ASSUME Updates, [Next]_vars
    PROVE  Updates'
  <1>1. TypeOK /\ \A g \in Files : FileOK(g)
    BY DEF Updates
  <1>2. CASE Main
    <2>1. TypeOK'
      BY <1>1, <1>2, MainTyped
    <2>2. Stages' /\ (\A g \in Files : FileOK(g)') /\ Outcome'
      BY <1>2, CallsStart, FilePurged, OneProcessed, StageStep, Purged DEF Main
    <2>3. QED
      BY <2>1, <2>2 DEF Updates
  <1>3. ASSUME NEW f \in Files, Worker(f) PROVE Updates'
    BY <1>1, <1>3, WorkerTyped, WorkerStep DEF Updates
  <1>4. CASE Writer \/ WriterQuits
    <2>1. TypeOK'
      BY <1>1, <1>4, WriterTyped
    <2>2. Stages' /\ (\A g \in Files : FileOK(g)') /\ Outcome'
      BY <1>4, Written, FileDeleted, OrphansDeleted, TaskDropped, Quits DEF Writer
    <2>3. QED
      BY <2>1, <2>2 DEF Updates
  <1>5. ASSUME NEW f \in Files, Modify(f) \/ Remove(f) PROVE Updates'
    BY <1>1, <1>5, TreeTyped, TreeStep DEF Updates
  <1>6. CASE Interrupt
    <2>1. TypeOK'
      BY <1>1, <1>6, TypedNow, TypedNext DEF Interrupt, tree, store, call, pipe
    <2>2. QED
      BY <1>6, <2>1, StageStep DEF Updates
  <1>7. CASE UNCHANGED vars
    <2> USE DEF vars, tree, store, call, pipe
    <2>1. UNCHANGED <<disk, removed, modified, del, mod, purging, candidates, pc, ret, stop, job, flight,
                      index, plus, unseen, deletes, orphans, writer, queues, carried, cut>>
      BY <1>7
    <2>2. TypeOK' /\ Stages' /\ Outcome'
      BY <2>1 DEF Updates, TypeOK, Stages, Outcome, Settled, Exact, Excused, PartsNow, Indexed
    <2>3. ASSUME NEW g \in Files PROVE FileOK(g)'
      BY <1>1, <2>1, <2>3, Untouched DEF Same, SameLists, Flying
    <2>4. QED
      BY <2>2, <2>3 DEF Updates
  <1>8. QED
    BY <1>2, <1>3, <1>4, <1>5, <1>6, <1>7 DEF Next

LEMMA UpdatesInit == Init => Updates
  <1> SUFFICES ASSUME Init PROVE Updates
    OBVIOUS
  <1>1. PICK old \in [Files -> 0 .. MaxVersion] :
            /\ \A f \in Files : old[f] <= disk[f].ver
            /\ purging \/ \A f \in Files : old[f] = IF disk[f].there THEN disk[f].ver ELSE 0
            /\ index = IndexOf(old)
    BY DEF Init
  <1>2. /\ purging \in BOOLEAN /\ plus = {} /\ removed = {} /\ modified = {} /\ del = {} /\ candidates = {}
        /\ mod = (IF purging THEN {f \in Files : disk[f].there} ELSE {})
        /\ unseen = (IF purging THEN {u \in Udis : Indexed(u)} ELSE {})
        /\ pc = (IF purging THEN "index" ELSE "idle") /\ ret = TRUE /\ stop = FALSE
        /\ flight = {} /\ deletes = {} /\ orphans = {} /\ writer = TRUE /\ queues = "ok"
        /\ carried = {} /\ cut = {} /\ job = [f \in Files |-> NoJob]
    BY DEF Init
  <1>3. disk \in Trees
    <2>1. disk \in [Files -> [there : BOOLEAN, ver : IF purging THEN Versions ELSE {1}]]
      BY DEF Init
    <2>2. (IF purging THEN Versions ELSE {1}) \subseteq Versions
      BY FilesAssumption DEF Versions
    <2>3. \A f \in Files : disk[f] \in [there : BOOLEAN, ver : Versions]
      BY <2>1, <2>2
    <2>4. QED
      BY <2>1, <2>3 DEF Trees
  <1>4. \A f \in Files : disk[f].ver \in Versions /\ disk[f].ver \in Nat \ {0} /\ disk[f].there \in BOOLEAN
    BY <1>3, FilesAssumption DEF Trees, Versions
  <1>5. \A f \in Files : old[f] \in 0 .. MaxVersion /\ old[f] \in Nat /\ (old[f] # 0 => old[f] \in Versions)
    BY <1>1, FilesAssumption DEF Versions
  <1>6. \A u \in Udis :
            index[u] = IF old[FileOf(u)] # 0 /\ (u \in Files \/ u \in Parts[FileOf(u)][old[FileOf(u)]])
                       THEN [sig |-> old[FileOf(u)], ver |-> old[FileOf(u)]] ELSE NoText
    BY <1>1 DEF IndexOf
  <1>7. TypeOK
    <2>1. index \in [Udis -> Text]
      <3>1. \A u \in Udis : index[u] \in Text
        <4>1. \A v \in 0 .. MaxVersion : [sig |-> v, ver |-> v] \in Text
          BY DEF Text
        <4>2. \A u \in Udis : old[FileOf(u)] \in 0 .. MaxVersion
          BY <1>5, FilesAndKids
        <4>3. \A u \in Udis :
                \/ index[u] = NoText
                \/ \E v \in 0 .. MaxVersion : index[u] = [sig |-> v, ver |-> v]
          BY <1>6, <4>2
        <4>4. QED
          BY <4>1, <4>3, NoJobIsJob
      <3>2. QED
        BY <1>1, <3>1 DEF IndexOf
    <2>2. job \in [Files -> Job]
      BY <1>2, NoJobIsJob
    <2>3. QED
      BY <1>2, <1>3, <2>1, <2>2 DEF TypeOK, Trees
  <1>8. Stages /\ Outcome
    BY <1>2 DEF Stages, Outcome
  <1>9. ASSUME NEW f \in Files PROVE FileOK(f)
    <2>1. /\ index[f] = IF old[f] # 0 THEN [sig |-> old[f], ver |-> old[f]] ELSE NoText
          /\ \A k \in KidsOf(f) :
                /\ index[k] = IF old[f] # 0 /\ k \in Parts[f][old[f]]
                              THEN [sig |-> old[f], ver |-> old[f]] ELSE NoText
                /\ k \in Udis
          /\ f \in Udis
      BY <1>6, FilesAndKids
    <2>2. /\ Indexed(f) <=> old[f] # 0
          /\ \A k \in KidsOf(f) : Indexed(k) <=> old[f] # 0 /\ k \in Parts[f][old[f]]
          /\ index[f].sig = old[f] /\ index[f].ver = old[f]
          /\ \A k \in KidsOf(f) : Indexed(k) => index[k].sig = old[f] /\ index[k].ver = old[f]
      <3>1. [sig |-> old[f], ver |-> old[f]].sig = old[f] /\ [sig |-> old[f], ver |-> old[f]].ver = old[f]
        OBVIOUS
      <3>2. NoText.sig = 0 /\ NoText.ver = 0
        BY DEF NoText
      <3>3. QED
        BY <2>1, <3>1, <3>2 DEF Indexed
    <2>3. old[f] \in Nat /\ old[f] <= disk[f].ver /\ disk[f].ver \in Nat \ {0} /\ disk[f].there \in BOOLEAN
      BY <1>1, <1>4, <1>5
    <2>4. /\ job[f] = NoJob /\ job[f].at = "none" /\ ~Extracting(f) /\ Flying(f) = {}
          /\ \A u : ~InFlight(u)
      BY <1>2 DEF NoJob, Extracting, Flying, InFlight
    <2>5. Versioned(f)
      <3>1. /\ index[f].sig <= index[f].ver
            /\ index[f].sig <= disk[f].ver /\ index[f].ver <= disk[f].ver
            /\ index[f] # NoText => index[f].sig # 0
        BY <2>2, <2>3 DEF Indexed
      <3>2. \A k \in KidsOf(f) : Indexed(k) =>
              /\ index[k].sig # 0 /\ index[k].ver # 0 /\ index[k].sig <= index[k].ver
              /\ index[k].ver <= disk[f].ver
              /\ k \in Parts[f][index[k].ver]
        BY <2>2, <2>3
      <3>3. QED
        BY <1>2, <2>4, <3>1, <3>2 DEF Versioned
    <2>6. Timely(f) /\ Extracted(f) /\ FailedIsSeen(f) /\ NewIsProper(f)
      BY <1>2, <2>4 DEF Timely, Extracted, FailedIsSeen, NewIsProper
    <2>7. Rooted(f)
      BY <2>2, <2>4 DEF Rooted
    <2>8. UpToDateIsComplete(f)
      <3>1. SUFFICES ASSUME old[f] = disk[f].ver PROVE Complete(f, disk[f].ver)
        BY <1>2, <2>2, <2>4 DEF UpToDateIsComplete, OwnIs
      <3>2. Parts[f][disk[f].ver] \subseteq KidsOf(f)
        BY <1>4, FilesAndKids
      <3>3. QED
        BY <2>1, <2>2, <2>3, <2>4, <3>1, <3>2 DEF Complete
    <2>9. ProcessedIsNow(f)
      <3>1. SUFFICES ASSUME ~purging, disk[f].there PROVE OwnIs(f, disk[f].ver) /\ unseen = {}
        BY <1>2, <2>4 DEF ProcessedIsNow
      <3>2. QED
        BY <1>1, <1>2, <2>2, <2>4, <3>1 DEF OwnIs
    <2>10. GoneIsEmpty(f)
      <3>1. CASE purging
        BY <1>2, <2>1, <3>1 DEF GoneIsEmpty
      <3>2. CASE ~purging
        BY <1>1, <2>2, <3>2 DEF GoneIsEmpty
      <3>3. QED
        BY <3>1, <3>2
    <2>11. QED
      BY <2>5, <2>6, <2>7, <2>8, <2>9, <2>10 DEF FileOK
  <1>10. QED
    BY <1>7, <1>8, <1>9 DEF Updates

LEMMA UpdatesAlways == Spec => []Updates
  <1>1. Init => Updates
    BY UpdatesInit
  <1>2. Updates /\ [Next]_vars => Updates'
    BY UpdatesNext
  <1>3. QED
    BY <1>1, <1>2, PTL DEF Spec

(* Between the calls of the monitor, and after the command with a purge,   *)
(* the index has the present text of every file without an event, unless   *)
(* its handler failed or work was dropped.                                 *)
THEOREM UpdatedIsExact == Spec => []UpdateIsExact
  <1>1. ASSUME Updates PROVE UpdateIsExact
    <2>1. SUFFICES ASSUME pc = "idle", NEW f \in Files, Settled(f), ~Excused(f) PROVE Exact(f)
      BY <1>1 DEF Updates, Outcome, UpdateIsExact
    <2>2. ret /\ unseen = {} /\ f \notin plus
      BY <1>1, <2>1 DEF Updates, Stages, Excused
    <2>3. QED
      BY <1>1, <2>1, <2>2, WhenDone DEF Exact
  <1>2. QED
    BY <1>1, UpdatesAlways, PTL

(* A subdocument that its file still holds is deleted in three cases only: *)
(* the file was deleted and is to be indexed again, its orphans were       *)
(* recorded by an earlier call and its handler failed or was cut short, or *)
(* the purge comes after a call or a file that was.                        *)
THEOREM WhatIsHeldIsKept == Spec => HeldIsKept
  <1> DEFINE Kept ==
        \A k \in Kids :
            LET f == Parent[k]
            IN  /\ Indexed(k) /\ index'[k] = NoText
                /\ k \in PartsNow(f) /\ f \notin removed \cup modified
                => \/ pc = "delete" /\ f \in mod
                   \/ pc = "orphans" /\ f \in carried /\ Excused(f)
                   \/ pc = "purge" /\ (~ret \/ f \in cut)
  <1>1. ASSUME Updates, [Next]_vars PROVE Kept
    <2> USE DEF tree, store, call, pipe
    <2>1. SUFFICES ASSUME NEW k \in Kids, NEW f \in Files, f = Parent[k], Indexed(k), index'[k] = NoText,
                          k \in PartsNow(f), f \notin removed \cup modified
                   PROVE  \/ pc = "delete" /\ f \in mod
                          \/ pc = "orphans" /\ f \in carried /\ Excused(f)
                          \/ pc = "purge" /\ (~ret \/ f \in cut)
      BY FilesAndKids
    <2>2. TypeOK /\ Stages /\ FileOK(f) /\ \A g \in Files : FileOK(g)
      BY <1>1 DEF Updates
    <2>3. disk[f].there /\ k \in Parts[f][disk[f].ver] /\ disk[f].ver # 0
      BY <2>1, <2>2, Types DEF PartsNow
    <2>4. k \in Udis /\ FileOf(k) = f /\ k \in KidsOf(f) /\ k \notin Files
      BY <2>1, FilesAndKids DEF KidsOf
    <2>5. ASSUME NEW d \in flight, Write(d) PROVE FALSE
      <3>1. d.sig # 0 /\ index \in [Udis -> Text]
        BY <2>2, Types, TypedNow, FilesAssumption DEF Versions
      <3>2. index'[k] = index[k] \/ index'[k].sig # 0
        BY <2>4, <2>5, <3>1 DEF Write
      <3>3. QED
        BY <2>1, <3>2 DEF Indexed, NoText
    <2>6. ASSUME NEW g \in Files, DeleteFile(g) PROVE pc = "delete" /\ f \in mod
      <3>1. g = f
        BY <2>1, <2>4, <2>6 DEF DeleteFile, Indexed
      <3>2. QED
        BY <2>1, <2>2, <2>3, <2>6, <3>1 DEF DeleteFile, Stages, FileOK, Timely
    <2>7. ASSUME NEW g \in Files, DeleteOrphans(g) PROVE pc = "orphans" /\ f \in carried /\ Excused(f)
      <3>1. g = f /\ Orphan(k) /\ f \in orphans /\ writer
        BY <2>1, <2>4, <2>7 DEF DeleteOrphans, Indexed, KidsOf
      <3>2. /\ pc = "orphans" /\ ret /\ mod = {} /\ f \in candidates /\ job[f].at = "none" /\ flight = {}
        BY <2>2, <3>1 DEF Stages, NoJob
      <3>3. \A u : ~InFlight(u)
        BY <3>2 DEF InFlight
      <3>4. Excused(f)
        <4>1. SUFFICES ASSUME f \notin plus, f \notin cut PROVE FALSE
          BY DEF Excused
        <4>2. ~Failing(f)
          BY <3>2, <4>1 DEF Failing
        <4>3. OwnIs(f, disk[f].ver)
          BY <2>1, <2>2, <2>3, <3>2, <4>1, <4>2 DEF FileOK, ProcessedIsNow, Live
        <4>4. Complete(f, disk[f].ver)
          BY <2>2, <3>2, <4>1, <4>3 DEF FileOK, UpToDateIsComplete, Live, Extracting
        <4>5. QED
          BY <2>1, <2>3, <3>1, <3>3, <4>1, <4>4 DEF Complete, Orphan
      <3>5. f \in carried
        BY <2>2, <3>1, <3>2, <3>3, <3>4 DEF FileOK, NewIsProper, Excused, Failing
      <3>6. QED
        BY <3>2, <3>4, <3>5
    <2>8. ASSUME Purge PROVE pc = "purge" /\ (~ret \/ f \in cut)
      <3>1. pc = "purge" /\ k \in unseen /\ flight = {} /\ job[f].at = "none" /\ (ret => mod = {})
        BY <2>1, <2>2, <2>4, <2>8 DEF Purge, Indexed, Stages, NoJob
      <3>2. SUFFICES ASSUME ret, f \notin cut PROVE FALSE
        BY <3>1
      <3>3. ~InFlight(k)
        BY <3>1 DEF InFlight
      <3>4. Failing(f)
        BY <2>1, <2>2, <2>3, <3>1, <3>2, <3>3 DEF FileOK, ProcessedIsNow
      <3>5. QED
        BY <2>1, <2>2, <2>4, <3>1, <3>4 DEF FileOK, FailedIsSeen, Failing
    <2>9. \/ \E d \in flight : Write(d)
          \/ \E g \in Files : DeleteFile(g) \/ DeleteOrphans(g)
          \/ Purge
          \/ UNCHANGED index
      <3>1. CASE Main
        BY <3>1 DEF Main, StartCalls, PurgeFile, ProcessOne, PurgeFilesFails, PurgeFilesEnds,
                    StartIndexFiles, ProcessOneFails, ListEnds, Drained, OrphansEnd
      <3>2. ASSUME NEW g \in Files, Worker(g) PROVE UNCHANGED index
        BY <1>1, <3>2, WorkerFrame
      <3>3. CASE Writer \/ WriterQuits
        BY <3>3 DEF Writer, WriterQuits, Dropped
      <3>4. ASSUME NEW g \in Files, Modify(g) \/ Remove(g) \/ Interrupt PROVE UNCHANGED index
        BY <3>4 DEF Modify, Remove, Interrupt
      <3>5. CASE UNCHANGED vars
        BY <3>5 DEF vars
      <3>6. CASE Interrupt
        BY <3>6 DEF Interrupt
      <3>7. QED
        BY <1>1, <3>1, <3>2, <3>3, <3>4, <3>5, <3>6 DEF Next
    <2>10. QED
      BY <2>1, <2>5, <2>6, <2>7, <2>8, <2>9 DEF Indexed
  <1>2. Updates /\ [Next]_vars => [Kept]_vars
    BY <1>1
  <1>3. Spec => [][Kept]_vars
    BY <1>2, UpdatesAlways, PTL DEF Spec
  <1>4. QED
    BY <1>3 DEF HeldIsKept
=============================================================================
