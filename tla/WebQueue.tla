------------------------------ MODULE WebQueue ------------------------------
(***************************************************************************)
(* Indexing of the visited web pages (index/webqueue.cpp) and the cache    *)
(* file that keeps them.  The browser stores a page in the queue           *)
(* directory.  A pass of the indexer indexes each page of the queue, puts  *)
(* it into the cache, then removes it from the queue.  A full pass first   *)
(* walks the cache, to index the pages that the index lacks and to mark    *)
(* the others as existing, and at its end purges the documents of the      *)
(* pages that it did not see.  Pages have no signature: a page that has a  *)
(* document is up to date.  In the meantime the user changes the           *)
(* configured size of the cache, looks at pages and, from the web cache    *)
(* editor of the graphical interface, erases entries.  The editor and the  *)
(* indexer exclude each other by the lock that IndexerLock is about; a     *)
(* preview takes no lock: it opens the cache at any time and, when the     *)
(* configured size is another one, writes the first block that it has read *)
(* some time ago.                                                          *)
(*                                                                         *)
(* Left out: the download directory (what the browser stores during a pass *)
(* shows up after it), errors of the index, in place resets, the history   *)
(* by day or week (another period is another udi), a crash inside put()    *)
(* once it has begun to write.  put(), erase(), and create() in the        *)
(* indexer and in the editor are one step each.                            *)
(***************************************************************************)
EXTENDS CirCache, Functions

CONSTANTS
    MaxSizes,       \* the sizes that the user configures
    FirstSize,      \* the one the cache is created with
    MaxSaves,       \* bound: the pages stored by the browser
    MaxWaiting,     \* bound: those in the queue
    MaxEvents       \* bound: changes of the size, uses of the editor, crashes,
                    \* interruptions, pages not converted and full passes

ASSUME QueueAssumption ==
    /\ MaxSizes \subseteq Nat /\ FirstSize \in MaxSizes
    /\ \A s \in MaxSizes : s > FirstBlockSize
    /\ MaxSaves \in Nat /\ MaxWaiting \in Nat /\ MaxEvents \in Nat

VARIABLES
    conf,       \* webcachemaxmbs
    queue,      \* the version of each page in the queue directory, or 0
    latest,     \* the last version the browser stored
    pc,         \* the indexer
    full,       \* the pass walks the cache and purges
    it,         \* m_itoffs
    todo, cur,  \* the pages that the walk of the queue has left, the current one
    idx,        \* the version each page was indexed from, or 0
    disk,       \* the same in the last commit
    unseen,     \* the documents without their existence flag
    gui,        \* m_oheadoffs of the handle of the editor, 0 when it is closed
    view,       \* create() in a preview: the block to write, if it scans first
    resized,    \* history: the maximum size of the cache was changed
    raced,      \* history: a preview wrote a block that was not the last one
    outdated,   \* history: the pages whose new text was lost in a crash
    events      \* bound

indexing == <<pc, full, it, todo, cur, idx, disk, unseen, outdated>>
user == <<conf, queue, latest, gui, view, events>>
history == <<resized, raced>>
vars == <<cache, indexing, user, history>>

Saves == FoldFunction(LAMBDA x, y : x + y, 0, latest)
Indexed(i) == {u \in Udi : i[u] # 0}
Bump == events' = events + 1
NoView == [head |-> [maxsize |-> 0, oheadoffs |-> 0, nheadoffs |-> 0, npadsize |-> 0], scan |-> FALSE]

Init ==
    /\ file = <<>>
    /\ block = [maxsize |-> FirstSize, oheadoffs |-> FirstBlockSize,
                nheadoffs |-> 0, npadsize |-> 0]
    /\ mem = NoHandle
    /\ conf = FirstSize
    /\ queue = [u \in Udi |-> 0] /\ latest = queue
    /\ pc = "off" /\ full = FALSE /\ it = 0 /\ todo = {} /\ cur = NoUdi
    /\ idx = [u \in Udi |-> 0] /\ disk = idx
    /\ unseen = {} /\ outdated = {} /\ gui = 0 /\ view = NoView
    /\ resized = FALSE /\ raced = FALSE /\ events = 0

-----------------------------------------------------------------------------
(* The user and the browser.                                               *)

BrowserStores(u) ==
    /\ pc \in {"off", "idle"}
    /\ Saves < MaxSaves /\ latest[u] < MaxVersion
    /\ Cardinality(Indexed(queue)) < MaxWaiting
    /\ latest' = [latest EXCEPT ![u] = @ + 1]
    /\ queue' = [queue EXCEPT ![u] = latest[u] + 1]
    /\ UNCHANGED <<cache, indexing, conf, gui, view, events, history>>

SetSize(s) ==
    /\ s # conf /\ events < MaxEvents
    /\ conf' = s /\ Bump
    /\ UNCHANGED <<cache, indexing, queue, latest, gui, view, history>>

WriteBlock(m) ==
    /\ block' = Block(m)
    /\ resized' = (resized \/ m.maxsize # block.maxsize)
    /\ UNCHANGED raced

(* A preview of a page: create() with the configured size, and get().      *)
(* There is nothing to write when that is the size in the block.           *)
PreviewOpens ==
    /\ view = NoView /\ conf # block.maxsize /\ events < MaxEvents
    /\ view' = [head |-> [block EXCEPT !.maxsize = conf], scan |-> conf > block.maxsize]
    /\ Bump
    /\ UNCHANGED <<cache, indexing, conf, queue, latest, gui, history>>

PreviewScans ==
    /\ view.scan
    /\ view' = [head |-> Block(AtFileEnd(file, Open(view.head))), scan |-> FALSE]
    /\ UNCHANGED <<cache, indexing, conf, queue, latest, gui, events, history>>

(* What it would write if it read the block again now.                     *)
WouldWrite == Block(Create(file, block, view.head.maxsize))

PreviewWrites ==
    /\ view # NoView /\ ~view.scan
    /\ block' = view.head
    /\ resized' = TRUE
    /\ raced' = (raced \/ view.head # WouldWrite)
    /\ view' = NoView
    /\ UNCHANGED <<file, mem, indexing, conf, queue, latest, gui, events>>

(* The editor holds the lock of the indexer as long as it is open.         *)
Reload(f) ==
    LET m == Create(f, block, conf)
    IN  gui' = m.oheadoffs /\ WriteBlock(m)

OpenEditor ==
    /\ pc = "off" /\ gui = 0 /\ events < MaxEvents
    /\ Reload(file) /\ Bump
    /\ UNCHANGED <<file, mem, indexing, conf, queue, latest, view>>

(* Then the editor opens the cache again.  A preview may have changed the  *)
(* block under its handle.                                                 *)
DeleteSelected(u) ==
    /\ gui # 0 /\ events < MaxEvents
    /\ file' = Erase(file, [Open(block) EXCEPT !.oheadoffs = gui], u, TRUE).file
    /\ Reload(file') /\ Bump
    /\ UNCHANGED <<mem, indexing, conf, queue, latest, view>>

CloseEditor ==
    /\ gui # 0
    /\ gui' = 0
    /\ UNCHANGED <<cache, indexing, conf, queue, latest, view, events, history>>

-----------------------------------------------------------------------------
(* The indexer: the walk of the cache.                                     *)

OpenCache ==
    LET m == Create(file, block, conf)
    IN  mem' = m /\ WriteBlock(m)

ToQueue ==
    /\ pc' = "queue" /\ it' = 0
    /\ todo' = Indexed(queue)

(* ConfIndexer::index(): a new indexer object, with or without a reset of  *)
(* the index before.                                                       *)
StartFull(reset) ==
    /\ pc = "off" /\ gui = 0 /\ events < MaxEvents
    /\ OpenCache
    /\ full' = TRUE
    /\ idx' = (IF reset THEN [u \in Udi |-> 0] ELSE idx)
    /\ disk' = (IF reset THEN idx' ELSE disk)
    /\ unseen' = Indexed(idx')
    /\ outdated' = (IF reset THEN {} ELSE outdated)
    /\ LET first == Rewound(file, mem')
       IN  IF first = 0 THEN ToQueue
           ELSE pc' = "walk" /\ it' = first /\ UNCHANGED todo
    /\ Bump
    /\ UNCHANGED <<file, cur, conf, queue, latest, gui, view>>

(* ConfIndexer::indexFiles() in the monitor: the queue only, and the       *)
(* indexer object of the last such call when there is one.                 *)
StartPartial ==
    /\ pc \in {"off", "idle"} /\ gui = 0
    /\ \E u \in Udi : queue[u] # 0
    /\ IF pc = "off" THEN OpenCache ELSE UNCHANGED <<mem, block, history>>
    /\ full' = FALSE /\ unseen' = {}
    /\ ToQueue
    /\ UNCHANGED <<file, cur, idx, disk, outdated, user>>

(* One entry: needUpdate(), and indexFromCache() when there is no          *)
(* document; the conversion of the page may fail.                          *)
FromCache(u, got) ==
    /\ mem' = got.mem
    /\ \/ /\ got.ver # 0
          /\ idx' = [idx EXCEPT ![u] = got.ver]
          /\ outdated' = outdated \ {u}
       \/ UNCHANGED <<idx, outdated>>
    /\ UNCHANGED unseen

WalkCache ==
    /\ pc = "walk"
    /\ LET u == file[it].udi
       IN  IF u = NoUdi THEN UNCHANGED <<mem, idx, unseen, outdated>>
           ELSE IF idx[u] = 0 THEN FromCache(u, Get(file, mem, u))
           ELSE unseen' = unseen \ {u} /\ UNCHANGED <<mem, idx, outdated>>
    /\ LET next == NextEntry(file, mem', it)
       IN  IF next = 0 \/ ~Readable(file, next) THEN ToQueue
           ELSE it' = next /\ UNCHANGED <<pc, todo>>
    /\ UNCHANGED <<file, block, full, cur, disk, user, history>>

-----------------------------------------------------------------------------
(* The indexer: the walk of the queue.                                     *)

IndexPage(u) ==
    /\ pc = "queue" /\ u \in todo
    /\ pc' = "put" /\ cur' = u
    /\ idx' = [idx EXCEPT ![u] = queue[u]]
    /\ unseen' = unseen \ {u} /\ outdated' = outdated \ {u}
    /\ UNCHANGED <<cache, full, it, todo, disk, user, history>>

(* The page cannot be converted: it stays in the queue.                    *)
SkipPage(u) ==
    /\ pc = "queue" /\ u \in todo /\ events < MaxEvents
    /\ todo' = todo \ {u} /\ Bump
    /\ UNCHANGED <<cache, pc, full, it, cur, idx, disk, unseen, outdated,
                   conf, queue, latest, gui, view, history>>

(* Mutant: the page is removed from the queue whatever put() returned.     *)
UnlinksAnyway(p) ==
    /\ file' = p.file /\ mem' = p.mem
    /\ IF p.ok THEN WriteBlock(p.mem) ELSE UNCHANGED <<block, history>>
    /\ pc' = "unlink" /\ UNCHANGED <<todo, cur>>

PutReturns(p) ==
    /\ file' = p.file /\ mem' = p.mem
    /\ IF p.ok
       THEN WriteBlock(p.mem) /\ pc' = "unlink" /\ UNCHANGED <<todo, cur>>
       ELSE /\ pc' = "queue" /\ todo' = todo \ {cur} /\ cur' = NoUdi
            /\ UNCHANGED <<block, history>>

PutPage ==
    /\ pc = "put"
    /\ \E n \in Sizes[cur] : PutReturns(Put(file, mem, cur, queue[cur], n))
    /\ UNCHANGED <<full, it, idx, disk, unseen, outdated, user>>

(* Mutant: the page stays in the queue directory.                          *)
ForgetsUnlink ==
    /\ pc = "unlink"
    /\ pc' = "queue" /\ todo' = todo \ {cur} /\ cur' = NoUdi
    /\ UNCHANGED <<cache, full, it, idx, disk, unseen, outdated, user, history>>

UnlinkPage ==
    /\ pc = "unlink"
    /\ queue' = [queue EXCEPT ![cur] = 0]
    /\ pc' = "queue" /\ todo' = todo \ {cur} /\ cur' = NoUdi
    /\ UNCHANGED <<cache, full, it, idx, disk, unseen, outdated,
                   conf, latest, gui, view, events, history>>

-----------------------------------------------------------------------------
(* The indexer: the end of a pass, and of the process.                     *)

Exit ==
    /\ mem' = NoHandle /\ pc' = "off"
    /\ it' = 0 /\ todo' = {} /\ cur' = NoUdi /\ unseen' = {}
    /\ full' = FALSE /\ UNCHANGED block

(* After a full pass the process ends, or executes itself again to go on   *)
(* as the monitor.                                                         *)
EndFullPass ==
    /\ pc = "queue" /\ todo = {} /\ full
    /\ Exit
    /\ idx' = [u \in Udi |-> IF u \in unseen THEN 0 ELSE idx[u]] /\ disk' = idx'
    /\ outdated' = outdated \cap Indexed(idx')
    /\ UNCHANGED <<file, user, history>>

EndPartial ==
    /\ pc = "queue" /\ todo = {} /\ ~full
    /\ disk' = idx /\ pc' = "idle"
    /\ UNCHANGED <<cache, full, it, todo, cur, idx, unseen, outdated, user, history>>

Finish ==
    /\ pc = "idle" /\ Exit
    /\ UNCHANGED <<file, idx, disk, outdated, user, history>>

(* A stop request: the index is closed and nothing is purged.              *)
Interrupt ==
    /\ pc \in {"walk", "queue"} /\ events < MaxEvents
    /\ Exit /\ disk' = idx /\ Bump
    /\ UNCHANGED <<file, idx, outdated, conf, queue, latest, gui, view, history>>

(* A crash loses what was not flushed.  Inside put() it may come after the *)
(* older entries were erased.                                              *)
Crash ==
    /\ pc # "off" /\ events < MaxEvents
    /\ Exit /\ Bump
    /\ \E flushed \in SUBSET {u \in Udi : idx[u] # disk[u]} :
        idx' = [u \in Udi |-> IF u \in flushed THEN idx[u] ELSE disk[u]]
    /\ disk' = idx'
    /\ outdated' = (outdated \cap Indexed(idx'))
                   \cup {u \in Indexed(idx') : idx[u] # idx'[u] /\ queue[u] = 0}
    /\ \/ UNCHANGED file
       \/ pc = "put" /\ file' = Erase(file, mem, cur, FALSE).file
    /\ UNCHANGED <<conf, queue, latest, gui, view, history>>

Indexer ==
    \/ \E reset \in BOOLEAN : StartFull(reset)
    \/ StartPartial \/ WalkCache
    \/ \E u \in Udi : IndexPage(u) \/ SkipPage(u)
    \/ PutPage
    \/ UnlinkPage \/ EndFullPass \/ EndPartial \/ Finish

User ==
    \/ \E u \in Udi : BrowserStores(u) \/ DeleteSelected(u)
    \/ \E s \in MaxSizes : SetSize(s)
    \/ PreviewOpens \/ PreviewScans \/ PreviewWrites \/ OpenEditor \/ CloseEditor

Next == Indexer \/ User \/ Interrupt \/ Crash

Spec == Init /\ [][Next]_vars

(* A pass is taken to its end, and one is started for the pages that wait: *)
(* the monitor calls indexFiles() for each event on the queue directory,   *)
(* and a batch pass is started from time to time; the editor is closed in  *)
(* the end.  Each action of the                                            *)
(* indexer can be taken for as long as pc stays what it is, so that the    *)
(* fairness of the action is that of the step of pc (and it, todo).        *)
Step(from, to) == pc \in from /\ pc' \in to

StartStep == Indexed(queue) # {} /\ Step({"off", "idle"}, {"walk", "queue"})
WalkStep == Step({"walk"}, {"walk", "queue"}) /\ it' \in 0 .. Len(file)
QueueStep == Step({"queue"}, {"put", "idle", "off"})
PutStep == Step({"put"}, {"unlink", "queue"})
UnlinkStep == Step({"unlink"}, {"queue"})

FairSpec ==
    /\ Spec
    /\ WF_gui(CloseEditor) /\ WF_pc(StartStep) /\ WF_<<pc, it>>(WalkStep)
    /\ WF_pc(QueueStep) /\ WF_pc(PutStep) /\ WF_pc(UnlinkStep)

-----------------------------------------------------------------------------
(* What a new handle of the file finds.                                    *)

Live == LET s == Scan(file, block.oheadoffs).offs
        IN  SelectSeq(s, LAMBDA o : file[o].udi # NoUdi)
Kept(u) == Get(file, Open(block), u).ver
SharedHash == {u \in Udi : \E v \in Udi \ {u} : Hash[u] = Hash[v]}

(* An older entry of the page may be left, and come after the newest.      *)
Muddled(u) == u \in SharedHash /\ resized

(* What a process that starts reads of the file, and what the indexer has. *)
Handles == {Open(block)} \cup (IF mem = NoHandle THEN {} ELSE {mem})

(* put() fails for every page, through the same handle or a new one.       *)
Refused == \E m \in Handles : BadPad(file, m)

(* Nothing is claimed from the moment a preview writes a first block that  *)
(* it has read before another process wrote the cache (raced): the block   *)
(* and the file disagree then.  A preview that writes what it would write  *)
(* if it read the block again does no harm.                                *)

-----------------------------------------------------------------------------
TypeOK ==
    /\ file \in Seq(Cell)
    /\ \A m \in {block, mem, view.head} :
        /\ m.maxsize \in MaxSizes \cup {0}
        /\ m.oheadoffs \in Nat /\ m.nheadoffs \in Nat /\ m.npadsize \in Nat
    /\ mem.kh \in [Hashes -> Seq(Nat)] /\ mem.cplt \in BOOLEAN
    /\ conf \in MaxSizes /\ gui \in Nat /\ view.scan \in BOOLEAN /\ raced \in BOOLEAN
    /\ {queue, latest, idx, disk} \subseteq [Udi -> 0 .. MaxVersion]
    /\ pc \in {"off", "idle", "walk", "queue", "put", "unlink"} /\ full \in BOOLEAN
    /\ it \in Nat /\ cur \in Udi \cup {NoUdi}
    /\ todo \subseteq Udi /\ unseen \subseteq Udi /\ outdated \subseteq Udi

(* The types, and: from the write position, hopping over the headers leads *)
(* to the end of the file and from its start back to the write position,   *)
(* for whoever opens the file and for the handle of the indexer, unless a  *)
(* preview wrote back an old block.                                        *)
ChainClosed == TypeOK /\ (raced \/ \A m \in Handles : Scan(file, m.oheadoffs).full)

(* A map that says it is complete leads to the entries of each page that   *)
(* has a hash of its own, and to nothing that is not an entry any more,    *)
(* unless a preview wrote back an old block.                               *)
MapExact ==
    mem.cplt /\ ~raced =>
        LET live == ToSet(Live)
        IN  /\ \A u \in Udi : ToSet(mem.kh[Hash[u]]) \subseteq live
            /\ \A o \in live :
                file[o].udi \in SharedHash \/ o \in ToSet(mem.kh[Hash[file[o].udi]])

(* The cache refuses pages only when its newest entry was erased, or a     *)
(* preview wrote back an old block.                                        *)
RefusedOnlyAfterErase ==
    \A m \in Handles : BadPad(file, m) /\ ~raced =>
        Readable(file, m.nheadoffs) /\ file[m.nheadoffs].udi = NoUdi

Contents == LET live == Live
            IN  [i \in DOMAIN live |-> [udi |-> file[live[i]].udi, ver |-> file[live[i]].ver]]
Archive == INSTANCE WebArchive WITH Shared <- SharedHash, archive <- Contents
ImplementsArchive == Archive!Spec

(* A page leaves the queue only when the cache has its last version: with  *)
(* two entries of one hash and a new size an older one may be found, and   *)
(* nothing is known after a preview wrote back an old block.               *)
LeavesQueueCached ==
    [][\A u \in Udi : queue[u] # 0 /\ queue'[u] = 0 => Kept(u) = latest[u] \/ Muddled(u) \/ raced]_vars

(* At the end of a full pass the pages of the cache are not purged, and    *)
(* their documents are those of the cached version, unless the page waits  *)
(* in the queue, or lost its new text in a crash, or a preview wrote back  *)
(* an old block.                                                           *)
FullPassAgrees ==
    pc = "queue" /\ full /\ todo = {} /\ ~raced =>
        \A o \in ToSet(Live) :
            LET u == file[o].udi
            IN  /\ idx[u] # 0 => u \notin unseen
                /\ idx[u] \in {0, Kept(u)} \/ queue[u] # 0 \/ u \in outdated \/ Muddled(u)

(* Each page in the queue gets into the cache, or the cache refuses pages, *)
(* or a preview wrote back an old block.                                   *)
QueueDrains == \A u \in Udi : queue[u] # 0 ~> queue[u] = 0 \/ Refused \/ raced
=============================================================================
