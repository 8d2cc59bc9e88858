------------------------------ MODULE Monitor ------------------------------
(***************************************************************************)
(* Real time indexing (recollindex -m) with inotify.  The user changes     *)
(* files under a top directory; the kernel queues an event for a change in *)
(* a watched directory; the receiver thread translates the events with its *)
(* map from watch descriptors to paths, walks the new directories to watch *)
(* them too, and pushes the events to the shared queue, where a newer      *)
(* event replaces an older one for the same path; the main thread pops     *)
(* them from time to time into a list of deleted and a list of modified    *)
(* paths and lets the indexer purge and index these.                       *)
(*                                                                         *)
(* The directories lie side by side in the top directory.  A rename inside *)
(* the tree is a move out and a move in: the events are the same.  Left    *)
(* out: the end of the monitor, errors of the index, overflow of the       *)
(* kernel's queue, the documents of the directories themselves.            *)
(***************************************************************************)
EXTENDS Integers, Sequences, FiniteSets

CONSTANTS
    Files, Dirs, Top,
    Home,           \* the directory of a file
    Beneath,        \* the directories whose path begins with that of a directory
    Delayed,        \* the files that match mondelaypatterns
    Interval,       \* their minimum time between two indexings
    MaxChanges,     \* bound: how often the user changes something
    None

ASSUME PathsAssumption ==
    /\ Files \cap (Dirs \cup {Top}) = {} /\ Top \notin Dirs
    /\ None \notin Files \cup Dirs \cup {Top}
    /\ IsFiniteSet(Files) /\ IsFiniteSet(Dirs)
    /\ Home \in [Files -> Dirs \cup {Top}]
    /\ Beneath \in [Dirs -> SUBSET Dirs] /\ \A d \in Dirs : d \in Beneath[d]
    /\ Delayed \subseteq Files
ASSUME TimesAssumption == Interval \in Nat \ {0} /\ MaxChanges \in Nat

VARIABLES
    disk,       \* the version of each file, 0 when it does not exist
    there,      \* the directories that exist
    changes,    \* bound: the changes made so far
    kernel,     \* the queue of the inotify instance
    watch,      \* the watch descriptor of each directory, 0 for none
    nextwd,     \* the last descriptor given out
    idtopath,   \* m_idtopath
    recv,       \* the receiver thread
    iqueue,     \* m_iqueue: from a path to the type of its event
    dqueue,     \* m_dqueue: the same for delayed files, with their times
    delays,     \* m_delays: the keys of dqueue in the order of their times
    pc,         \* the main thread
    modified, deleted,  \* its lists
    statted,    \* the versions the indexer has met and not yet written, or 0
    index,      \* the version each file was indexed from, 0 when it is not
    missed,     \* history: the files of which a change went unseen, until they are met
    overridden  \* history: those whose deletion was replaced in the queue

tree == <<disk, there, changes, kernel, watch, nextwd>>
queue == <<iqueue, dqueue, delays, overridden>>
work == <<modified, deleted, statted, index>>
vars == <<tree, idtopath, recv, queue, pc, work, missed>>

Paths == Files \cup Dirs
Places == Dirs \cup {Top}
In(d) == {f \in Files : Home[f] = d}
Versions == 0 .. MaxChanges + 1
Descriptors == 1 .. MaxChanges + Cardinality(Places)

(* inotify's events, and those of the queue: types of RclMonEvent, where   *)
(* rmdir stands for DELETE with the ISDIR flag.                            *)
KernelEvents == [wd : Descriptors, path : Paths \cup {Top},
                 kind : {"modify", "delete", "mkdir", "rmdir", "movedfrom", "ignored"}]
Kinds == {"modify", "delete", "mkdir", "rmdir"}
DelayedEvents == [kind : Kinds, left : 0 .. Interval, need : BOOLEAN, itv : {0, Interval}]

(* idle: between two events.  visit: the walker looks for the next path.   *)
(* drain, watch, list: what it does to a directory.                        *)
ReceiverStates == [at : {"idle", "visit", "drain", "watch", "list"},
                   todo : SUBSET (Paths \cup {Top}), dir : Places \cup {None},
                   for : Dirs \cup {None}]

Maps(S, T) == UNION {[D -> T] : D \in SUBSET S}
With(m, k, v) == [x \in DOMAIN m \cup {k} |-> IF x = k THEN v ELSE m[x]]
Without(m, S) == [x \in DOMAIN m \ S |-> m[x]]

TypeOK ==
    /\ disk \in [Files -> Versions] /\ index \in [Files -> Versions]
    /\ there \subseteq Dirs /\ changes \in 0 .. MaxChanges
    /\ kernel \in Seq(KernelEvents)
    /\ nextwd \in {0} \cup Descriptors /\ watch \in [Places -> 0 .. nextwd]
    /\ idtopath \in Maps(1 .. nextwd, Places)
    /\ recv \in ReceiverStates
    /\ DOMAIN iqueue \subseteq Paths \ Delayed
    /\ \A p \in DOMAIN iqueue : iqueue[p] \in Kinds
    /\ DOMAIN dqueue \subseteq Delayed
    /\ \A f \in DOMAIN dqueue : dqueue[f] \in DelayedEvents
    /\ delays \in Seq(Delayed)
    /\ pc \in {"wait", "pop", "index"}
    /\ modified \subseteq Files /\ deleted \subseteq Files
    /\ statted \in [Files -> Versions]
    /\ missed \subseteq Files /\ overridden \subseteq Files

(* An indexing pass has just ended; the receiver starts on its first walk. *)
Init ==
    /\ there \in SUBSET Dirs
    /\ disk \in [Files -> {0, 1}]
    /\ \A f \in Files : disk[f] # 0 => Home[f] \in there \cup {Top}
    /\ changes = 0 /\ kernel = << >> /\ nextwd = 0
    /\ watch = [d \in Places |-> 0]
    /\ idtopath = << >>
    /\ recv = [at |-> "visit", todo |-> {Top}, dir |-> None, for |-> None]
    /\ iqueue = << >> /\ dqueue = << >> /\ delays = << >>
    /\ pc = "wait" /\ modified = {} /\ deleted = {}
    /\ statted = [f \in Files |-> 0]
    /\ index = disk
    /\ missed = {} /\ overridden = {}

-----------------------------------------------------------------------------
(* The user.  The kernel tells the watches of the directory.               *)
Sent(d, path, kind) ==
    IF watch[d] = 0 THEN << >> ELSE <<[wd |-> watch[d], path |-> path, kind |-> kind]>>

Changed ==
    /\ changes < MaxChanges /\ changes' = changes + 1
    /\ UNCHANGED <<nextwd, idtopath, recv, queue, pc, work>>

Write(f) ==
    /\ Changed /\ Home[f] \in there \cup {Top}
    /\ disk' = [disk EXCEPT ![f] = changes + 2]
    /\ kernel' = kernel \o Sent(Home[f], f, "modify")
    /\ missed' = IF watch[Home[f]] = 0 THEN missed \cup {f} ELSE missed
    /\ UNCHANGED <<there, watch>>

Remove(f) ==
    /\ Changed /\ disk[f] # 0
    /\ disk' = [disk EXCEPT ![f] = 0]
    /\ kernel' = kernel \o Sent(Home[f], f, "delete")
    /\ missed' = IF watch[Home[f]] = 0 THEN missed \cup {f} ELSE missed
    /\ UNCHANGED <<there, watch>>

(* A new directory, empty or moved in with its files. *)
MakeDir(d, with) ==
    /\ Changed /\ d \notin there
    /\ there' = there \cup {d}
    /\ disk' = [f \in Files |-> IF f \in with THEN changes + 2 ELSE disk[f]]
    /\ kernel' = kernel \o Sent(Top, d, "mkdir")
    /\ missed' = missed \cup with
    /\ UNCHANGED watch

(* The watch goes with the directory and nothing is heard from it again. *)
MoveOut(d) ==
    /\ Changed /\ d \in there
    /\ there' = there \ {d}
    /\ disk' = [f \in Files |-> IF f \in In(d) THEN 0 ELSE disk[f]]
    /\ kernel' = kernel \o Sent(Top, d, "movedfrom")
    /\ watch' = [watch EXCEPT ![d] = 0]
    /\ missed' = IF watch[Top] = 0 THEN missed \cup {f \in In(d) : disk[f] # 0} ELSE missed

(* The kernel removes the watch of an empty directory with the directory. *)
RmDir(d) ==
    /\ Changed /\ d \in there /\ \A f \in In(d) : disk[f] = 0
    /\ there' = there \ {d}
    /\ kernel' = kernel \o Sent(Top, d, "rmdir") \o Sent(d, d, "ignored")
    /\ watch' = [watch EXCEPT ![d] = 0]
    /\ UNCHANGED <<disk, missed>>

-----------------------------------------------------------------------------
(* The queue.  Pushing takes the lock, which the main thread keeps while   *)
(* it pops.                                                                *)
Unlocked == pc # "pop"

(* Faulty: at the end. *)
DelayAppend(list, dq, f) == Append(list, f)

(* delayInsert(): before the first one that has longer to wait. *)
DelayInsert(list, dq, f) ==
    LET later == {i \in 1 .. Len(list) : dq[list[i]].left > dq[f].left}
        at == IF later = {} THEN Len(list) + 1
              ELSE CHOOSE i \in later : \A j \in later : i <= j
    IN  SubSeq(list, 1, at - 1) \o <<f>> \o SubSeq(list, at, Len(list))

(* A file that was not indexed recently is due at once. *)
PushNewDelayed(f, kind) ==
    /\ f \in Delayed /\ f \notin DOMAIN dqueue
    /\ dqueue' = With(dqueue, f, [kind |-> kind, left |-> 0, need |-> TRUE, itv |-> Interval])
    /\ delays' = DelayInsert(delays, dqueue', f)
    /\ UNCHANGED <<iqueue, overridden>>

(* The event is assigned, whose m_itvsecs is 0, and its clock set back. *)
PushAgain(f, kind) ==
    /\ f \in Delayed /\ f \in DOMAIN dqueue
    /\ dqueue' = With(dqueue, f, [kind |-> kind, left |-> dqueue[f].left,
                                  need |-> TRUE, itv |-> 0])
    /\ UNCHANGED <<iqueue, delays, overridden>>

(* "A newer event is always correct to override any older." *)
PushImmediate(p, kind) ==
    /\ p \notin Delayed
    /\ overridden' = IF p \in DOMAIN iqueue /\ iqueue[p] = "rmdir" /\ kind # "rmdir"
                     THEN overridden \cup {f \in In(p) : index[f] + statted[f] # 0}
                     ELSE overridden
    /\ iqueue' = With(iqueue, p, kind)
    /\ UNCHANGED <<dqueue, delays>>

PushEvent(p, kind) ==
    /\ Unlocked /\ UNCHANGED pc
    /\ PushNewDelayed(p, kind) \/ PushAgain(p, kind) \/ PushImmediate(p, kind)

-----------------------------------------------------------------------------
(* The receiver.                                                           *)

(* eraseWatchSubTree(): all the paths that begin with that of d. *)
Erased(d) == {w \in DOMAIN idtopath : idtopath[w] \in Dirs /\ idtopath[w] \in Beneath[d]}

(* getEvent() and the push of what it returns; a directory event `next' is *)
(* left to the caller.                                                     *)
TakeUnknown ==
    /\ Head(kernel).wd \notin DOMAIN idtopath
    /\ missed' = missed \cup ({Head(kernel).path} \cap Files)
    /\ UNCHANGED <<idtopath, queue, pc>>

TakeFile ==
    /\ Head(kernel).wd \in DOMAIN idtopath
    /\ Head(kernel).kind \in {"modify", "delete"}
    /\ PushEvent(Head(kernel).path, Head(kernel).kind)
    /\ UNCHANGED <<idtopath, missed>>

TakeGone ==
    /\ Head(kernel).wd \in DOMAIN idtopath
    /\ Head(kernel).kind \in {"rmdir", "movedfrom"}
    /\ PushEvent(Head(kernel).path, "rmdir")
    /\ idtopath' = IF Head(kernel).kind = "rmdir" THEN idtopath
                   ELSE Without(idtopath, Erased(Head(kernel).path))
    /\ UNCHANGED missed

TakeIgnored ==
    /\ Head(kernel).wd \in DOMAIN idtopath
    /\ Head(kernel).kind = "ignored"
    /\ idtopath' = Without(idtopath, {Head(kernel).wd} \cup Erased(Head(kernel).path))
    /\ UNCHANGED <<queue, pc, missed>>

NewDirNext ==
    Head(kernel).wd \in DOMAIN idtopath /\ Head(kernel).kind = "mkdir"

Consumed ==
    /\ kernel # << >> /\ kernel' = Tail(kernel)
    /\ UNCHANGED <<disk, there, changes, watch, nextwd, work>>

(* rclMonRcvRun(): a new directory is walked before its event is pushed. *)
RecvEvent ==
    /\ recv.at = "idle"
    /\ Consumed
    /\ \/ (TakeUnknown \/ TakeFile \/ TakeGone \/ TakeIgnored) /\ UNCHANGED recv
       \/ /\ NewDirNext
          /\ recv' = [at |-> "visit", todo |-> {Head(kernel).path}, dir |-> None,
                      for |-> Head(kernel).path]
          /\ UNCHANGED <<idtopath, queue, pc, missed>>

(* The walk: the next file is pushed if it is still there, the next        *)
(* directory entered.                                                      *)
VisitFile(f) ==
    /\ recv.at = "visit" /\ f \in recv.todo \cap Files
    /\ IF disk[f] # 0 THEN PushEvent(f, "modify") ELSE UNCHANGED <<queue, pc>>
    /\ recv' = [recv EXCEPT !.todo = @ \ {f}]
    /\ UNCHANGED <<tree, idtopath, work, missed>>

VisitDir(d) ==
    /\ recv.at = "visit" /\ d \in recv.todo \cap Places
    /\ recv' = IF d \in there \cup {Top}
               THEN [recv EXCEPT !.at = "drain", !.todo = @ \ {d}, !.dir = d]
               ELSE [recv EXCEPT !.todo = @ \ {d}]
    /\ UNCHANGED <<tree, idtopath, queue, pc, work, missed>>

(* WalkCB empties the kernel's queue first: what it finds is pushed, a new *)
(* directory like the rest, without a walk for what is in it.              *)
DrainEvent ==
    /\ recv.at = "drain"
    /\ Consumed
    /\ \/ TakeUnknown \/ TakeFile \/ TakeGone \/ TakeIgnored
       \/ /\ NewDirNext /\ PushEvent(Head(kernel).path, "mkdir")
          /\ missed' = missed \cup {f \in In(Head(kernel).path) : disk[f] # 0}
          /\ UNCHANGED idtopath
    /\ UNCHANGED recv

DrainEnds ==
    /\ recv.at = "drain" /\ kernel = << >>
    /\ recv' = [recv EXCEPT !.at = "watch"]
    /\ UNCHANGED <<tree, idtopath, queue, pc, work, missed>>

(* addWatch(): a directory that has one keeps its descriptor; that of one  *)
(* that is gone fails, and the walk goes on.                               *)
AddWatch ==
    /\ recv.at = "watch"
    /\ IF recv.dir \notin there \cup {Top} THEN UNCHANGED <<watch, nextwd, idtopath>>
       ELSE LET wd == IF watch[recv.dir] # 0 THEN watch[recv.dir] ELSE nextwd + 1
            IN  /\ watch' = [watch EXCEPT ![recv.dir] = wd]
                /\ nextwd' = IF wd > nextwd THEN wd ELSE nextwd
                /\ idtopath' = With(idtopath, wd, recv.dir)
    /\ recv' = [recv EXCEPT !.at = "list"]
    /\ UNCHANGED <<disk, there, changes, kernel, queue, pc, work, missed>>

(* The files of the directory, and the directories of the top directory.   *)
ListDir ==
    LET found == {f \in In(recv.dir) : disk[f] # 0}
    IN  /\ recv.at = "list"
        /\ recv' = [recv EXCEPT !.at = "visit", !.dir = None,
                        !.todo = @ \cup found \cup (IF recv.dir = Top THEN there ELSE {})]
        /\ missed' = missed \ found
        /\ UNCHANGED <<tree, idtopath, queue, pc, work>>

WalkEnds ==
    /\ recv.at = "visit" /\ recv.todo = {}
    /\ recv' = [at |-> "idle", todo |-> {}, dir |-> None, for |-> None]
    /\ IF recv.for = None THEN UNCHANGED <<queue, pc>> ELSE PushEvent(recv.for, "mkdir")
    /\ UNCHANGED <<tree, idtopath, work, missed>>

-----------------------------------------------------------------------------
(* The main thread.                                                        *)

(* empty(), as it is coded: a queue of immediate events counts as empty.   *)
Empty ==
    \/ DOMAIN iqueue # {}
    \/ DOMAIN dqueue = {}
    \/ dqueue[Head(delays)].left > 0

(* Faulty: the wait goes on as long as empty() says so. *)
WakeIfDue ==
    /\ pc = "wait"
    /\ pc' = IF Empty THEN "wait" ELSE "pop"
    /\ UNCHANGED <<tree, idtopath, recv, queue, work, missed>>

(* wait() returns at once, when a delay is over; because of an event that  *)
(* was pushed; or two seconds later: any time.                             *)
Wake ==
    /\ pc = "wait"
    /\ pc' = "pop"
    /\ UNCHANGED <<tree, idtopath, recv, queue, work, missed>>

(* What startMonitor() does of an event; subtreelist() asks the index for  *)
(* what was in a directory.                                                *)
Sorted(p, kind) ==
    /\ modified' = IF kind = "modify" THEN modified \cup {p} ELSE modified
    /\ deleted' = CASE kind = "delete" -> deleted \cup {p}
                    [] kind = "rmdir"  -> deleted \cup {f \in In(p) : index[f] # 0}
                    [] OTHER           -> deleted
    /\ UNCHANGED <<statted, index>>

Expired == delays # << >> /\ dqueue[Head(delays)].left = 0

(* A file that is indexed keeps its entry until its interval is over. *)
PopExpired ==
    LET f == Head(delays)
    IN  /\ pc = "pop" /\ Expired /\ dqueue[f].need
        /\ dqueue' = [dqueue EXCEPT ![f].left = dqueue[f].itv, ![f].need = FALSE]
        /\ delays' = DelayInsert(Tail(delays), dqueue', f)
        /\ Sorted(f, dqueue[f].kind)
        /\ UNCHANGED <<tree, idtopath, recv, iqueue, overridden, pc, missed>>

DropExpired ==
    /\ pc = "pop" /\ Expired /\ ~dqueue[Head(delays)].need
    /\ dqueue' = Without(dqueue, {Head(delays)})
    /\ delays' = Tail(delays)
    /\ UNCHANGED <<tree, idtopath, recv, iqueue, overridden, pc, work, missed>>

(* The order is left open: the lists are sorted before they are used. *)
PopImmediate(p) ==
    /\ pc = "pop" /\ ~Expired /\ p \in DOMAIN iqueue
    /\ Sorted(p, iqueue[p])
    /\ iqueue' = Without(iqueue, {p})
    /\ UNCHANGED <<tree, idtopath, recv, dqueue, delays, overridden, pc, missed>>

(* pop() returns nothing: the lock is given up. *)
NothingLeft == pc = "pop" /\ ~Expired /\ DOMAIN iqueue = {}

(* The lists are left to grow. *)
Skip ==
    /\ NothingLeft
    /\ pc' = "wait"
    /\ UNCHANGED <<tree, idtopath, recv, queue, work, missed>>

(* Faulty: the modified list first, so that what is in both ends up purged. *)
PurgeLast ==
    /\ NothingLeft /\ modified \cup deleted # {}
    /\ index' = [f \in Files |-> IF f \in deleted THEN 0 ELSE index[f]]
    /\ deleted' = {} /\ modified' = modified \ deleted
    /\ pc' = "index"
    /\ overridden' = overridden \ deleted
    /\ UNCHANGED <<tree, idtopath, recv, iqueue, dqueue, delays, statted, missed>>

(* The interval is over, or the lists are long: purgefiles() first. *)
Purge ==
    /\ NothingLeft /\ modified \cup deleted # {}
    /\ index' = [f \in Files |-> IF f \in deleted THEN 0 ELSE index[f]]
    /\ deleted' = {}
    /\ pc' = "index"
    /\ overridden' = overridden \ deleted
    /\ UNCHANGED <<tree, idtopath, recv, iqueue, dqueue, delays, modified, statted, missed>>

Waiting(p, kind) ==
    \/ p \in DOMAIN iqueue /\ iqueue[p] = kind
    \/ p \in DOMAIN dqueue /\ dqueue[p].need /\ dqueue[p].kind = kind

DeletionWaits(f) == Waiting(f, "delete") \/ Waiting(Home[f], "rmdir")

(* indexfiles(): a file that is gone is passed over.  Nothing is missed of *)
(* one that is there, unless an older deletion is still to be processed.   *)
StatOne(f) ==
    /\ pc = "index" /\ f \in modified
    /\ modified' = modified \ {f}
    /\ statted' = [statted EXCEPT ![f] = disk[f]]
    /\ IF disk[f] = 0 THEN UNCHANGED <<missed, overridden>>
       ELSE /\ missed' = IF DeletionWaits(f) THEN missed ELSE missed \ {f}
            /\ overridden' = overridden \ {f}
    /\ UNCHANGED <<tree, idtopath, recv, iqueue, dqueue, delays, pc, deleted, index>>

(* A worker writes the document with the signature of then, if it can      *)
(* still open the file.                                                    *)
WriteOne(f) ==
    /\ pc = "index" /\ statted[f] # 0
    /\ statted' = [statted EXCEPT ![f] = 0]
    /\ \/ index' = [index EXCEPT ![f] = statted[f]]
       \/ disk[f] = 0 /\ UNCHANGED index
    /\ UNCHANGED <<tree, idtopath, recv, queue, pc, modified, deleted, missed>>

EndWork ==
    /\ pc = "index" /\ modified = {} /\ \A f \in Files : statted[f] = 0
    /\ pc' = "wait"
    /\ UNCHANGED <<tree, idtopath, recv, queue, work, missed>>

(* One second. *)
Tick ==
    /\ \E f \in DOMAIN dqueue : dqueue[f].left > 0
    /\ dqueue' = [f \in DOMAIN dqueue |->
                     [dqueue[f] EXCEPT !.left = IF @ > 0 THEN @ - 1 ELSE 0]]
    /\ UNCHANGED <<tree, idtopath, recv, iqueue, delays, overridden, pc, work, missed>>

-----------------------------------------------------------------------------
User ==
    \/ \E f \in Files : Write(f) \/ Remove(f)
    \/ \E d \in Dirs : (\E with \in SUBSET In(d) : MakeDir(d, with)) \/ MoveOut(d) \/ RmDir(d)

Receiver ==
    \/ RecvEvent \/ DrainEvent \/ DrainEnds \/ AddWatch \/ ListDir \/ WalkEnds
    \/ (\E f \in Files : VisitFile(f)) \/ (\E d \in Places : VisitDir(d))

Main ==
    \/ Wake \/ PopExpired \/ DropExpired \/ (\E p \in Paths : PopImmediate(p))
    \/ Skip \/ Purge \/ EndWork
    \/ \E f \in Files : StatOne(f) \/ WriteOne(f)

Next == User \/ Receiver \/ Main \/ Tick

Spec == Init /\ [][Next]_vars

(* Both threads run and time passes.  The receiver gets the lock in the    *)
(* end, which the main thread gives up for two seconds when it waits; and  *)
(* the main thread does not put the lists off for ever: it looks at them   *)
(* every two seconds at most and processes them when the interval is over. *)
Fairness == SF_vars(Receiver) /\ WF_vars(Main) /\ WF_vars(Tick) /\ SF_vars(Purge)
FairSpec == Spec /\ Fairness

-----------------------------------------------------------------------------
(* What is checked.                                                        *)

(* The iterators in m_delays are valid and unique and cover m_dqueue, in   *)
(* the order of their times: pop() and empty() look at the first one only, *)
(* and an iterator to an erased element would be used after its end.       *)
DelaysMatchQueue ==
    /\ {delays[i] : i \in 1 .. Len(delays)} = DOMAIN dqueue
    /\ \A i, j \in 1 .. Len(delays) :
           i < j => /\ delays[i] # delays[j]
                    /\ dqueue[delays[i]].left <= dqueue[delays[j]].left

(* Nothing is on its way from the kernel to the index. *)
Quiet ==
    /\ kernel = << >> /\ recv.at = "idle"
    /\ DOMAIN iqueue = {} /\ \A f \in DOMAIN dqueue : ~dqueue[f].need
    /\ modified = {} /\ deleted = {} /\ \A f \in Files : statted[f] = 0

(* Then the index holds the present versions of the files and nothing      *)
(* else, whatever was created, changed, removed or moved while the events  *)
(* were translated, merged and processed: except the files of which a      *)
(* change was not watched or whose deletion was replaced.                  *)
QuietMeansExact ==
    Quiet => \A f \in Files : index[f] = disk[f] \/ f \in missed \cup overridden

(* What the comment on pushEvent() expects: the replacement is harmless.   *)
OverrideIsHarmless == Quiet => \A f \in Files : index[f] = disk[f] \/ f \in missed

(* What the comment on the walk of new directories expects: once the       *)
(* events are read, every directory is watched and its watch known.        *)
WatchesKept ==
    kernel = << >> /\ recv.at = "idle" =>
        \A d \in there : watch[d] \in DOMAIN idtopath /\ idtopath[watch[d]] = d

(* What the documentation of mondelaypatterns says: a file that matches is *)
(* not indexed again before its interval is over.                          *)
RateLimited ==
    [][\A f \in DOMAIN dqueue \cap DOMAIN dqueue' :
           dqueue[f].need /\ ~dqueue'[f].need => dqueue'[f].left = Interval]_vars

(* The changes reach the index in the end, by threads that sleep,   *)
(* wait for the lock or find the lists too short: with the same exceptions.*)
(* The user stops at MaxChanges, so that this is to catch up for good.     *)
MonitorSettles ==
    []<>(\A f \in Files : index[f] = disk[f] \/ f \in missed \cup overridden)
=============================================================================
