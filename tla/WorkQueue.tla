----------------------------- MODULE WorkQueue -----------------------------
(***************************************************************************)
(* utils/workqueue.h: the bounded task queue between two stages of the     *)
(* indexing pipeline.  Client threads put() tasks and sleep when the queue *)
(* is full, worker threads take() them and sleep when it is empty; one     *)
(* mutex protects the state and two condition variables, m_ccond for the   *)
(* clients and m_wcond for the workers, carry the wake-ups.                *)
(*                                                                         *)
(* One action is one critical section: from the moment the thread holds    *)
(* m_mutex to the unlock, or to the wait that releases it.  A condition    *)
(* variable is the set of the threads asleep in it.  A thread that left    *)
(* the set still has to get the mutex back before it goes on, and others   *)
(* may run first.                                                          *)
(*                                                                         *)
(* Not here, because no call in the program uses them: put()'s             *)
(* flushprevious, take()'s timed wait, waitminsz().                        *)
(***************************************************************************)
EXTENDS Integers, Sequences, FiniteSets

CONSTANTS
    Workers,    \* the threads started on the queue
    Clients,    \* the threads that put tasks
    Main,       \* the client that owns the queue: it alone terminates it
    Tasks,      \* the tasks that may be put, each at most once
    High,       \* m_high: queue length at which put() sleeps, 0 for no limit
    Low,        \* m_low: queue length under which take() sleeps
    NoTask

ASSUME ThreadsAssumption ==
    /\ IsFiniteSet(Workers) /\ Workers # {}
    /\ IsFiniteSet(Clients) /\ Main \in Clients
    /\ Workers \cap Clients = {}
ASSUME LimitsAssumption == High \in Nat /\ Low \in Nat \ {0}
ASSUME NoTaskAssumption == NoTask \notin Tasks

VARIABLES
    m_queue,            \* the tasks waiting, oldest first
    m_ok,
    m_openforbusiness,
    m_worker_threads,   \* the threads started and not joined
    m_workers_exited,
    m_workers_waiting,
    m_clients_waiting,
    ccond, wcond,       \* the threads asleep in m_ccond and in m_wcond
    pc,                 \* where each thread is
    arg,                \* the task a client is putting or a worker is running
    fate                \* history: what became of each task

counters == <<m_workers_exited, m_workers_waiting, m_clients_waiting>>
status == <<m_ok, m_openforbusiness, m_worker_threads>>
vars == <<m_queue, status, counters, ccond, wcond, pc, arg, fate>>

Threads == Workers \cup Clients

WorkerPC == {"off",     \* not started, or joined
             "call",    \* about to call take()
             "waiting", \* in take()'s loop, asleep or just woken
             "run",     \* executing the task it took
             "exit",    \* about to call workerExit()
             "gone"}    \* past workerExit()

ClientPC == {"idle",      \* between two calls
             "put",       \* in put()'s loop, asleep or just woken
             "waitIdle",  \* in waitIdle()'s loop
             "drained",   \* waitIdle() returned and nothing was called since
             "terminate", \* in setTerminateAndWait()'s loop
             "gone"}      \* will not use the queue any more

Fates == {"new", "given", "done", "failed", "refused"}

TypeOK ==
    /\ m_queue \in Seq(Tasks)
    /\ m_ok \in BOOLEAN /\ m_openforbusiness \in BOOLEAN
    /\ m_worker_threads \in {{}, Workers}
    /\ m_workers_exited \in Nat
    /\ m_workers_waiting \in Nat
    /\ m_clients_waiting \in Nat
    /\ ccond \subseteq Clients /\ wcond \subseteq Workers
    /\ pc \in [Threads -> WorkerPC \cup ClientPC]
    /\ \A w \in Workers : pc[w] \in WorkerPC
    /\ \A c \in Clients : pc[c] \in ClientPC
    /\ arg \in [Threads -> Tasks \cup {NoTask}]
    /\ fate \in [Tasks -> Fates]

Init ==
    /\ m_queue = << >>
    /\ m_ok = TRUE /\ m_openforbusiness = TRUE
    /\ m_worker_threads = {}
    /\ m_workers_exited = 0 /\ m_workers_waiting = 0 /\ m_clients_waiting = 0
    /\ ccond = {} /\ wcond = {}
    /\ pc = [t \in Threads |-> IF t \in Workers THEN "off" ELSE "idle"]
    /\ arg = [t \in Threads |-> NoTask]
    /\ fate = [t \in Tasks |-> "new"]

-----------------------------------------------------------------------------
(* The queue is usable: the test every operation repeats when it gets the mutex. *)
ok == m_ok /\ m_workers_exited = 0 /\ m_worker_threads # {}

(* The sets that may be left asleep when one of the sleepers is notified. *)
NotifyOne(sleepers) ==
    IF sleepers = {} THEN {{}} ELSE {sleepers \ {t} : t \in sleepers}

(* Faulty variants, here and below, are what a plausible slip would make of *)
(* the definition that follows: the properties are tested against them.     *)
BusyRunningOnly ==
    m_workers_waiting + m_workers_exited < Cardinality(m_worker_threads)

BusyQueueOnly ==
    Len(m_queue) > 0 /\ m_workers_exited < Cardinality(m_worker_threads)

(* waitIdle()'s loop condition: tasks that some worker could still run, or *)
(* a worker that is neither back waiting nor gone.                         *)
Busy ==
    LET n == Cardinality(m_worker_threads)
    IN  \/ Len(m_queue) > 0 /\ m_workers_exited < n
        \/ m_workers_waiting + m_workers_exited < n

-----------------------------------------------------------------------------
(* start(): all the threads are created under the mutex.                   *)
Start ==
    /\ pc[Main] = "idle" /\ m_worker_threads = {}
    /\ m_worker_threads' = Workers
    /\ pc' = [t \in Threads |-> IF t \in Workers THEN "call" ELSE pc[t]]
    /\ UNCHANGED <<m_queue, m_ok, m_openforbusiness, counters, ccond, wcond, arg, fate>>

(* closeShop(): no mutex, and the sleeping clients are not told.           *)
CloseShop ==
    /\ pc[Main] \in {"idle", "drained"} /\ m_openforbusiness
    /\ m_openforbusiness' = FALSE
    /\ UNCHANGED <<m_queue, m_ok, m_worker_threads, counters, ccond, wcond, pc, arg, fate>>

-----------------------------------------------------------------------------
(* put().  awaken is m_clients_waiting as the other clients make it: a     *)
(* client that comes back from the wait no longer counts itself.           *)
Full == High > 0 /\ Len(m_queue) >= High

(* Faulty: the early return forgets m_clients_waiting--. *)
PutRefusedStillCounted(c, t, awaken) ==
    /\ pc' = [pc EXCEPT ![c] = "idle"]
    /\ arg' = [arg EXCEPT ![c] = NoTask]
    /\ fate' = [fate EXCEPT ![t] = "refused"]
    /\ UNCHANGED <<m_queue, status, counters, ccond, wcond>>

PutRefused(c, t, awaken) ==
    /\ m_clients_waiting' = awaken
    /\ pc' = [pc EXCEPT ![c] = "idle"]
    /\ arg' = [arg EXCEPT ![c] = NoTask]
    /\ fate' = [fate EXCEPT ![t] = "refused"]
    /\ UNCHANGED <<m_queue, status, m_workers_exited, m_workers_waiting, ccond, wcond>>

PutSleeps(c, t, awaken) ==
    /\ Full
    /\ m_clients_waiting' = awaken + 1
    /\ ccond' = ccond \cup {c}
    /\ pc' = [pc EXCEPT ![c] = "put"]
    /\ arg' = [arg EXCEPT ![c] = t]
    /\ UNCHANGED <<m_queue, status, m_workers_exited, m_workers_waiting, wcond, fate>>

(* Faulty: the other side's counter decides whether to notify. *)
PutPushesWrongCounter(c, t, awaken) ==
    /\ ~Full
    /\ m_queue' = Append(m_queue, t)
    /\ wcond' \in IF awaken > 0 THEN NotifyOne(wcond) ELSE {wcond}
    /\ m_clients_waiting' = awaken
    /\ pc' = [pc EXCEPT ![c] = "idle"]
    /\ arg' = [arg EXCEPT ![c] = NoTask]
    /\ fate' = [fate EXCEPT ![t] = "given"]
    /\ UNCHANGED <<status, m_workers_exited, m_workers_waiting, ccond>>

(* Faulty: the room is not looked at again after the wait. *)
PutPushesAnyway(c, t, awaken) ==
    /\ pc[c] = "put" \/ ~Full
    /\ m_queue' = Append(m_queue, t)
    /\ wcond' \in IF m_workers_waiting > 0 THEN NotifyOne(wcond) ELSE {wcond}
    /\ m_clients_waiting' = awaken
    /\ pc' = [pc EXCEPT ![c] = "idle"]
    /\ arg' = [arg EXCEPT ![c] = NoTask]
    /\ fate' = [fate EXCEPT ![t] = "given"]
    /\ UNCHANGED <<status, m_workers_exited, m_workers_waiting, ccond>>

PutPushes(c, t, awaken) ==
    /\ ~Full
    /\ m_queue' = Append(m_queue, t)
    /\ wcond' \in IF m_workers_waiting > 0 THEN NotifyOne(wcond) ELSE {wcond}
    /\ m_clients_waiting' = awaken
    /\ pc' = [pc EXCEPT ![c] = "idle"]
    /\ arg' = [arg EXCEPT ![c] = NoTask]
    /\ fate' = [fate EXCEPT ![t] = "given"]
    /\ UNCHANGED <<status, m_workers_exited, m_workers_waiting, ccond>>

(* The call: a queue that is not ok, or closed, refuses at once.           *)
Put(c, t) ==
    /\ pc[c] \in {"idle", "drained"} /\ fate[t] = "new"
    /\ \A d \in Clients : arg[d] # t
    /\ \/ ~(ok /\ m_openforbusiness) /\ PutRefused(c, t, m_clients_waiting)
       \/ /\ ok /\ m_openforbusiness
          /\ PutSleeps(c, t, m_clients_waiting) \/ PutPushes(c, t, m_clients_waiting)

(* Back from the wait: ok() is tested again, m_openforbusiness is not.     *)
PutResumes(c) ==
    /\ pc[c] = "put" /\ c \notin ccond
    /\ LET awaken == m_clients_waiting - 1
       IN  \/ ~ok /\ PutRefused(c, arg[c], awaken)
           \/ ok /\ (PutSleeps(c, arg[c], awaken) \/ PutPushes(c, arg[c], awaken))

-----------------------------------------------------------------------------
(* waitIdle().  The value it returns is ok.                                *)
WaitIdleSleeps(c, awaken) ==
    /\ Busy
    /\ m_clients_waiting' = awaken + 1
    /\ ccond' = ccond \cup {c}
    /\ pc' = [pc EXCEPT ![c] = "waitIdle"]
    /\ UNCHANGED <<m_queue, status, m_workers_exited, m_workers_waiting, wcond, arg, fate>>

WaitIdleReturns(c, awaken) ==
    /\ ~Busy
    /\ m_clients_waiting' = awaken
    /\ pc' = [pc EXCEPT ![c] = "drained"]
    /\ UNCHANGED <<m_queue, status, m_workers_exited, m_workers_waiting, ccond, wcond, arg, fate>>

WaitIdle(c) ==
    /\ pc[c] \in {"idle", "drained"}
    /\ WaitIdleSleeps(c, m_clients_waiting) \/ WaitIdleReturns(c, m_clients_waiting)

WaitIdleResumes(c) ==
    /\ pc[c] = "waitIdle" /\ c \notin ccond
    /\ LET awaken == m_clients_waiting - 1
       IN  WaitIdleSleeps(c, awaken) \/ WaitIdleReturns(c, awaken)

-----------------------------------------------------------------------------
(* setTerminateAndWait(), from the destructors of the owners of a queue:   *)
(* the stage upstream was joined before, so the other clients are gone.    *)
(* Faulty: the workers are not woken. *)
TerminateSleepsSilently(awaken) ==
    /\ m_workers_exited < Cardinality(m_worker_threads)
    /\ m_clients_waiting' = awaken + 1
    /\ ccond' = ccond \cup {Main}
    /\ m_ok' = FALSE
    /\ pc' = [pc EXCEPT ![Main] = "terminate"]
    /\ UNCHANGED <<m_queue, m_openforbusiness, m_worker_threads, m_workers_exited,
                   m_workers_waiting, wcond, arg, fate>>

TerminateSleeps(awaken) ==
    /\ m_workers_exited < Cardinality(m_worker_threads)
    /\ wcond' = {}
    /\ m_clients_waiting' = awaken + 1
    /\ ccond' = ccond \cup {Main}
    /\ m_ok' = FALSE
    /\ pc' = [pc EXCEPT ![Main] = "terminate"]
    /\ UNCHANGED <<m_queue, m_openforbusiness, m_worker_threads, m_workers_exited,
                   m_workers_waiting, arg, fate>>

(* Every worker has called workerExit(): join, and back to the start state, *)
(* except for the tasks still queued.                                       *)
TerminateJoins ==
    /\ m_workers_exited >= Cardinality(m_worker_threads)
    /\ m_worker_threads' = {}
    /\ m_workers_exited' = 0 /\ m_workers_waiting' = 0 /\ m_clients_waiting' = 0
    /\ m_ok' = TRUE
    /\ pc' = [t \in Threads |->
                CASE t \in Workers -> "off" [] t = Main -> "gone" [] OTHER -> pc[t]]
    /\ UNCHANGED <<m_queue, m_openforbusiness, ccond, wcond, arg, fate>>

Terminate ==
    /\ pc[Main] \in {"idle", "drained"} /\ m_worker_threads # {}
    /\ \A c \in Clients \ {Main} : pc[c] = "gone"
    /\ TerminateSleeps(m_clients_waiting) \/ TerminateJoins

TerminateResumes ==
    /\ pc[Main] = "terminate" /\ Main \notin ccond
    /\ TerminateSleeps(m_clients_waiting - 1) \/ TerminateJoins

(* A client other than the owner ends (an upstream worker that returns).   *)
Leave(c) ==
    /\ c # Main /\ pc[c] \in {"idle", "drained"}
    /\ pc' = [pc EXCEPT ![c] = "gone"]
    /\ UNCHANGED <<m_queue, status, counters, ccond, wcond, arg, fate>>

-----------------------------------------------------------------------------
(* take(), and the worker loop around it.  waiting is m_workers_waiting as *)
(* the other workers make it.                                              *)
TakeFails(w, waiting) ==
    /\ ~ok
    /\ m_workers_waiting' = waiting
    /\ pc' = [pc EXCEPT ![w] = "exit"]
    /\ UNCHANGED <<m_queue, status, m_workers_exited, m_clients_waiting, ccond, wcond, arg, fate>>

(* Faulty: the clients are not told. *)
TakeSleepsSilently(w, waiting) ==
    /\ ok /\ Len(m_queue) < Low
    /\ m_workers_waiting' = waiting + 1
    /\ wcond' = wcond \cup {w}
    /\ pc' = [pc EXCEPT ![w] = "waiting"]
    /\ UNCHANGED <<m_queue, status, m_workers_exited, m_clients_waiting, ccond, arg, fate>>

(* Going to sleep on an empty queue wakes the clients: one of them may be  *)
(* in waitIdle().                                                          *)
TakeSleeps(w, waiting) ==
    /\ ok /\ Len(m_queue) < Low
    /\ m_workers_waiting' = waiting + 1
    /\ wcond' = wcond \cup {w}
    /\ ccond' = IF m_queue = << >> THEN {} ELSE ccond
    /\ pc' = [pc EXCEPT ![w] = "waiting"]
    /\ UNCHANGED <<m_queue, status, m_workers_exited, m_clients_waiting, arg, fate>>

(* Faulty: the task is read and not removed. *)
TakePeeks(w, waiting) ==
    /\ ok /\ Len(m_queue) >= Low
    /\ arg' = [arg EXCEPT ![w] = Head(m_queue)]
    /\ ccond' \in IF m_clients_waiting > 0 THEN NotifyOne(ccond) ELSE {ccond}
    /\ m_workers_waiting' = waiting
    /\ pc' = [pc EXCEPT ![w] = "run"]
    /\ UNCHANGED <<m_queue, status, m_workers_exited, m_clients_waiting, wcond, fate>>

(* Room was made: one client is told, and it may be one that sleeps in     *)
(* waitIdle() while another sleeps in put().                               *)
TakePops(w, waiting) ==
    /\ ok /\ Len(m_queue) >= Low
    /\ m_queue' = Tail(m_queue)
    /\ arg' = [arg EXCEPT ![w] = Head(m_queue)]
    /\ ccond' \in IF m_clients_waiting > 0 THEN NotifyOne(ccond) ELSE {ccond}
    /\ m_workers_waiting' = waiting
    /\ pc' = [pc EXCEPT ![w] = "run"]
    /\ UNCHANGED <<status, m_workers_exited, m_clients_waiting, wcond, fate>>

TakeLoop(w, waiting) ==
    TakeFails(w, waiting) \/ TakeSleeps(w, waiting) \/ TakePops(w, waiting)

Take(w) == pc[w] = "call" /\ TakeLoop(w, m_workers_waiting)

TakeResumes(w) ==
    /\ pc[w] = "waiting" /\ w \notin wcond
    /\ TakeLoop(w, m_workers_waiting - 1)

(* The task is executed outside the mutex.  A worker whose task fails      *)
(* leaves the loop.                                                        *)
EndTask(w, how, next) ==
    /\ pc[w] = "run"
    /\ fate' = [fate EXCEPT ![arg[w]] = how]
    /\ arg' = [arg EXCEPT ![w] = NoTask]
    /\ pc' = [pc EXCEPT ![w] = next]
    /\ UNCHANGED <<m_queue, status, counters, ccond, wcond>>

TaskDone(w) == EndTask(w, "done", "call")
TaskFails(w) == EndTask(w, "failed", "exit")

(* Faulty: the clients are not told. *)
WorkerExitSilent(w) ==
    /\ pc[w] = "exit"
    /\ m_workers_exited' = m_workers_exited + 1
    /\ m_ok' = FALSE
    /\ pc' = [pc EXCEPT ![w] = "gone"]
    /\ UNCHANGED <<m_queue, m_openforbusiness, m_worker_threads, m_workers_waiting,
                   m_clients_waiting, ccond, wcond, arg, fate>>

(* workerExit(): aborts the queue and tells the clients, not the workers.  *)
WorkerExit(w) ==
    /\ pc[w] = "exit"
    /\ m_workers_exited' = m_workers_exited + 1
    /\ m_ok' = FALSE
    /\ ccond' = {}
    /\ pc' = [pc EXCEPT ![w] = "gone"]
    /\ UNCHANGED <<m_queue, m_openforbusiness, m_worker_threads, m_workers_waiting,
                   m_clients_waiting, wcond, arg, fate>>

-----------------------------------------------------------------------------
(* A wait may return without a notification: std::condition_variable       *)
(* allows it, and every loop above tests its condition again.              *)
SpuriousWake(t) ==
    /\ t \in ccond \cup wcond
    /\ ccond' = ccond \ {t} /\ wcond' = wcond \ {t}
    /\ UNCHANGED <<m_queue, status, counters, pc, arg, fate>>

WorkerStep(w) == Take(w) \/ TakeResumes(w) \/ TaskDone(w) \/ TaskFails(w) \/ WorkerExit(w)

(* What a client does to get out of a call it is in. *)
ClientResumes(c) == PutResumes(c) \/ WaitIdleResumes(c) \/ (c = Main /\ TerminateResumes)

ClientCalls(c) == WaitIdle(c) \/ Leave(c) \/ \E t \in Tasks : Put(c, t)

Next ==
    \/ Start \/ CloseShop \/ Terminate
    \/ \E c \in Clients : ClientCalls(c) \/ ClientResumes(c)
    \/ \E w \in Workers : WorkerStep(w)
    \/ \E t \in Threads : SpuriousWake(t)

Spec == Init /\ [][Next]_vars

(* The scheduler runs every thread that can run and the mutex is granted   *)
(* to every thread that asks: a worker goes on, a task ends, a client that *)
(* was woken gets out of its wait.  Clients are not bound to call anything.*)
Fairness ==
    /\ \A w \in Workers : WF_vars(WorkerStep(w))
    /\ \A c \in Clients : WF_vars(ClientResumes(c))

FairSpec == Spec /\ Fairness
-----------------------------------------------------------------------------
(* What is checked.                                                        *)

(* The calls a client can be asleep in. *)
Calls == {"put", "waitIdle", "terminate"}

ClientsIn(calls) == {c \in Clients : pc[c] \in calls}
WorkersAt(places) == {w \in Workers : pc[w] \in places}

(* The counters are the numbers of threads they stand for, through every   *)
(* wait, abort and early return: waitIdle(), setTerminateAndWait() and the *)
(* decisions to notify trust them, and an unsigned one that is decremented *)
(* once too often never comes back.                                        *)
CountersMatchThreads ==
    /\ m_workers_waiting = Cardinality(WorkersAt({"waiting"}))
    /\ m_workers_exited = Cardinality(WorkersAt({"gone"}))
    /\ m_clients_waiting = Cardinality(ClientsIn(Calls))

Holders(t) == {w \in Workers : pc[w] = "run" /\ arg[w] = t}
Places(t) == {i \in DOMAIN m_queue : m_queue[i] = t}

(* put() that returned true is a promise: the task is in exactly one place *)
(* of the queue or in the hands of exactly one worker until it has run,    *)
(* and one that was refused is in none.                                    *)
EachTaskInOnePlace ==
    \A t \in Tasks :
        Cardinality(Places(t)) + Cardinality(Holders(t)) =
            IF fate[t] = "given" THEN 1 ELSE 0

(* m_high bounds the queue although several clients may be woken for one   *)
(* free place.                                                             *)
QueueBounded == High > 0 => Len(m_queue) <= High

(* No lost wake-up on the workers' side: put() skips the notification when *)
(* nobody waits and notifies one worker otherwise.  While the queue is ok  *)
(* and holds enough tasks, a worker is awake and will come for them.       *)
AwakeWorkers == {w \in Workers : pc[w] \in {"call", "run", "exit"}
                                 \/ (pc[w] = "waiting" /\ w \notin wcond)}
NoStrandedTask == ok /\ Len(m_queue) >= Low => AwakeWorkers # {}

(* No lost wake-up for waitIdle(): a client asleep in it still has a reason *)
(* to wait.                                                                 *)
NoForgottenWaiter == \A c \in ccond : pc[c] = "waitIdle" => Busy

(* take() notifies one client, which may be another than the one that needs *)
(* the free place.  A client asleep in put() that could go on, or that must *)
(* be told of the abort, has a worker awake that will notify again.         *)
NoStuckPutter ==
    \A c \in ccond : pc[c] = "put" /\ (~Full \/ ~ok) => AwakeWorkers # {}

(* Nothing runs, and nothing will: no task is queued or no worker is left. *)
Quiet ==
    /\ WorkersAt({"run"}) = {}
    /\ m_queue = << >> \/ WorkersAt({"call", "waiting"}) = {}

(* The use waitIdle() is made for: at the moment it returns the queue is    *)
(* quiet, and it stays so until some client gives it another task.  The     *)
(* owner purges, commits or deletes what the workers use on that promise.   *)
WaitIdleMeansQuiet ==
    [][ /\ \A c \in Clients : pc[c] # "drained" /\ pc'[c] = "drained" => Quiet'
        /\ Quiet => Quiet' \/ \E t \in Tasks : fate[t] = "new" /\ fate'[t] = "given"
      ]_vars

(* The queue implements the task pool its clients rely on.                 *)
Pool == INSTANCE TaskPool WITH
    waiting <- m_queue,
    running <- {arg[w] : w \in WorkersAt({"run"})},
    told <- ClientsIn({"drained"})

ImplementsPool == Pool!PoolSpec

(* A worker failed and left tasks on the queue, and all the others sleep in *)
(* take(): workerExit() does not wake them, put() refuses, and only the     *)
(* owner's setTerminateAndWait() would.                                     *)
Deserted ==
    /\ m_workers_exited > 0 /\ m_queue # << >> /\ wcond # {}
    /\ \A w \in Workers : pc[w] = "gone" \/ w \in wcond

(* A call to waitIdle() comes back, whatever the workers do, unless they    *)
(* desert the queue.                                                        *)
WaitIdleComesBack ==
    \A c \in Clients : pc[c] = "waitIdle" ~> pc[c] # "waitIdle" \/ Deserted

(* "Wait until the queue is inactive" (workqueue.h): the claim without the  *)
(* exception, which three workers, one of which fails, refute.              *)
WaitIdleAlwaysComesBack == \A c \in Clients : pc[c] = "waitIdle" ~> pc[c] # "waitIdle"

(* A call to put() or to setTerminateAndWait() comes back, whatever the     *)
(* workers do.                                                              *)
PutComesBack == \A c \in Clients : pc[c] = "put" ~> pc[c] # "put"
TerminateComesBack == pc[Main] = "terminate" ~> pc[Main] = "gone"
=============================================================================
