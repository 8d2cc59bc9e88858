-------------------------- MODULE WorkQueue_proofs --------------------------
(***************************************************************************)
(* Theorems about WorkQueue for any finite sets of workers and clients,    *)
(* any tasks and any limits, with their proofs.  First its counters, which *)
(* are those of its threads, and its wake-ups, of which none is lost.      *)
(* Then the tasks: each is in one place from put() until it has run,       *)
(* waitIdle() returns at a moment when nothing runs and nothing will, and  *)
(* every critical section is one step of TaskPool or none.                 *)
(***************************************************************************)
EXTENDS WorkQueue, FiniteSetTheorems, SequenceTheorems, TLAPS

-----------------------------------------------------------------------------
(* The inductive invariant.                                                *)

(* Only a thread that is inside a wait loop is asleep. *)
SleepersInLoops ==
    /\ ccond \subseteq ClientsIn(Calls)
    /\ wcond \subseteq WorkersAt({"waiting"})

(* The workers exist together, from start() to the join. *)
WorkersTogether ==
    \A w \in Workers : pc[w] = "off" <=> m_worker_threads = {}

(* The owner terminates the queue alone. *)
OwnerTerminates ==
    /\ \A c \in Clients : pc[c] = "terminate" => c = Main
    /\ pc[Main] = "terminate" =>
           /\ m_worker_threads # {}
           /\ \A c \in Clients \ {Main} : pc[c] = "gone"

WorkerHasTask == \A w \in Workers : pc[w] = "run" => arg[w] \in Tasks

Structure ==
    /\ TypeOK
    /\ SleepersInLoops
    /\ WorkersTogether
    /\ OwnerTerminates
    /\ WorkerHasTask
    /\ \A c \in Clients : pc[c] = "put" => arg[c] \in Tasks
    /\ CountersMatchThreads

-----------------------------------------------------------------------------
(* How a step of one thread changes the sets that the counters count.      *)

LEMMA ThreadsDistinct ==
    ASSUME NEW c \in Clients, NEW w \in Workers
    PROVE  c # w /\ c \in Threads /\ w \in Threads
BY ThreadsAssumption DEF Threads

LEMMA ClientMoves ==
    ASSUME TypeOK, NEW c \in Clients, NEW q, pc' = [pc EXCEPT ![c] = q], NEW P
    PROVE  /\ q \in P => ClientsIn(P)' = ClientsIn(P) \cup {c}
           /\ q \notin P => ClientsIn(P)' = ClientsIn(P) \ {c}
           /\ WorkersAt(P)' = WorkersAt(P)
           /\ \A w \in Workers : pc'[w] = pc[w]
BY ThreadsDistinct DEF TypeOK, ClientsIn, WorkersAt, Threads

LEMMA WorkerMoves ==
    ASSUME TypeOK, NEW w \in Workers, NEW q, pc' = [pc EXCEPT ![w] = q], NEW P
    PROVE  /\ q \in P => WorkersAt(P)' = WorkersAt(P) \cup {w}
           /\ q \notin P => WorkersAt(P)' = WorkersAt(P) \ {w}
           /\ ClientsIn(P)' = ClientsIn(P)
           /\ \A c \in Clients : pc'[c] = pc[c]
BY ThreadsDistinct DEF TypeOK, ClientsIn, WorkersAt, Threads

(* The conjuncts of TypeOK about pc. *)
PcOK ==
    /\ pc \in [Threads -> WorkerPC \cup ClientPC]
    /\ \A w \in Workers : pc[w] \in WorkerPC
    /\ \A c \in Clients : pc[c] \in ClientPC

LEMMA ClientMovesType ==
    ASSUME TypeOK, NEW c \in Clients, NEW q \in ClientPC, pc' = [pc EXCEPT ![c] = q]
    PROVE  PcOK'
BY ThreadsDistinct DEF TypeOK, PcOK, Threads

LEMMA WorkerMovesType ==
    ASSUME TypeOK, NEW w \in Workers, NEW q \in WorkerPC, pc' = [pc EXCEPT ![w] = q]
    PROVE  PcOK'
BY ThreadsDistinct DEF TypeOK, PcOK, Threads

LEMMA CountsFinite ==
    ASSUME NEW P
    PROVE  /\ IsFiniteSet(ClientsIn(P)) /\ Cardinality(ClientsIn(P)) \in Nat
           /\ IsFiniteSet(WorkersAt(P)) /\ Cardinality(WorkersAt(P)) \in Nat
  <1>1. ClientsIn(P) \subseteq Clients /\ WorkersAt(P) \subseteq Workers
    BY DEF ClientsIn, WorkersAt
  <1>2. IsFiniteSet(ClientsIn(P)) /\ IsFiniteSet(WorkersAt(P))
    BY <1>1, FS_Subset, ThreadsAssumption
  <1>3. QED
    BY <1>2, FS_CardinalityType

(* A set with one element removed and put back. *)
LEMMA CountAgain ==
    ASSUME NEW S, IsFiniteSet(S), NEW x
    PROVE  /\ Cardinality(S \ {x}) \in Nat
           /\ Cardinality(S \cup {x}) = Cardinality(S \ {x}) + 1
           /\ x \in S => Cardinality(S \ {x}) = Cardinality(S) - 1
           /\ x \notin S => Cardinality(S \ {x}) = Cardinality(S)
  <1>1. /\ IsFiniteSet(S \ {x})
        /\ x \in S => Cardinality(S \ {x}) = Cardinality(S) - 1
        /\ x \notin S => Cardinality(S \ {x}) = Cardinality(S)
    BY FS_RemoveElement
  <1>2. (S \ {x}) \cup {x} = S \cup {x} /\ x \notin S \ {x}
    OBVIOUS
  <1>3. Cardinality(S \cup {x}) = Cardinality(S \ {x}) + 1
    BY <1>1, <1>2, FS_AddElement
  <1>4. QED
    BY <1>1, <1>3, FS_CardinalityType

-----------------------------------------------------------------------------
(* Init and the steps of the clients.                                      *)

LEMMA StructureInit == Init => Structure
  <1> SUFFICES ASSUME Init PROVE Structure
    OBVIOUS
  <1>1. Workers \subseteq Threads /\ Clients \subseteq Threads /\ Main \in Clients
    BY ThreadsAssumption DEF Threads
  <1>2. \A w \in Workers : pc[w] = "off"
    BY <1>1 DEF Init
  <1>3. \A c \in Clients : pc[c] = "idle"
    BY <1>1, ThreadsDistinct DEF Init
  <1>4. TypeOK
    BY <1>1, <1>2, <1>3, EmptySeq DEF Init, TypeOK, WorkerPC, ClientPC, Fates
  <1>5. WorkersAt({"waiting"}) = {} /\ WorkersAt({"gone"}) = {} /\ ClientsIn(Calls) = {}
    BY <1>2, <1>3 DEF WorkersAt, ClientsIn, Calls
  <1>6. CountersMatchThreads
    BY <1>5, FS_EmptySet DEF Init, CountersMatchThreads
  <1>7. SleepersInLoops /\ WorkersTogether /\ OwnerTerminates /\ WorkerHasTask
    BY <1>1, <1>2, <1>3 DEF Init, SleepersInLoops, WorkersTogether, OwnerTerminates, WorkerHasTask
  <1>8. QED
    BY <1>3, <1>4, <1>6, <1>7 DEF Structure

(* awaken, as the calls pass it, is the number of the other clients in a   *)
(* wait loop: for a client that enters its call and for one that resumes.  *)
LEMMA Awaken ==
    ASSUME Structure, NEW c \in Clients
    PROVE  /\ pc[c] \notin Calls => m_clients_waiting = Cardinality(ClientsIn(Calls) \ {c})
           /\ pc[c] \in Calls => m_clients_waiting - 1 = Cardinality(ClientsIn(Calls) \ {c})
BY CountsFinite, CountAgain DEF Structure, CountersMatchThreads, ClientsIn

LEMMA StillWaiting ==
    ASSUME Structure, NEW w \in Workers
    PROVE  /\ pc[w] # "waiting" => m_workers_waiting = Cardinality(WorkersAt({"waiting"}) \ {w})
           /\ pc[w] = "waiting" => m_workers_waiting - 1 = Cardinality(WorkersAt({"waiting"}) \ {w})
BY CountsFinite, CountAgain DEF Structure, CountersMatchThreads, WorkersAt

(* What a step of client c owes to Structure, once its effect on pc and on *)
(* the clients' counter is known.                                          *)
LEMMA ClientCounters ==
    ASSUME Structure, NEW c \in Clients, NEW q, pc' = [pc EXCEPT ![c] = q],
           m_workers_exited' = m_workers_exited, m_workers_waiting' = m_workers_waiting,
           \/ q \in Calls /\ m_clients_waiting' = Cardinality(ClientsIn(Calls) \ {c}) + 1
           \/ q \notin Calls /\ m_clients_waiting' = Cardinality(ClientsIn(Calls) \ {c})
    PROVE  CountersMatchThreads'
  <1> DEFINE others == ClientsIn(Calls) \ {c}
  <1>1. /\ q \in Calls => ClientsIn(Calls)' = ClientsIn(Calls) \cup {c}
        /\ q \notin Calls => ClientsIn(Calls)' = others
    BY ClientMoves DEF Structure
  <1>2. WorkersAt({"waiting"})' = WorkersAt({"waiting"}) /\ WorkersAt({"gone"})' = WorkersAt({"gone"})
    BY ClientMoves DEF Structure
  <1>3. Cardinality(others) \in Nat /\ Cardinality(ClientsIn(Calls) \cup {c}) = Cardinality(others) + 1
    BY CountsFinite, CountAgain
  <1>4. m_clients_waiting' = Cardinality(ClientsIn(Calls)')
    BY <1>1, <1>3
  <1>5. QED
    BY <1>2, <1>4 DEF Structure, CountersMatchThreads

LEMMA ClientStep ==
    ASSUME Structure, NEW c \in Clients, NEW q \in ClientPC, NEW a \in Tasks \cup {NoTask},
           pc[c] # "gone", pc' = [pc EXCEPT ![c] = q], arg' = [arg EXCEPT ![c] = a],
           q = "put" => a \in Tasks,
           q = "terminate" => /\ c = Main /\ m_worker_threads # {}
                              /\ \A d \in Clients \ {Main} : pc[d] = "gone",
           m_workers_exited' = m_workers_exited, m_workers_waiting' = m_workers_waiting,
           \/ q \in Calls /\ m_clients_waiting' = Cardinality(ClientsIn(Calls) \ {c}) + 1
           \/ q \notin Calls /\ m_clients_waiting' = Cardinality(ClientsIn(Calls) \ {c}),
           ccond' \subseteq ccond \cup {c}, c \in ccond' => q \in Calls,
           wcond' \subseteq wcond,
           m_queue' \in Seq(Tasks), m_ok' \in BOOLEAN, m_openforbusiness' \in BOOLEAN,
           m_worker_threads' = m_worker_threads, fate' \in [Tasks -> Fates]
    PROVE  Structure'
  <1>1. CountersMatchThreads'
    BY ClientCounters
  <1>2. Cardinality(ClientsIn(Calls) \ {c}) \in Nat
    BY CountsFinite, CountAgain
  <1>3. PcOK'
    BY ClientMovesType DEF Structure
  <1>4. arg' \in [Threads -> Tasks \cup {NoTask}]
    BY DEF Structure, TypeOK
  <1>5. m_clients_waiting' \in Nat
    BY <1>2
  <1>6. TypeOK'
    BY <1>3, <1>4, <1>5 DEF Structure, TypeOK, PcOK
  <1>7. SleepersInLoops'
    <2>1. /\ q \in Calls => ClientsIn(Calls)' = ClientsIn(Calls) \cup {c}
          /\ q \notin Calls => ClientsIn(Calls)' = ClientsIn(Calls) \ {c}
      BY ClientMoves DEF Structure
    <2>2. WorkersAt({"waiting"})' = WorkersAt({"waiting"})
      BY ClientMoves DEF Structure
    <2>3. QED
      BY <2>1, <2>2 DEF Structure, SleepersInLoops
  <1>8. \A w \in Workers : pc'[w] = pc[w] /\ arg'[w] = arg[w]
    BY ThreadsDistinct DEF Structure, TypeOK
  <1>9. \A d \in Clients : d # c => pc'[d] = pc[d] /\ arg'[d] = arg[d]
    BY ThreadsDistinct DEF Structure, TypeOK, Threads
  <1>10. pc'[c] = q /\ arg'[c] = a
    BY DEF Structure, TypeOK, Threads
  <1>11. WorkersTogether' /\ WorkerHasTask'
    BY <1>8 DEF Structure, WorkersTogether, WorkerHasTask
  <1>12. OwnerTerminates'
    BY <1>9, <1>10, ThreadsAssumption DEF Structure, OwnerTerminates
  <1>13. \A d \in Clients : pc'[d] = "put" => arg'[d] \in Tasks
    BY <1>9, <1>10 DEF Structure
  <1>14. QED
    BY <1>1, <1>6, <1>7, <1>11, <1>12, <1>13 DEF Structure

LEMMA SameArg ==
    ASSUME TypeOK, NEW t \in Threads, UNCHANGED arg
    PROVE  arg[t] \in Tasks \cup {NoTask} /\ arg' = [arg EXCEPT ![t] = arg[t]]
BY DEF TypeOK

(* The sleepers that a notification leaves are a subset of the sleepers. *)
LEMMA NotifySubset == ASSUME NEW S, NEW T \in NotifyOne(S) PROVE T \subseteq S
BY DEF NotifyOne

(* put(), from its call and from its wait.                                 *)
LEMMA PutStructure ==
    ASSUME Structure, NEW c \in Clients, NEW t \in Tasks, NEW awaken,
           pc[c] \in {"idle", "drained", "put"}, c \notin ccond,
           awaken = Cardinality(ClientsIn(Calls) \ {c}),
           PutRefused(c, t, awaken) \/ PutSleeps(c, t, awaken) \/ PutPushes(c, t, awaken)
    PROVE  Structure'
  <1> USE DEF Structure, TypeOK, status
  <1>1. "idle" \in ClientPC /\ "put" \in ClientPC /\ "idle" \notin Calls /\ "put" \in Calls
    BY DEF ClientPC, Calls
  <1>2. CASE PutRefused(c, t, awaken)
    <2>1. fate' \in [Tasks -> Fates]
      BY <1>2 DEF PutRefused, Fates
    <2>2. QED
      BY <1>1, <1>2, <2>1, ClientStep DEF PutRefused
  <1>3. CASE PutSleeps(c, t, awaken)
    BY <1>1, <1>3, ClientStep DEF PutSleeps
  <1>4. CASE PutPushes(c, t, awaken)
    <2>1. fate' \in [Tasks -> Fates]
      BY <1>4 DEF PutPushes, Fates
    <2>2. m_queue' \in Seq(Tasks)
      BY <1>4, AppendProperties DEF PutPushes
    <2>3. wcond' \subseteq wcond
      BY <1>4, NotifySubset DEF PutPushes
    <2>4. QED
      BY <1>1, <1>4, <2>1, <2>2, <2>3, ClientStep DEF PutPushes
  <1>5. QED
    BY <1>2, <1>3, <1>4

LEMMA WaitIdleStructure ==
    ASSUME Structure, NEW c \in Clients, NEW awaken,
           pc[c] \in {"idle", "drained", "waitIdle"}, c \notin ccond,
           awaken = Cardinality(ClientsIn(Calls) \ {c}),
           WaitIdleSleeps(c, awaken) \/ WaitIdleReturns(c, awaken)
    PROVE  Structure'
  <1> USE DEF Structure, TypeOK, status
  <1>1. /\ "waitIdle" \in ClientPC /\ "drained" \in ClientPC
        /\ "waitIdle" \in Calls /\ "drained" \notin Calls
    BY DEF ClientPC, Calls
  <1>2. arg' = [arg EXCEPT ![c] = arg[c]] /\ arg[c] \in Tasks \cup {NoTask}
    BY SameArg, ThreadsDistinct DEF WaitIdleSleeps, WaitIdleReturns, Threads
  <1>3. CASE WaitIdleSleeps(c, awaken)
    BY <1>1, <1>2, <1>3, ClientStep DEF WaitIdleSleeps
  <1>4. CASE WaitIdleReturns(c, awaken)
    BY <1>1, <1>2, <1>4, ClientStep DEF WaitIdleReturns
  <1>5. QED
    BY <1>3, <1>4

LEMMA TerminateStructure ==
    ASSUME Structure, pc[Main] \in {"idle", "drained", "terminate"}, Main \notin ccond,
           m_worker_threads # {}, \A c \in Clients \ {Main} : pc[c] = "gone",
           NEW awaken, awaken = Cardinality(ClientsIn(Calls) \ {Main}),
           TerminateSleeps(awaken) \/ TerminateJoins
    PROVE  Structure'
  <1> USE DEF Structure, TypeOK
  <1> Main \in Clients
    BY ThreadsAssumption
  <1>1. CASE TerminateSleeps(awaken)
    <2>1. "terminate" \in ClientPC /\ "terminate" \in Calls
      BY DEF ClientPC, Calls
    <2>2. arg' = [arg EXCEPT ![Main] = arg[Main]] /\ arg[Main] \in Tasks \cup {NoTask}
      BY <1>1, SameArg DEF TerminateSleeps, Threads
    <2>3. QED
      BY <1>1, <2>1, <2>2, ClientStep DEF TerminateSleeps
  <1>2. CASE TerminateJoins
    <2>1. \A w \in Workers : pc'[w] = "off"
      BY <1>2, ThreadsDistinct DEF TerminateJoins
    <2>2. \A c \in Clients : pc'[c] = "gone"
      BY <1>2, ThreadsDistinct DEF TerminateJoins, Threads
    <2>3. /\ WorkersAt({"waiting"})' = {} /\ WorkersAt({"gone"})' = {}
          /\ ClientsIn(Calls)' = {}
      BY <2>1, <2>2 DEF WorkersAt, ClientsIn, Calls
    <2>4. CountersMatchThreads'
      BY <1>2, <2>3, FS_EmptySet DEF TerminateJoins, CountersMatchThreads
    <2>5. PcOK'
      BY <1>2, <2>1, <2>2 DEF TerminateJoins, PcOK, WorkerPC, ClientPC, Threads
    <2>6. TypeOK'
      BY <1>2, <2>5 DEF TerminateJoins, PcOK
    <2>7. ccond' = {}
      BY <1>2 DEF SleepersInLoops, ClientsIn, Calls, TerminateJoins
    <2>8. wcond' = {}
      <3>1. WorkersAt({"gone"}) \subseteq Workers /\ m_worker_threads = Workers
        BY DEF WorkersAt
      <3>2. Cardinality(WorkersAt({"gone"})) >= Cardinality(Workers)
        BY <1>2, <3>1 DEF TerminateJoins, CountersMatchThreads
      <3>3. WorkersAt({"gone"}) = Workers
        BY <3>1, <3>2, FS_Subset, FS_CardinalityType, ThreadsAssumption, CountsFinite
      <3>4. WorkersAt({"waiting"}) = {}
        BY <3>3 DEF WorkersAt
      <3>5. QED
        BY <1>2, <3>4 DEF SleepersInLoops, TerminateJoins
    <2>9. QED
      BY <1>2, <2>1, <2>2, <2>4, <2>6, <2>7, <2>8
         DEF SleepersInLoops, WorkersTogether, OwnerTerminates, WorkerHasTask, TerminateJoins
  <1>3. QED
    BY <1>1, <1>2

LEMMA OwnerStructure ==
    ASSUME Structure, Start \/ CloseShop
    PROVE  Structure'
  <1> Main \in Clients
    BY ThreadsAssumption
  <1> USE DEF Structure, TypeOK
  <1>1. CASE Start
    <2>1. \A w \in Workers : pc[w] = "off" /\ pc'[w] = "call"
      BY <1>1, ThreadsDistinct DEF Start, WorkersTogether
    <2>2. \A c \in Clients : pc'[c] = pc[c]
      BY <1>1, ThreadsDistinct DEF Start, Threads
    <2>3. /\ WorkersAt({"waiting"})' = WorkersAt({"waiting"})
          /\ WorkersAt({"gone"})' = WorkersAt({"gone"})
          /\ ClientsIn(Calls)' = ClientsIn(Calls)
      BY <2>1, <2>2 DEF WorkersAt, ClientsIn
    <2>4. CountersMatchThreads' /\ SleepersInLoops'
      BY <1>1, <2>3 DEF Start, counters, CountersMatchThreads, SleepersInLoops
    <2>5. PcOK'
      BY <1>1, <2>1, <2>2 DEF Start, PcOK, WorkerPC, ClientPC, Threads
    <2>6. QED
      BY <1>1, <2>1, <2>2, <2>4, <2>5, ThreadsAssumption
         DEF Start, counters, PcOK, WorkersTogether, OwnerTerminates, WorkerHasTask
  <1>2. CASE CloseShop
    BY <1>2 DEF CloseShop, counters, SleepersInLoops, WorkersTogether, OwnerTerminates,
                WorkerHasTask, CountersMatchThreads, WorkersAt, ClientsIn
  <1>3. QED
    BY <1>1, <1>2

LEMMA LeaveStructure ==
    ASSUME Structure, NEW c \in Clients, Leave(c)
    PROVE  Structure'
  <1>1. "gone" \in ClientPC /\ "gone" \notin Calls /\ pc[c] \notin Calls
    BY DEF ClientPC, Calls, Leave
  <1>2. arg' = [arg EXCEPT ![c] = arg[c]] /\ arg[c] \in Tasks \cup {NoTask}
    BY SameArg DEF Structure, Leave, Threads
  <1>3. c \notin ccond
    BY <1>1 DEF Structure, SleepersInLoops, ClientsIn
  <1>4. m_clients_waiting' = Cardinality(ClientsIn(Calls) \ {c})
    BY <1>1, Awaken DEF Leave, counters
  <1>5. QED
    BY <1>1, <1>2, <1>3, <1>4, ClientStep DEF Leave, Structure, TypeOK, status, counters

LEMMA SpuriousWakeStructure ==
    ASSUME Structure, NEW t \in Threads, SpuriousWake(t)
    PROVE  Structure'
BY DEF SpuriousWake, Structure, TypeOK, status, counters, SleepersInLoops, WorkersTogether,
       OwnerTerminates, WorkerHasTask, CountersMatchThreads, WorkersAt, ClientsIn

-----------------------------------------------------------------------------
(* The steps of the workers.                                               *)

LEMMA WorkerCounters ==
    ASSUME Structure, NEW w \in Workers, NEW q, pc' = [pc EXCEPT ![w] = q],
           m_clients_waiting' = m_clients_waiting,
           pc[w] # "gone",
           \/ q = "waiting" /\ m_workers_waiting' = Cardinality(WorkersAt({"waiting"}) \ {w}) + 1
           \/ q # "waiting" /\ m_workers_waiting' = Cardinality(WorkersAt({"waiting"}) \ {w}),
           \/ q = "gone" /\ m_workers_exited' = m_workers_exited + 1
           \/ q # "gone" /\ m_workers_exited' = m_workers_exited
    PROVE  CountersMatchThreads' /\ m_workers_waiting' \in Nat /\ m_workers_exited' \in Nat
  <1> DEFINE others == WorkersAt({"waiting"}) \ {w}
  <1>1. /\ q = "waiting" => WorkersAt({"waiting"})' = WorkersAt({"waiting"}) \cup {w}
        /\ q # "waiting" => WorkersAt({"waiting"})' = others
        /\ q = "gone" => WorkersAt({"gone"})' = WorkersAt({"gone"}) \cup {w}
        /\ q # "gone" => WorkersAt({"gone"})' = WorkersAt({"gone"}) \ {w}
    BY WorkerMoves DEF Structure
  <1>2. ClientsIn(Calls)' = ClientsIn(Calls)
    BY WorkerMoves DEF Structure
  <1>3. /\ Cardinality(others) \in Nat
        /\ Cardinality(WorkersAt({"waiting"}) \cup {w}) = Cardinality(others) + 1
    BY CountsFinite, CountAgain
  <1>4. w \notin WorkersAt({"gone"})
    BY DEF WorkersAt
  <1>5. WorkersAt({"gone"}) \ {w} = WorkersAt({"gone"})
    BY <1>4
  <1>6. Cardinality(WorkersAt({"gone"}) \cup {w}) = Cardinality(WorkersAt({"gone"})) + 1
    BY <1>5, CountsFinite, CountAgain
  <1>7. m_workers_waiting' = Cardinality(WorkersAt({"waiting"})') /\ m_workers_waiting' \in Nat
    BY <1>1, <1>3
  <1>8. m_workers_exited' = Cardinality(WorkersAt({"gone"})') /\ m_workers_exited' \in Nat
    BY <1>1, <1>5, <1>6, CountsFinite DEF Structure, CountersMatchThreads
  <1>9. QED
    BY <1>2, <1>7, <1>8 DEF Structure, CountersMatchThreads

LEMMA WorkerStepStructure ==
    ASSUME Structure, NEW w \in Workers, NEW q \in WorkerPC, NEW a \in Tasks \cup {NoTask},
           pc[w] \notin {"off", "gone"}, q # "off",
           pc' = [pc EXCEPT ![w] = q], arg' = [arg EXCEPT ![w] = a],
           q = "run" => a \in Tasks,
           m_clients_waiting' = m_clients_waiting,
           \/ q = "waiting" /\ m_workers_waiting' = Cardinality(WorkersAt({"waiting"}) \ {w}) + 1
           \/ q # "waiting" /\ m_workers_waiting' = Cardinality(WorkersAt({"waiting"}) \ {w}),
           \/ q = "gone" /\ m_workers_exited' = m_workers_exited + 1
           \/ q # "gone" /\ m_workers_exited' = m_workers_exited,
           ccond' \subseteq ccond,
           wcond' \subseteq wcond \cup {w}, w \in wcond' => q = "waiting",
           m_queue' \in Seq(Tasks), m_ok' \in BOOLEAN, m_openforbusiness' = m_openforbusiness,
           m_worker_threads' = m_worker_threads, fate' \in [Tasks -> Fates]
    PROVE  Structure'
  <1>1. CountersMatchThreads' /\ m_workers_waiting' \in Nat /\ m_workers_exited' \in Nat
    BY WorkerCounters
  <1>2. PcOK'
    BY WorkerMovesType DEF Structure
  <1>3. arg' \in [Threads -> Tasks \cup {NoTask}]
    BY DEF Structure, TypeOK
  <1>4. TypeOK'
    BY <1>1, <1>2, <1>3 DEF Structure, TypeOK, PcOK
  <1>5. \A c \in Clients : pc'[c] = pc[c] /\ arg'[c] = arg[c]
    BY ThreadsDistinct DEF Structure, TypeOK
  <1>6. \A v \in Workers : v # w => pc'[v] = pc[v] /\ arg'[v] = arg[v]
    BY ThreadsDistinct DEF Structure, TypeOK, Threads
  <1>7. pc'[w] = q /\ arg'[w] = a
    BY DEF Structure, TypeOK, Threads
  <1>8. SleepersInLoops'
    <2>1. ccond' \subseteq ClientsIn(Calls)'
      BY <1>5 DEF Structure, SleepersInLoops, ClientsIn
    <2>2. wcond' \subseteq WorkersAt({"waiting"})'
      BY <1>6, <1>7 DEF Structure, SleepersInLoops, WorkersAt
    <2>3. QED
      BY <2>1, <2>2 DEF SleepersInLoops
  <1>9. WorkersTogether' /\ WorkerHasTask'
    BY <1>6, <1>7 DEF Structure, WorkersTogether, WorkerHasTask
  <1>10. OwnerTerminates' /\ \A c \in Clients : pc'[c] = "put" => arg'[c] \in Tasks
    BY <1>5, ThreadsAssumption DEF Structure, OwnerTerminates
  <1>11. QED
    BY <1>1, <1>4, <1>8, <1>9, <1>10 DEF Structure

(* take(), from its call and from its wait.                                *)
LEMMA TakeStructure ==
    ASSUME Structure, NEW w \in Workers, NEW waiting,
           pc[w] \in {"call", "waiting"}, w \notin wcond,
           waiting = Cardinality(WorkersAt({"waiting"}) \ {w}),
           TakeLoop(w, waiting)
    PROVE  Structure'
  <1> USE DEF Structure, TypeOK, status
  <1>1. "exit" \in WorkerPC /\ "waiting" \in WorkerPC /\ "run" \in WorkerPC
    BY DEF WorkerPC
  <1>2. CASE TakeFails(w, waiting)
    <2>1. arg' = [arg EXCEPT ![w] = arg[w]] /\ arg[w] \in Tasks \cup {NoTask}
      BY <1>2, SameArg DEF TakeFails, Threads
    <2>2. QED
      BY <1>1, <1>2, <2>1, WorkerStepStructure DEF TakeFails
  <1>3. CASE TakeSleeps(w, waiting)
    <2>1. arg' = [arg EXCEPT ![w] = arg[w]] /\ arg[w] \in Tasks \cup {NoTask}
      BY <1>3, SameArg DEF TakeSleeps, Threads
    <2>2. QED
      BY <1>1, <1>3, <2>1, WorkerStepStructure DEF TakeSleeps
  <1>4. CASE TakePops(w, waiting)
    <2>1. m_queue # << >>
      BY <1>4, EmptySeq, LimitsAssumption DEF TakePops
    <2>2. Head(m_queue) \in Tasks /\ m_queue' \in Seq(Tasks)
      BY <1>4, <2>1, HeadTailProperties DEF TakePops
    <2>3. ccond' \subseteq ccond
      BY <1>4, NotifySubset DEF TakePops
    <2>4. QED
      BY <1>1, <1>4, <2>2, <2>3, WorkerStepStructure DEF TakePops
  <1>5. QED
    BY <1>2, <1>3, <1>4 DEF TakeLoop

LEMMA EndTaskStructure ==
    ASSUME Structure, NEW w \in Workers, NEW how \in Fates, NEW next \in {"call", "exit"},
           EndTask(w, how, next)
    PROVE  Structure'
  <1> USE DEF Structure, TypeOK, status, counters
  <1>1. next \in WorkerPC /\ pc[w] # "waiting"
    BY DEF WorkerPC, EndTask
  <1>2. m_workers_waiting' = Cardinality(WorkersAt({"waiting"}) \ {w})
    BY <1>1, StillWaiting DEF EndTask
  <1>3. fate' \in [Tasks -> Fates]
    BY DEF EndTask
  <1>4. w \notin wcond
    BY <1>1 DEF SleepersInLoops, WorkersAt
  <1>5. QED
    BY <1>1, <1>2, <1>3, <1>4, WorkerStepStructure DEF EndTask

LEMMA WorkerExitStructure ==
    ASSUME Structure, NEW w \in Workers, WorkerExit(w)
    PROVE  Structure'
  <1> USE DEF Structure, TypeOK
  <1>1. "gone" \in WorkerPC
    BY DEF WorkerPC
  <1>2. arg' = [arg EXCEPT ![w] = arg[w]] /\ arg[w] \in Tasks \cup {NoTask}
    BY SameArg DEF WorkerExit, Threads
  <1>3. m_workers_waiting' = Cardinality(WorkersAt({"waiting"}) \ {w})
    BY StillWaiting DEF WorkerExit
  <1>4. w \notin wcond
    BY DEF WorkerExit, SleepersInLoops, WorkersAt
  <1>5. QED
    BY <1>1, <1>2, <1>3, <1>4, WorkerStepStructure DEF WorkerExit

-----------------------------------------------------------------------------
(* Every step keeps the structure.                                         *)

(* A client between two calls is not asleep. *)
LEMMA IdleAwake ==
    ASSUME Structure, NEW c \in Clients, pc[c] \in {"idle", "drained", "gone"}
    PROVE  c \notin ccond /\ pc[c] \notin Calls
BY DEF Structure, SleepersInLoops, ClientsIn, Calls

LEMMA ClientStructure ==
    ASSUME Structure, NEW c \in Clients, ClientCalls(c) \/ ClientResumes(c)
    PROVE  Structure'
  <1>1. ASSUME NEW t \in Tasks, Put(c, t) PROVE Structure'
    <2>1. m_clients_waiting = Cardinality(ClientsIn(Calls) \ {c}) /\ c \notin ccond
      BY <1>1, Awaken, IdleAwake DEF Put
    <2>2. \/ PutRefused(c, t, m_clients_waiting)
          \/ PutSleeps(c, t, m_clients_waiting)
          \/ PutPushes(c, t, m_clients_waiting)
      BY <1>1 DEF Put
    <2>3. QED
      BY <1>1, <2>1, <2>2, PutStructure DEF Put
  <1>2. CASE PutResumes(c)
    <2> DEFINE awaken == m_clients_waiting - 1
    <2>1. awaken = Cardinality(ClientsIn(Calls) \ {c})
      BY <1>2, Awaken DEF PutResumes, Calls
    <2>2. arg[c] \in Tasks
      BY <1>2 DEF PutResumes, Structure
    <2>3. PutRefused(c, arg[c], awaken) \/ PutSleeps(c, arg[c], awaken) \/ PutPushes(c, arg[c], awaken)
      BY <1>2 DEF PutResumes
    <2>4. pc[c] = "put" /\ c \notin ccond
      BY <1>2 DEF PutResumes
    <2> HIDE DEF awaken
    <2>5. QED
      BY <2>1, <2>2, <2>3, <2>4, PutStructure
  <1>3. CASE WaitIdle(c)
    <2>1. pc[c] \in {"idle", "drained"} /\ c \notin ccond
      BY <1>3, IdleAwake DEF WaitIdle
    <2>2. m_clients_waiting = Cardinality(ClientsIn(Calls) \ {c})
      BY <2>1, Awaken, IdleAwake
    <2>3. WaitIdleSleeps(c, m_clients_waiting) \/ WaitIdleReturns(c, m_clients_waiting)
      BY <1>3 DEF WaitIdle
    <2>4. QED
      BY <2>1, <2>2, <2>3, WaitIdleStructure
  <1>4. CASE WaitIdleResumes(c)
    <2> DEFINE awaken == m_clients_waiting - 1
    <2>1. pc[c] = "waitIdle" /\ c \notin ccond
      BY <1>4 DEF WaitIdleResumes
    <2>2. awaken = Cardinality(ClientsIn(Calls) \ {c})
      BY <2>1, Awaken DEF Calls
    <2>3. WaitIdleSleeps(c, awaken) \/ WaitIdleReturns(c, awaken)
      BY <1>4 DEF WaitIdleResumes
    <2> HIDE DEF awaken
    <2>4. QED
      BY <2>1, <2>2, <2>3, WaitIdleStructure
  <1>5. CASE Leave(c)
    BY <1>5, LeaveStructure
  <1>6. CASE c = Main /\ TerminateResumes
    BY <1>6, Awaken, TerminateStructure, ThreadsAssumption
       DEF TerminateResumes, Calls, Structure, OwnerTerminates
  <1>7. QED
    BY <1>1, <1>2, <1>3, <1>4, <1>5, <1>6 DEF ClientCalls, ClientResumes

LEMMA WorkerStructure ==
    ASSUME Structure, NEW w \in Workers, WorkerStep(w)
    PROVE  Structure'
  <1>1. CASE Take(w)
    <2>1. pc[w] = "call" /\ TakeLoop(w, m_workers_waiting)
      BY <1>1 DEF Take
    <2>2. w \notin wcond
      BY <2>1 DEF Structure, SleepersInLoops, WorkersAt
    <2>3. m_workers_waiting = Cardinality(WorkersAt({"waiting"}) \ {w})
      BY <2>1, StillWaiting
    <2>4. QED
      BY <2>1, <2>2, <2>3, TakeStructure
  <1>2. CASE TakeResumes(w)
    <2> DEFINE waiting == m_workers_waiting - 1
    <2>1. pc[w] = "waiting" /\ w \notin wcond /\ TakeLoop(w, waiting)
      BY <1>2 DEF TakeResumes
    <2>2. waiting = Cardinality(WorkersAt({"waiting"}) \ {w})
      BY <2>1, StillWaiting
    <2> HIDE DEF waiting
    <2>3. QED
      BY <2>1, <2>2, TakeStructure
  <1>3. CASE TaskDone(w) \/ TaskFails(w)
    BY <1>3, EndTaskStructure DEF TaskDone, TaskFails, Fates
  <1>4. CASE WorkerExit(w)
    BY <1>4, WorkerExitStructure
  <1>5. QED
    BY <1>1, <1>2, <1>3, <1>4 DEF WorkerStep

LEMMA StructureStep == Structure /\ [Next]_vars => Structure'
  <1> SUFFICES ASSUME Structure, [Next]_vars PROVE Structure'
    OBVIOUS
  <1>1. CASE Start \/ CloseShop
    BY <1>1, OwnerStructure
  <1>2. CASE Terminate
    <2>1. Main \in Clients
      BY ThreadsAssumption
    <2>2. QED
      BY <1>2, <2>1, Awaken, IdleAwake, TerminateStructure DEF Terminate
  <1>3. CASE \E c \in Clients : ClientCalls(c) \/ ClientResumes(c)
    BY <1>3, ClientStructure
  <1>4. CASE \E w \in Workers : WorkerStep(w)
    BY <1>4, WorkerStructure
  <1>5. CASE \E t \in Threads : SpuriousWake(t)
    BY <1>5, SpuriousWakeStructure
  <1>6. CASE UNCHANGED vars
    BY <1>6 DEF vars, status, counters, Structure, TypeOK, SleepersInLoops, WorkersTogether,
       OwnerTerminates, WorkerHasTask, CountersMatchThreads, WorkersAt, ClientsIn
  <1>7. QED
    BY <1>1, <1>2, <1>3, <1>4, <1>5, <1>6 DEF Next

THEOREM StructureHolds == Spec => []Structure
  <1>1. Init => Structure
    BY StructureInit
  <1>2. Structure /\ [Next]_vars => Structure'
    BY StructureStep
  <1>3. QED
    BY <1>1, <1>2, PTL DEF Spec

(* Every variable keeps its type: no counter of put(), take() or waitIdle() *)
(* is ever decremented below zero.                                          *)
THEOREM TypeCorrect == Spec => []TypeOK
  <1>1. Structure => TypeOK
    BY DEF Structure
  <1>2. QED
    BY <1>1, StructureHolds, PTL

(* m_workers_waiting, m_workers_exited and m_clients_waiting are exact for *)
(* any number of threads.                                                  *)
THEOREM CountersExact == Spec => []CountersMatchThreads
  <1>1. Structure => CountersMatchThreads
    BY DEF Structure
  <1>2. QED
    BY <1>1, StructureHolds, PTL

-----------------------------------------------------------------------------
(* The wake-ups: the invariants that relate the two condition variables to *)
(* the queue.                                                              *)

(* While the queue is ok its workers are all between start() and           *)
(* workerExit(), so the ones that are not awake are the sleepers.          *)
LEMMA OkWorkers ==
    ASSUME Structure, ok
    PROVE  /\ \A w \in Workers : pc[w] \notin {"off", "gone"}
           /\ m_worker_threads = Workers /\ Cardinality(Workers) \in Nat \ {0}
           /\ AwakeWorkers = {} => Workers \subseteq wcond
  <1>1. WorkersAt({"gone"}) = {}
    BY CountsFinite, FS_EmptySet DEF Structure, CountersMatchThreads, ok
  <1>2. \A w \in Workers : pc[w] \notin {"off", "gone"}
    BY <1>1 DEF WorkersAt, Structure, WorkersTogether, ok
  <1>3. m_worker_threads = Workers
    BY DEF ok, Structure, TypeOK
  <1>4. Cardinality(Workers) \in Nat \ {0}
    BY FS_CardinalityType, FS_EmptySet, ThreadsAssumption
  <1>5. AwakeWorkers = {} => Workers \subseteq wcond
    BY <1>2 DEF AwakeWorkers, Structure, TypeOK, WorkerPC
  <1>6. QED
    BY <1>2, <1>3, <1>4, <1>5

(* A worker outside wcond, in any place that a thread of an ok queue can   *)
(* be, is awake.                                                           *)
LEMMA SomeoneAwake ==
    ASSUME Structure, ok, NEW w \in Workers, w \notin wcond
    PROVE  AwakeWorkers # {}
BY OkWorkers

(* One worker away from the wait keeps waitIdle() waiting. *)
LEMMA OneAwayIsBusy ==
    ASSUME Structure, m_worker_threads = Workers, m_workers_exited = 0,
           NEW w \in Workers, pc[w] # "waiting"
    PROVE  Busy
  <1>1. WorkersAt({"waiting"}) \subseteq Workers /\ w \notin WorkersAt({"waiting"})
    BY DEF WorkersAt
  <1>2. IsFiniteSet(Workers) /\ Cardinality(Workers) \in Nat
    BY ThreadsAssumption, FS_CardinalityType
  <1>3. /\ Cardinality(WorkersAt({"waiting"})) <= Cardinality(Workers)
        /\ Cardinality(WorkersAt({"waiting"})) = Cardinality(Workers) => WorkersAt({"waiting"}) = Workers
    BY <1>1, <1>2, FS_Subset
  <1>4. m_workers_waiting < Cardinality(Workers)
    BY <1>1, <1>2, <1>3, CountsFinite DEF Structure, CountersMatchThreads
  <1>5. m_workers_waiting + m_workers_exited < Cardinality(m_worker_threads)
    BY <1>4 DEF Structure, TypeOK
  <1>6. QED
    BY <1>5 DEF Busy

-----------------------------------------------------------------------------
(* The bound of the queue.                                                 *)

(* Only put() makes the queue longer, and only after it looked at m_high. *)
LEMMA QueueGrows ==
    ASSUME Structure, [Next]_vars
    PROVE  Len(m_queue') <= Len(m_queue) \/ (~Full /\ Len(m_queue') = Len(m_queue) + 1)
  <1> USE DEF Structure, TypeOK, status, counters
  <1> Len(m_queue) \in Nat
    BY LenProperties
  <1>1. CASE Start \/ CloseShop \/ Terminate \/ UNCHANGED vars
    BY <1>1 DEF Start, CloseShop, Terminate, TerminateSleeps, TerminateJoins, vars
  <1>2. ASSUME NEW c \in Clients, NEW t \in Tasks, NEW awaken,
               PutRefused(c, t, awaken) \/ PutSleeps(c, t, awaken) \/ PutPushes(c, t, awaken)
        PROVE  Len(m_queue') <= Len(m_queue) \/ (~Full /\ Len(m_queue') = Len(m_queue) + 1)
    BY <1>2, AppendProperties DEF PutRefused, PutSleeps, PutPushes
  <1>3. ASSUME NEW c \in Clients, ClientCalls(c) \/ ClientResumes(c)
        PROVE  Len(m_queue') <= Len(m_queue) \/ (~Full /\ Len(m_queue') = Len(m_queue) + 1)
    <2>1. CASE \E t \in Tasks : Put(c, t)
      BY <1>2, <2>1 DEF Put
    <2>2. CASE PutResumes(c)
      <3>1. arg[c] \in Tasks
        BY <2>2 DEF PutResumes
      <3>2. QED
        BY <1>2, <2>2, <3>1 DEF PutResumes
    <2>3. CASE WaitIdle(c) \/ WaitIdleResumes(c) \/ Leave(c) \/ TerminateResumes
      BY <2>3 DEF WaitIdle, WaitIdleResumes, WaitIdleSleeps, WaitIdleReturns, Leave,
                  TerminateResumes, TerminateSleeps, TerminateJoins
    <2>4. QED
      BY <1>3, <2>1, <2>2, <2>3 DEF ClientCalls, ClientResumes
  <1>4. ASSUME NEW w \in Workers, WorkerStep(w)
        PROVE  Len(m_queue') <= Len(m_queue)
    <2>1. ASSUME NEW waiting, TakeLoop(w, waiting) PROVE Len(m_queue') <= Len(m_queue)
      <3>1. CASE TakePops(w, waiting)
        <4>1. m_queue # << >>
          BY <3>1, EmptySeq, LimitsAssumption DEF TakePops
        <4>2. QED
          BY <3>1, <4>1, HeadTailProperties DEF TakePops
      <3>2. QED
        BY <2>1, <3>1 DEF TakeLoop, TakeFails, TakeSleeps
    <2>2. QED
      BY <1>4, <2>1 DEF WorkerStep, Take, TakeResumes, TaskDone, TaskFails, EndTask, WorkerExit
  <1>5. ASSUME NEW t \in Threads, SpuriousWake(t) PROVE Len(m_queue') <= Len(m_queue)
    BY <1>5 DEF SpuriousWake
  <1>6. QED
    BY <1>1, <1>3, <1>4, <1>5 DEF Next

(* m_high holds however many clients are woken for one free place: each    *)
(* looks again under the mutex.                                            *)
THEOREM BoundHolds == Spec => []QueueBounded
  <1>1. Init => QueueBounded
    BY LimitsAssumption DEF Init, QueueBounded
  <1>2. Structure /\ QueueBounded /\ [Next]_vars => QueueBounded'
    <2> SUFFICES ASSUME Structure, QueueBounded, [Next]_vars, High > 0
                 PROVE  Len(m_queue') <= High
      BY DEF QueueBounded
    <2>1. Len(m_queue) \in Nat /\ Len(m_queue) <= High
      BY LenProperties DEF Structure, TypeOK, QueueBounded
    <2>2. QED
      BY <2>1, QueueGrows, StructureStep, LenProperties, LimitsAssumption
         DEF Full, Structure, TypeOK
  <1>3. QED
    BY <1>1, <1>2, StructureHolds, PTL DEF Spec

-----------------------------------------------------------------------------
(* No task is left behind by sleeping workers.                             *)

LEMMA AllAsleep == Structure /\ ok /\ AwakeWorkers = {} => Workers \subseteq wcond
BY OkWorkers

(* What the invariant says when every worker sleeps, and why put() then    *)
(* finds somebody to notify.                                               *)
LEMMA SleepersKnown ==
    ASSUME Structure, NoStrandedTask, ok, Workers \subseteq wcond
    PROVE  Len(m_queue) < Low /\ m_workers_waiting > 0 /\ wcond # {}
  <1>1. WorkersAt({"waiting"}) = Workers
    BY DEF Structure, SleepersInLoops, WorkersAt
  <1>2. AwakeWorkers = {}
    BY <1>1 DEF AwakeWorkers, WorkersAt
  <1>3. Len(m_queue) < Low
    BY <1>2, LenProperties, LimitsAssumption DEF NoStrandedTask, Structure, TypeOK
  <1>4. m_workers_waiting > 0
    BY <1>1, OkWorkers DEF Structure, CountersMatchThreads
  <1>5. QED
    BY <1>3, <1>4, ThreadsAssumption

LEMMA NotifyWakes == ASSUME NEW S, NEW T \in NotifyOne(S), S # {} PROVE ~(S \subseteq T)
BY DEF NotifyOne

LEMMA StrandedStep == Structure /\ NoStrandedTask /\ [Next]_vars => NoStrandedTask'
  <1>1. (Structure /\ ok /\ AwakeWorkers = {} => Workers \subseteq wcond)'
    BY AllAsleep, PTL
  <1>2. ASSUME Structure, [Next]_vars PROVE Structure' /\ Len(m_queue') \in Nat
    <2>1. Structure'
      BY <1>2, StructureStep
    <2>2. QED
      BY <2>1, LenProperties DEF Structure, TypeOK
  <1> SUFFICES ASSUME Structure, NoStrandedTask, [Next]_vars, ok', Workers \subseteq wcond'
               PROVE  Len(m_queue') < Low
    BY <1>1, <1>2, LimitsAssumption DEF NoStrandedTask
  <1> USE DEF status, counters
  <1>11. Len(m_queue) \in Nat /\ wcond \subseteq Workers /\ m_workers_exited \in Nat
    BY LenProperties DEF Structure, TypeOK
  <1>3. ASSUME UNCHANGED <<m_ok, m_worker_threads, m_queue>>, m_workers_exited' = m_workers_exited,
               wcond' \subseteq wcond
        PROVE  Len(m_queue') < Low
    BY <1>3, SleepersKnown DEF ok
  <1>4. ~Start
    <2>1. SUFFICES ASSUME Start PROVE FALSE
      OBVIOUS
    <2>2. WorkersAt({"waiting"}) = {}
      BY <2>1 DEF Start, Structure, WorkersTogether, WorkersAt
    <2>3. QED
      BY <2>1, <2>2, ThreadsAssumption DEF Start, Structure, SleepersInLoops
  <1>5. ~TerminateJoins /\ \A n : ~TerminateSleeps(n)
    BY DEF TerminateJoins, TerminateSleeps, ok
  <1>6. ASSUME NEW c \in Clients, NEW t \in Tasks, NEW n,
               PutRefused(c, t, n) \/ PutSleeps(c, t, n) \/ PutPushes(c, t, n)
        PROVE  Len(m_queue') < Low
    <2>1. CASE PutRefused(c, t, n) \/ PutSleeps(c, t, n)
      BY <1>3, <2>1 DEF PutRefused, PutSleeps
    <2>2. CASE PutPushes(c, t, n)
      <3>1. wcond' \subseteq wcond /\ ok
        BY <2>2, NotifySubset DEF PutPushes, ok
      <3>2. wcond' \in NotifyOne(wcond) /\ wcond # {} /\ Workers \subseteq wcond
        BY <2>2, <3>1, SleepersKnown DEF PutPushes
      <3>3. QED
        BY <1>11, <3>2, NotifyWakes
    <2>3. QED
      BY <1>6, <2>1, <2>2
  <1>7. ASSUME NEW c \in Clients, ClientCalls(c) \/ ClientResumes(c)
        PROVE  Len(m_queue') < Low
    <2>1. CASE \E t \in Tasks : Put(c, t)
      BY <1>6, <2>1 DEF Put
    <2>2. CASE PutResumes(c)
      <3>1. arg[c] \in Tasks
        BY <2>2 DEF PutResumes, Structure
      <3>2. QED
        BY <1>6, <2>2, <3>1 DEF PutResumes
    <2>3. CASE WaitIdle(c) \/ WaitIdleResumes(c) \/ Leave(c)
      BY <1>3, <2>3 DEF WaitIdle, WaitIdleResumes, WaitIdleSleeps, WaitIdleReturns, Leave
    <2>4. QED
      BY <1>5, <1>7, <2>1, <2>2, <2>3 DEF ClientCalls, ClientResumes, TerminateResumes
  <1>8. ASSUME NEW w \in Workers, WorkerStep(w)
        PROVE  Len(m_queue') < Low
    <2>1. ASSUME NEW n, TakeLoop(w, n), w \notin wcond PROVE Len(m_queue') < Low
      <3>1. CASE TakeFails(w, n)
        BY <1>3, <3>1 DEF TakeFails
      <3>2. CASE TakeSleeps(w, n)
        BY <3>2 DEF TakeSleeps
      <3>3. CASE TakePops(w, n)
        BY <2>1, <3>3 DEF TakePops
      <3>4. QED
        BY <2>1, <3>1, <3>2, <3>3 DEF TakeLoop
    <2>2. CASE Take(w)
      BY <2>1, <2>2 DEF Take, Structure, SleepersInLoops, WorkersAt
    <2>3. CASE TakeResumes(w)
      BY <2>1, <2>3 DEF TakeResumes
    <2>4. CASE TaskDone(w) \/ TaskFails(w)
      BY <1>3, <2>4 DEF TaskDone, TaskFails, EndTask
    <2>5. ~WorkerExit(w)
      BY <1>11 DEF WorkerExit, ok
    <2>6. QED
      BY <1>8, <2>2, <2>3, <2>4, <2>5 DEF WorkerStep
  <1>9. CASE CloseShop \/ (\E t \in Threads : SpuriousWake(t)) \/ UNCHANGED vars
    BY <1>3, <1>9 DEF CloseShop, SpuriousWake, vars
  <1>10. QED
    BY <1>4, <1>5, <1>7, <1>8, <1>9 DEF Next, Terminate

(* put() skips the notification when m_workers_waiting is 0 and wakes one  *)
(* worker otherwise: tasks never wait on a queue whose workers all sleep.  *)
THEOREM NothingStranded == Spec => []NoStrandedTask
  <1>1. Init => NoStrandedTask
    BY DEF Init, NoStrandedTask, ok
  <1>2. Structure /\ NoStrandedTask /\ [Next]_vars => NoStrandedTask'
    BY StrandedStep
  <1>3. QED
    BY <1>1, <1>2, StructureHolds, PTL DEF Spec

-----------------------------------------------------------------------------
(* No client sleeps in waitIdle() without a reason.                        *)

LEMMA AwayIsBusy ==
    /\ Structure /\ m_worker_threads = Workers /\ m_workers_exited = 0
    /\ \E w \in Workers : pc[w] # "waiting"
    => Busy
BY OneAwayIsBusy

LEMMA BusyStays ==
    ASSUME Structure, Busy, Len(m_queue') >= Len(m_queue), Len(m_queue') \in Nat,
           m_worker_threads' = m_worker_threads, m_workers_exited' = m_workers_exited,
           m_workers_waiting' \in Nat, m_workers_waiting' <= m_workers_waiting
    PROVE  Busy'
  <1>1. /\ Len(m_queue) \in Nat /\ m_workers_waiting \in Nat /\ m_workers_exited \in Nat
        /\ Cardinality(m_worker_threads) \in Nat
    BY LenProperties, ThreadsAssumption, FS_CardinalityType, FS_EmptySet DEF Structure, TypeOK
  <1>2. QED
    BY <1>1 DEF Busy

(* The places of the other clients, in a step of one thread. *)
LEMMA OthersStay ==
    ASSUME TypeOK, NEW t \in Threads, NEW q, pc' = [pc EXCEPT ![t] = q]
    PROVE  pc'[t] = q /\ \A u \in Threads : u # t => pc'[u] = pc[u]
BY DEF TypeOK

LEMMA WaiterStep == Structure /\ NoForgottenWaiter /\ [Next]_vars => NoForgottenWaiter'
  <1>1. (/\ Structure /\ m_worker_threads = Workers /\ m_workers_exited = 0
         /\ \E w \in Workers : pc[w] # "waiting"
         => Busy)'
    BY AwayIsBusy, PTL
  <1> SUFFICES ASSUME Structure, NoForgottenWaiter, [Next]_vars,
                      NEW c \in ccond', pc'[c] = "waitIdle"
               PROVE  Busy'
    BY DEF NoForgottenWaiter
  <1> USE DEF status, counters
  <1>2. Structure'
    BY StructureStep
  <1>3. /\ Len(m_queue) \in Nat /\ Len(m_queue') \in Nat /\ m_workers_waiting' \in Nat
        /\ c \in Clients /\ ccond \subseteq Clients /\ Clients \subseteq Threads /\ Workers \subseteq Threads
    BY <1>2, LenProperties DEF Structure, TypeOK, Threads
  <1>4. ASSUME c \in ccond, pc[c] = "waitIdle", Len(m_queue') >= Len(m_queue),
               m_worker_threads' = m_worker_threads, m_workers_exited' = m_workers_exited,
               m_workers_waiting' <= m_workers_waiting
        PROVE  Busy'
    BY <1>3, <1>4, BusyStays DEF NoForgottenWaiter
  <1>5. m_workers_waiting <= m_workers_waiting /\ m_workers_waiting - 1 <= m_workers_waiting
    BY DEF Structure, TypeOK
  <1>6. CASE Start
    <2>1. m_worker_threads = {} /\ c \in ccond /\ pc[c] = "waitIdle"
      BY <1>3, <1>6, ThreadsDistinct DEF Start, Threads
    <2>2. Busy /\ Cardinality(m_worker_threads) = 0 /\ m_workers_waiting \in Nat /\ m_workers_exited \in Nat
      BY <2>1, FS_EmptySet DEF NoForgottenWaiter, Structure, TypeOK
    <2>3. QED
      BY <2>2 DEF Busy
  <1>7. CASE CloseShop \/ (\E t \in Threads : SpuriousWake(t)) \/ UNCHANGED vars
    BY <1>3, <1>4, <1>5, <1>7 DEF CloseShop, SpuriousWake, vars
  <1>8. ASSUME NEW n, TerminateSleeps(n) PROVE Busy'
    <2>1. pc' = [pc EXCEPT ![Main] = "terminate"] /\ Main \in Threads
      BY <1>3, <1>8, ThreadsAssumption DEF TerminateSleeps
    <2>2. pc'[Main] = "terminate" /\ (c # Main => pc'[c] = pc[c])
      BY <1>3, <2>1, OthersStay DEF Structure
    <2>3. QED
      BY <1>3, <1>4, <1>5, <1>8, <2>2 DEF TerminateSleeps
  <1>9. CASE TerminateJoins /\ \A d \in Clients \ {Main} : pc[d] = "gone"
    BY <1>3, <1>9, ThreadsDistinct DEF TerminateJoins, Threads
  <1>10. ASSUME NEW d \in Clients, NEW t \in Tasks, NEW n,
                PutRefused(d, t, n) \/ PutSleeps(d, t, n) \/ PutPushes(d, t, n)
         PROVE  Busy'
    <2>1. pc' = [pc EXCEPT ![d] = "idle"] \/ pc' = [pc EXCEPT ![d] = "put"]
      BY <1>10 DEF PutRefused, PutSleeps, PutPushes
    <2>2. pc'[d] \in {"idle", "put"} /\ (c # d => pc'[c] = pc[c])
      BY <1>3, <2>1 DEF Structure, TypeOK
    <2>3. c # d /\ pc[c] = "waitIdle"
      BY <2>2
    <2>4. c \in ccond /\ Len(m_queue') >= Len(m_queue)
      BY <1>3, <1>10, <2>3, AppendProperties
         DEF PutRefused, PutSleeps, PutPushes, Structure, TypeOK
    <2>5. QED
      BY <1>4, <1>5, <1>10, <2>3, <2>4 DEF PutRefused, PutSleeps, PutPushes
  <1>11. ASSUME NEW d \in Clients, NEW n, WaitIdleSleeps(d, n) \/ WaitIdleReturns(d, n)
         PROVE  Busy'
    <2>1. CASE c = d
      <3>1. WaitIdleReturns(d, n) => pc'[d] = "drained"
        BY <1>3 DEF WaitIdleReturns, Structure, TypeOK
      <3>2. QED
        BY <1>11, <2>1, <3>1 DEF WaitIdleSleeps, Busy
    <2>2. CASE c # d
      <3>1. pc[c] = "waitIdle" /\ c \in ccond
        BY <1>3, <1>11, <2>2, OthersStay DEF WaitIdleSleeps, WaitIdleReturns, Structure
      <3>2. QED
        BY <1>3, <1>4, <1>5, <1>11, <3>1 DEF WaitIdleSleeps, WaitIdleReturns
    <2>3. QED
      BY <2>1, <2>2
  <1>12. ASSUME NEW d \in Clients, Leave(d) PROVE Busy'
    <2>1. pc[c] = "waitIdle"
      BY <1>3, <1>12, OthersStay DEF Leave, Structure
    <2>2. QED
      BY <1>3, <1>4, <1>5, <1>12, <2>1 DEF Leave
  <1>13. ASSUME NEW d \in Clients, ClientCalls(d) \/ ClientResumes(d) PROVE Busy'
    <2>1. CASE \E t \in Tasks : Put(d, t)
      BY <1>10, <2>1 DEF Put
    <2>2. CASE PutResumes(d)
      <3>1. arg[d] \in Tasks
        BY <2>2 DEF PutResumes, Structure
      <3>2. QED
        BY <1>10, <2>2, <3>1 DEF PutResumes
    <2>3. CASE WaitIdle(d) \/ WaitIdleResumes(d)
      BY <1>11, <2>3 DEF WaitIdle, WaitIdleResumes
    <2>4. CASE TerminateResumes
      BY <1>8, <1>9, <2>4 DEF TerminateResumes, Structure, OwnerTerminates
    <2>5. QED
      BY <1>12, <1>13, <2>1, <2>2, <2>3, <2>4 DEF ClientCalls, ClientResumes
  <1>14. ASSUME NEW w \in Workers, WorkerStep(w) PROVE Busy'
    <2>1. ASSUME pc[w] # "gone", NEW q, pc' = [pc EXCEPT ![w] = q] PROVE pc[c] = "waitIdle"
      BY <1>3, <2>1, OthersStay, ThreadsDistinct DEF Structure
    <2>2. ASSUME NEW n, TakeLoop(w, n), pc[w] # "gone", n <= m_workers_waiting PROVE Busy'
      <3>1. CASE TakeFails(w, n)
        BY <1>3, <1>4, <2>1, <2>2, <3>1 DEF TakeFails
      <3>2. CASE TakeSleeps(w, n)
        <4>1. m_queue # << >> /\ ok
          BY <3>2 DEF TakeSleeps
        <4>2. Len(m_queue) > 0 /\ m_workers_exited = 0 /\ Cardinality(m_worker_threads) > 0
          BY <4>1, <1>3, OkWorkers, EmptySeq DEF ok, Structure, TypeOK
        <4>3. QED
          BY <3>2, <4>2 DEF TakeSleeps, Busy
      <3>3. CASE TakePops(w, n)
        <4>1. m_worker_threads' = Workers /\ m_workers_exited' = 0
          BY <3>3, OkWorkers DEF TakePops, ok
        <4>2. pc'[w] # "waiting"
          BY <1>3, <3>3 DEF TakePops, Structure, TypeOK
        <4>3. QED
          BY <1>1, <1>2, <4>1, <4>2
      <3>4. QED
        BY <2>2, <3>1, <3>2, <3>3 DEF TakeLoop
    <2>3. CASE Take(w) \/ TakeResumes(w)
      BY <1>5, <2>2, <2>3 DEF Take, TakeResumes
    <2>4. CASE TaskDone(w) \/ TaskFails(w)
      BY <1>3, <1>4, <1>5, <2>1, <2>4 DEF TaskDone, TaskFails, EndTask
    <2>5. ~WorkerExit(w)
      BY DEF WorkerExit
    <2>6. QED
      BY <1>14, <2>3, <2>4, <2>5 DEF WorkerStep
  <1>15. CASE Terminate
    BY <1>8, <1>9, <1>15 DEF Terminate
  <1>16. QED
    BY <1>6, <1>7, <1>13, <1>14, <1>15 DEF Next

(* take() tells the clients when it is about to sleep on an empty queue and *)
(* workerExit() tells them always: a client asleep in waitIdle() still has  *)
(* a task or a running worker to wait for.                                  *)
THEOREM NobodyForgotten == Spec => []NoForgottenWaiter
  <1>1. Init => NoForgottenWaiter
    BY DEF Init, NoForgottenWaiter
  <1>2. Structure /\ NoForgottenWaiter /\ [Next]_vars => NoForgottenWaiter'
    BY WaiterStep
  <1>3. QED
    BY <1>1, <1>2, StructureHolds, PTL DEF Spec

-----------------------------------------------------------------------------
(* A client asleep in put() that could go on has a worker awake.           *)

(* A step that lets the putter c and the awake workers where they are. *)
LEMMA PutterStays ==
    ASSUME NoStuckPutter, NEW c \in ccond, pc[c] = "put",
           ~Full \/ ~ok, wcond' \subseteq wcond, \A w \in Workers : pc'[w] = pc[w]
    PROVE  AwakeWorkers' # {}
BY DEF NoStuckPutter, AwakeWorkers

LEMMA PutterStep == Low = 1 /\ Structure /\ NoStuckPutter /\ [Next]_vars => NoStuckPutter'
  <1> SUFFICES ASSUME Low = 1, Structure, NoStuckPutter, [Next]_vars,
                      NEW c \in ccond', pc'[c] = "put", ~Full' \/ ~ok'
               PROVE  AwakeWorkers' # {}
    BY DEF NoStuckPutter
  <1> USE DEF status, counters
  <1>1. /\ Len(m_queue) \in Nat /\ High \in Nat
        /\ c \in Clients /\ ccond \subseteq Clients /\ Clients \subseteq Threads /\ Workers \subseteq Threads
    BY StructureStep, LenProperties, LimitsAssumption DEF Structure, TypeOK, Threads
  <1>2. ASSUME c \in ccond, pc[c] = "put", ~Full' \/ ~ok' => ~Full \/ ~ok, wcond' \subseteq wcond,
               \A w \in Workers : pc'[w] = pc[w]
        PROVE  AwakeWorkers' # {}
    BY <1>2, PutterStays
  <1>3. CASE Start
    <2>1. \A w \in Workers : pc'[w] = "call"
      BY <1>1, <1>3 DEF Start
    <2>2. QED
      BY <2>1, ThreadsAssumption DEF AwakeWorkers
  <1>4. CASE CloseShop \/ (\E t \in Threads : SpuriousWake(t)) \/ UNCHANGED vars
    BY <1>2, <1>4 DEF CloseShop, SpuriousWake, vars, Full, ok
  <1>5. ASSUME \A d \in Clients \ {Main} : pc[d] = "gone", NEW n, TerminateSleeps(n) \/ TerminateJoins
        PROVE  FALSE
    <2>1. CASE TerminateSleeps(n)
      BY <1>1, <1>5, <2>1, ThreadsAssumption DEF TerminateSleeps, Structure, TypeOK
    <2>2. CASE TerminateJoins
      BY <1>1, <1>5, <2>2, ThreadsDistinct DEF TerminateJoins
    <2>3. QED
      BY <1>5, <2>1, <2>2
  <1>6. ASSUME NEW d \in Clients, NEW q, pc' = [pc EXCEPT ![d] = q]
        PROVE  pc'[d] = q /\ (c # d => pc[c] = "put") /\ \A w \in Workers : pc'[w] = pc[w]
    BY <1>1, <1>6, ThreadsDistinct DEF Structure, TypeOK
  <1>7. ASSUME NEW d \in Clients, NEW t \in Tasks, NEW n,
               PutRefused(d, t, n) \/ PutPushes(d, t, n) \/ (ok /\ PutSleeps(d, t, n))
        PROVE  AwakeWorkers' # {}
    <2>1. CASE PutRefused(d, t, n)
      BY <1>2, <1>6, <2>1 DEF PutRefused, Full, ok
    <2>2. CASE PutPushes(d, t, n)
      <3>1. wcond' \subseteq wcond
        BY <2>2, NotifySubset DEF PutPushes
      <3>2. ~Full /\ ok' = ok
        BY <2>2 DEF PutPushes, ok
      <3>3. pc' = [pc EXCEPT ![d] = "idle"] /\ ccond' = ccond
        BY <2>2 DEF PutPushes
      <3>4. QED
        BY <1>2, <1>6, <3>1, <3>2, <3>3
    <2>3. CASE ok /\ PutSleeps(d, t, n)
      BY <1>2, <1>6, <2>3 DEF PutSleeps, Full, ok
    <2>4. QED
      BY <1>7, <2>1, <2>2, <2>3
  <1>8. ASSUME NEW d \in Clients, ClientCalls(d) \/ ClientResumes(d)
        PROVE  AwakeWorkers' # {}
    <2>1. CASE \E t \in Tasks : Put(d, t)
      BY <1>7, <2>1 DEF Put
    <2>2. CASE PutResumes(d)
      <3>1. arg[d] \in Tasks
        BY <2>2 DEF PutResumes, Structure
      <3>2. QED
        BY <1>7, <2>2, <3>1 DEF PutResumes
    <2>3. ASSUME NEW n, WaitIdleSleeps(d, n) \/ WaitIdleReturns(d, n) PROVE AwakeWorkers' # {}
      <3>1. CASE WaitIdleSleeps(d, n)
        <4>1. pc'[d] = "waitIdle" /\ (c # d => pc[c] = "put") /\ \A w \in Workers : pc'[w] = pc[w]
          BY <1>6, <3>1 DEF WaitIdleSleeps
        <4>2. c # d /\ c \in ccond
          BY <3>1, <4>1 DEF WaitIdleSleeps
        <4>3. QED
          BY <1>2, <3>1, <4>1, <4>2 DEF WaitIdleSleeps, Full, ok
      <3>2. CASE WaitIdleReturns(d, n)
        BY <1>2, <1>6, <3>2 DEF WaitIdleReturns, Full, ok
      <3>3. QED
        BY <2>3, <3>1, <3>2
    <2>4. CASE Leave(d)
      BY <1>2, <1>6, <2>4 DEF Leave, Full, ok
    <2>5. ~TerminateResumes
      BY <1>5 DEF TerminateResumes, Structure, OwnerTerminates
    <2>6. QED
      BY <1>8, <2>1, <2>2, <2>3, <2>4, <2>5 DEF ClientCalls, ClientResumes, WaitIdle, WaitIdleResumes
  <1>9. ASSUME NEW w \in Workers, WorkerStep(w)
        PROVE  AwakeWorkers' # {}
    <2>1. ASSUME NEW q \in {"run", "call", "exit"}, pc' = [pc EXCEPT ![w] = q]
          PROVE  AwakeWorkers' # {}
      BY <1>1, <2>1 DEF AwakeWorkers, Structure, TypeOK
    <2>2. ASSUME NEW n PROVE ~TakeSleeps(w, n)
      BY EmptySeq, <1>1 DEF TakeSleeps, Structure, TypeOK
    <2>3. ASSUME NEW n, TakeLoop(w, n) PROVE AwakeWorkers' # {}
      BY <2>1, <2>2, <2>3 DEF TakeLoop, TakeFails, TakePops
    <2>4. ~WorkerExit(w)
      BY DEF WorkerExit
    <2>5. QED
      BY <1>9, <2>1, <2>3, <2>4 DEF WorkerStep, Take, TakeResumes, TaskDone, TaskFails, EndTask
  <1>10. QED
    BY <1>3, <1>4, <1>5, <1>8, <1>9 DEF Next, Terminate

(* take() notifies one client only, and it may be one that sleeps in       *)
(* waitIdle().  With the low limit of 1 that every queue of the program    *)
(* has, a worker is then awake whose next take() will notify again, or     *)
(* whose sleep will wake everybody.                                        *)
THEOREM NoPutterStuck == Spec /\ Low = 1 => []NoStuckPutter
  <1>1. Init => NoStuckPutter
    BY DEF Init, NoStuckPutter
  <1>2. Low = 1 /\ Structure /\ NoStuckPutter /\ [Next]_vars => NoStuckPutter'
    BY PutterStep
  <1>3. CASE Low = 1
    <2>1. Structure /\ NoStuckPutter /\ [Next]_vars => NoStuckPutter'
      BY <1>2, <1>3
    <2>2. QED
      BY <1>1, <2>1, StructureHolds, PTL DEF Spec
  <1>4. CASE ~(Low = 1)
    BY <1>4
  <1>5. QED
    BY <1>3, <1>4

-----------------------------------------------------------------------------
(* One place for each task: the inductive invariant.                       *)

Running == {w \in Workers : pc[w] = "run"}
Putting == {c \in Clients : pc[c] = "put"}

(* No task is twice in the queue, in two hands, or in both. *)
NoTaskTwice ==
    /\ \A i, j \in DOMAIN m_queue : m_queue[i] = m_queue[j] => i = j
    /\ \A v, w \in Running : arg[v] = arg[w] => v = w
    /\ \A i \in DOMAIN m_queue, w \in Running : m_queue[i] # arg[w]

(* The tasks given and not run are those in the queue and in the workers' hands. *)
GivenAreHere ==
    /\ \A i \in DOMAIN m_queue : fate[m_queue[i]] = "given"
    /\ \A w \in Running : fate[arg[w]] = "given"
    /\ \A t \in Tasks : fate[t] = "given" =>
           (\E i \in DOMAIN m_queue : m_queue[i] = t) \/ (\E w \in Running : arg[w] = t)

(* What put() will push after its wait is not there already. *)
PuttersBringNew ==
    /\ \A c \in Putting : fate[arg[c]] = "new"
    /\ \A c, d \in Putting : arg[c] = arg[d] => c = d

OnePlace == NoTaskTwice /\ GivenAreHere /\ PuttersBringNew

-----------------------------------------------------------------------------
(* Positions in a queue that grows at its end and shrinks at its head.     *)

LEMMA AppendPlaces ==
    ASSUME NEW S, NEW q \in Seq(S), NEW t \in S
    PROVE  /\ DOMAIN Append(q, t) = DOMAIN q \cup {Len(q) + 1}
           /\ Len(q) + 1 \notin DOMAIN q
           /\ \A i \in DOMAIN q : Append(q, t)[i] = q[i]
           /\ Append(q, t)[Len(q) + 1] = t
  <1>1. Len(q) \in Nat /\ DOMAIN q = 1 .. Len(q)
    BY LenProperties
  <1>2. /\ Append(q, t) \in Seq(S) /\ Len(Append(q, t)) = Len(q) + 1
        /\ \A i \in 1 .. Len(q) : Append(q, t)[i] = q[i]
        /\ Append(q, t)[Len(q) + 1] = t
    BY AppendProperties
  <1>3. DOMAIN Append(q, t) = 1 .. Len(q) + 1
    BY <1>2, LenProperties
  <1>4. QED
    BY <1>1, <1>2, <1>3

LEMMA TailPlaces ==
    ASSUME NEW S, NEW q \in Seq(S), q # << >>
    PROVE  /\ 1 \in DOMAIN q /\ q[1] = Head(q) /\ Head(q) \in S
           /\ \A i \in DOMAIN Tail(q) : i + 1 \in DOMAIN q \ {1} /\ Tail(q)[i] = q[i + 1]
           /\ \A i \in DOMAIN q \ {1} : i - 1 \in DOMAIN Tail(q) /\ Tail(q)[i - 1] = q[i]
           /\ \A i, j \in DOMAIN Tail(q) : i + 1 = j + 1 => i = j
  <1>1. Len(q) \in Nat /\ DOMAIN q = 1 .. Len(q) /\ Len(q) # 0
    BY LenProperties, EmptySeq
  <1>2. /\ Tail(q) \in Seq(S) /\ Len(Tail(q)) = Len(q) - 1 /\ Head(q) \in S
        /\ \A i \in 1 .. Len(Tail(q)) : Tail(q)[i] = q[i + 1]
    BY HeadTailProperties
  <1>3. DOMAIN Tail(q) = 1 .. Len(q) - 1
    BY <1>1, <1>2, LenProperties
  <1>4. q[1] = Head(q)
    BY <1>1
  <1>5. \A i \in DOMAIN q \ {1} : i - 1 \in 1 .. Len(q) - 1 /\ (i - 1) + 1 = i
    BY <1>1
  <1>6. QED
    BY <1>1, <1>2, <1>3, <1>4, <1>5

-----------------------------------------------------------------------------
(* The steps.                                                              *)

(* Steps that move no task. *)
LEMMA TasksStay ==
    ASSUME OnePlace, UNCHANGED <<m_queue, fate>>,
           Running' = Running, \A w \in Running : arg'[w] = arg[w],
           Putting' \subseteq Putting, \A c \in Putting' : arg'[c] = arg[c]
    PROVE  OnePlace'
BY DEF OnePlace, NoTaskTwice, GivenAreHere, PuttersBringNew

LEMMA ClientPlaces ==
    ASSUME TypeOK, NEW c \in Clients, NEW q, pc' = [pc EXCEPT ![c] = q]
    PROVE  /\ Running' = Running
           /\ q # "put" => Putting' = Putting \ {c}
           /\ q = "put" => Putting' = Putting \cup {c}
BY ThreadsDistinct DEF TypeOK, Running, Putting, Threads

LEMMA WorkerPlaces ==
    ASSUME TypeOK, NEW w \in Workers, NEW q, pc' = [pc EXCEPT ![w] = q]
    PROVE  /\ Putting' = Putting
           /\ q # "run" => Running' = Running \ {w}
           /\ q = "run" => Running' = Running \cup {w}
BY ThreadsDistinct DEF TypeOK, Running, Putting, Threads

LEMMA ClientArg ==
    ASSUME TypeOK, NEW c \in Clients, NEW t, arg' = [arg EXCEPT ![c] = t]
    PROVE  /\ arg'[c] = t
           /\ \A d \in Clients \ {c} : arg'[d] = arg[d]
           /\ \A w \in Workers : arg'[w] = arg[w]
BY ThreadsDistinct DEF TypeOK, Threads

LEMMA WorkerArg ==
    ASSUME TypeOK, NEW w \in Workers, NEW t, arg' = [arg EXCEPT ![w] = t]
    PROVE  /\ arg'[w] = t
           /\ \A v \in Workers \ {w} : arg'[v] = arg[v]
           /\ \A c \in Clients : arg'[c] = arg[c]
BY ThreadsDistinct DEF TypeOK, Threads

LEMMA BackFromPut ==
    ASSUME TypeOK, NEW c \in Clients, pc' = [pc EXCEPT ![c] = "idle"]
    PROVE  Putting' = Putting \ {c}
  <1>1. "idle" # "put"
    OBVIOUS
  <1>2. QED
    BY <1>1, ClientPlaces, Zenon

(* A task that put() handles: it is new and no other client has it. *)
LEMMA PutPlaces ==
    ASSUME Structure, OnePlace, NEW c \in Clients, NEW t \in Tasks, NEW n,
           fate[t] = "new", \A d \in Putting \ {c} : arg[d] # t,
           PutRefused(c, t, n) \/ PutSleeps(c, t, n) \/ PutPushes(c, t, n)
    PROVE  OnePlace'
  <1>0. TypeOK
    BY DEF Structure
  <1>1. /\ Running' = Running /\ (\A w \in Running : arg'[w] = arg[w])
        /\ Running \subseteq Workers /\ Putting \subseteq Clients
    BY <1>0, ClientPlaces, ClientArg DEF PutRefused, PutSleeps, PutPushes, Running, Putting
  <1>2. \A d \in Putting \ {c} : arg'[d] = arg[d]
    BY <1>0, <1>1, ClientArg DEF PutRefused, PutSleeps, PutPushes
  <1>3. fate \in [Tasks -> Fates] /\ m_queue \in Seq(Tasks)
    BY <1>0 DEF TypeOK
  <1>4. /\ \A i \in DOMAIN m_queue : m_queue[i] # t
        /\ \A w \in Running : arg[w] # t
    BY DEF OnePlace, GivenAreHere
  <1>5. CASE PutRefused(c, t, n)
    <2>1. /\ Putting' = Putting \ {c} /\ m_queue' = m_queue
          /\ fate' = [fate EXCEPT ![t] = "refused"]
      BY <1>0, <1>5, BackFromPut DEF PutRefused
    <2>2. \A u \in Tasks : u # t => fate'[u] = fate[u]
      BY <1>3, <2>1
    <2>3. fate'[t] = "refused"
      BY <1>3, <2>1
    <2>4. NoTaskTwice'
      BY <1>1, <2>1 DEF OnePlace, NoTaskTwice
    <2>5. GivenAreHere'
      BY <1>1, <1>4, <2>1, <2>3, <1>3 DEF OnePlace, GivenAreHere
    <2>6. PuttersBringNew'
      BY <1>2, <1>3, <2>1 DEF OnePlace, PuttersBringNew
    <2>7. QED
      BY <2>4, <2>5, <2>6 DEF OnePlace
  <1>6. CASE PutSleeps(c, t, n)
    <2>1. /\ Putting' = Putting \cup {c} /\ m_queue' = m_queue /\ fate' = fate /\ arg'[c] = t
      BY <1>0, <1>6, ClientPlaces, ClientArg DEF PutSleeps
    <2>2. NoTaskTwice' /\ GivenAreHere'
      BY <1>1, <2>1 DEF OnePlace, NoTaskTwice, GivenAreHere
    <2>3. PuttersBringNew'
      BY <1>2, <2>1 DEF OnePlace, PuttersBringNew
    <2>4. QED
      BY <2>2, <2>3 DEF OnePlace
  <1>7. CASE PutPushes(c, t, n)
    <2>1. /\ Putting' = Putting \ {c} /\ m_queue' = Append(m_queue, t)
          /\ fate' = [fate EXCEPT ![t] = "given"]
      BY <1>0, <1>7, BackFromPut DEF PutPushes
    <2> DEFINE last == Len(m_queue) + 1
    <2>2. /\ DOMAIN m_queue' = DOMAIN m_queue \cup {last} /\ last \notin DOMAIN m_queue
          /\ \A i \in DOMAIN m_queue : m_queue'[i] = m_queue[i]
          /\ m_queue'[last] = t
      BY <1>3, <2>1, AppendPlaces
    <2> HIDE DEF last
    <2>3. NoTaskTwice'
      BY <1>1, <1>4, <2>2 DEF OnePlace, NoTaskTwice
    <2>4. GivenAreHere'
      BY <1>1, <1>3, <1>4, <2>1, <2>2 DEF OnePlace, GivenAreHere
    <2>5. PuttersBringNew'
      BY <1>2, <1>3, <2>1 DEF OnePlace, PuttersBringNew
    <2>6. QED
      BY <2>3, <2>4, <2>5 DEF OnePlace
  <1>8. QED
    BY <1>5, <1>6, <1>7

(* take() moves the head of the queue into the worker's hands. *)
LEMMA PopPlaces ==
    ASSUME Structure, OnePlace, NEW w \in Workers, NEW n, pc[w] # "run", TakePops(w, n)
    PROVE  OnePlace'
  <1> USE DEF Structure
  <1>1. m_queue \in Seq(Tasks) /\ m_queue # << >>
    BY EmptySeq, LimitsAssumption DEF TakePops, TypeOK
  <1>2. /\ Running' = Running \cup {w} /\ Putting' = Putting /\ fate' = fate
        /\ w \notin Running /\ Running \subseteq Workers /\ Putting \subseteq Clients
    BY WorkerPlaces DEF TakePops, Running, Putting
  <1>3. /\ arg'[w] = Head(m_queue)
        /\ \A v \in Running : arg'[v] = arg[v]
        /\ \A c \in Putting : arg'[c] = arg[c]
    BY <1>2, WorkerArg DEF TakePops
  <1>4. /\ 1 \in DOMAIN m_queue /\ m_queue[1] = Head(m_queue)
        /\ \A i \in DOMAIN m_queue' : i + 1 \in DOMAIN m_queue \ {1} /\ m_queue'[i] = m_queue[i + 1]
        /\ \A i \in DOMAIN m_queue \ {1} : i - 1 \in DOMAIN m_queue' /\ m_queue'[i - 1] = m_queue[i]
        /\ \A i, j \in DOMAIN m_queue' : i + 1 = j + 1 => i = j
    BY <1>1, TailPlaces DEF TakePops
  <1>5. NoTaskTwice'
    <2>1. \A i, j \in DOMAIN m_queue' : m_queue'[i] = m_queue'[j] => i = j
      BY <1>4 DEF OnePlace, NoTaskTwice
    <2>2. \A u, v \in Running' : arg'[u] = arg'[v] => u = v
      BY <1>2, <1>3, <1>4 DEF OnePlace, NoTaskTwice
    <2>3. \A i \in DOMAIN m_queue', v \in Running' : m_queue'[i] # arg'[v]
      BY <1>2, <1>3, <1>4 DEF OnePlace, NoTaskTwice
    <2>4. QED
      BY <2>1, <2>2, <2>3 DEF NoTaskTwice
  <1>6. GivenAreHere'
    <2>1. \A i \in DOMAIN m_queue' : fate'[m_queue'[i]] = "given"
      BY <1>2, <1>4 DEF OnePlace, GivenAreHere
    <2>2. \A v \in Running' : fate'[arg'[v]] = "given"
      BY <1>2, <1>3, <1>4 DEF OnePlace, GivenAreHere
    <2>3. ASSUME NEW t \in Tasks, fate'[t] = "given"
          PROVE  (\E i \in DOMAIN m_queue' : m_queue'[i] = t) \/ (\E v \in Running' : arg'[v] = t)
      BY <1>2, <1>3, <1>4, <2>3 DEF OnePlace, GivenAreHere
    <2>4. QED
      BY <2>1, <2>2, <2>3 DEF GivenAreHere
  <1>7. PuttersBringNew'
    BY <1>2, <1>3 DEF OnePlace, PuttersBringNew
  <1>8. QED
    BY <1>5, <1>6, <1>7 DEF OnePlace

(* A task that ends leaves its only place. *)
LEMMA EndPlaces ==
    ASSUME Structure, OnePlace, NEW w \in Workers, NEW how \in {"done", "failed"}, NEW q,
           q # "run", EndTask(w, how, q)
    PROVE  OnePlace'
  <1> USE DEF Structure
  <1>1. w \in Running /\ arg[w] \in Tasks /\ fate \in [Tasks -> Fates] /\ m_queue' = m_queue
    BY DEF EndTask, Running, WorkerHasTask, TypeOK
  <1>2. /\ Running' = Running \ {w} /\ Putting' = Putting
        /\ Running \subseteq Workers /\ Putting \subseteq Clients
    BY WorkerPlaces DEF EndTask, Running, Putting
  <1>3. /\ \A v \in Running \ {w} : arg'[v] = arg[v]
        /\ \A c \in Putting : arg'[c] = arg[c]
    BY <1>2, WorkerArg DEF EndTask
  <1>4. fate'[arg[w]] = how /\ \A t \in Tasks : t # arg[w] => fate'[t] = fate[t]
    BY <1>1 DEF EndTask
  <1>5. NoTaskTwice'
    BY <1>1, <1>2, <1>3 DEF OnePlace, NoTaskTwice
  <1>6. GivenAreHere'
    <2>1. \A i \in DOMAIN m_queue : m_queue[i] \in Tasks /\ m_queue[i] # arg[w]
      BY <1>1 DEF OnePlace, NoTaskTwice, TypeOK
    <2>2. \A v \in Running \ {w} : arg[v] \in Tasks /\ arg[v] # arg[w]
      BY <1>1 DEF OnePlace, NoTaskTwice, WorkerHasTask, Running
    <2>3. QED
      BY <1>1, <1>2, <1>3, <1>4, <2>1, <2>2 DEF OnePlace, GivenAreHere
  <1>7. PuttersBringNew'
    <2>1. \A c \in Putting : arg[c] \in Tasks /\ arg[c] # arg[w]
      BY <1>1 DEF OnePlace, GivenAreHere, PuttersBringNew, Putting
    <2>2. QED
      BY <1>2, <1>3, <1>4, <2>1 DEF OnePlace, PuttersBringNew
  <1>8. QED
    BY <1>5, <1>6, <1>7 DEF OnePlace

(* When the owner may join, every worker is past workerExit(). *)
LEMMA JoinedWorkersGone ==
    ASSUME Structure, m_worker_threads # {}, m_workers_exited >= Cardinality(m_worker_threads)
    PROVE  \A w \in Workers : pc[w] = "gone"
  <1>1. WorkersAt({"gone"}) \subseteq Workers /\ m_worker_threads = Workers
    BY DEF WorkersAt, Structure, TypeOK
  <1>2. Cardinality(WorkersAt({"gone"})) >= Cardinality(Workers)
    BY <1>1 DEF Structure, CountersMatchThreads
  <1>3. WorkersAt({"gone"}) = Workers
    BY <1>1, <1>2, FS_Subset, FS_CardinalityType, ThreadsAssumption, CountsFinite
  <1>4. QED
    BY <1>3 DEF WorkersAt

-----------------------------------------------------------------------------
LEMMA OnePlaceStep == Structure /\ OnePlace /\ [Next]_vars => OnePlace'
  <1> SUFFICES ASSUME Structure, OnePlace, [Next]_vars PROVE OnePlace'
    OBVIOUS
  <1> USE DEF Structure, status, counters
  <1>1. CASE Start
    <2>1. Running = {} /\ Running' = {}
      BY <1>1 DEF Start, WorkersTogether, Running, Threads
    <2>2. Putting' = Putting
      BY <1>1, ThreadsDistinct DEF Start, Putting, Threads
    <2>3. QED
      BY <1>1, <2>1, <2>2, TasksStay DEF Start
  <1>2. CASE CloseShop \/ (\E t \in Threads : SpuriousWake(t)) \/ UNCHANGED vars
    <2>1. UNCHANGED <<m_queue, fate, pc, arg>>
      BY <1>2 DEF CloseShop, SpuriousWake, vars
    <2>2. QED
      BY <2>1, TasksStay DEF Running, Putting
  <1>3. ASSUME NEW n, TerminateSleeps(n) PROVE OnePlace'
    <2>1. UNCHANGED <<m_queue, fate, arg>> /\ Running' = Running /\ Putting' \subseteq Putting
      <3>1. Main \in Clients /\ pc' = [pc EXCEPT ![Main] = "terminate"]
        BY <1>3, ThreadsAssumption DEF TerminateSleeps
      <3>2. Running' = Running /\ Putting' = Putting \ {Main}
        BY <3>1, ClientPlaces
      <3>3. QED
        BY <1>3, <3>2 DEF TerminateSleeps
    <2>2. QED
      BY <2>1, TasksStay
  <1>4. ASSUME TerminateJoins, m_worker_threads # {} PROVE OnePlace'
    <2>1. Running = {} /\ Running' = {}
      BY <1>4, JoinedWorkersGone DEF TerminateJoins, Running, Threads
    <2>2. Putting' \subseteq Putting
      BY <1>4, ThreadsDistinct DEF TerminateJoins, Putting, Threads
    <2>3. QED
      BY <1>4, <2>1, <2>2, TasksStay DEF TerminateJoins
  <1>5. CASE Terminate
    BY <1>3, <1>4, <1>5 DEF Terminate
  <1>6. ASSUME NEW c \in Clients, ClientCalls(c) \/ ClientResumes(c) PROVE OnePlace'
    <2>1. ASSUME NEW t \in Tasks, Put(c, t) PROVE OnePlace'
      <3>1. fate[t] = "new" /\ \A d \in Putting \ {c} : arg[d] # t
        BY <2>1 DEF Put, Putting
      <3>2. QED
        BY <2>1, <3>1, PutPlaces DEF Put
    <2>2. CASE PutResumes(c)
      <3>1. arg[c] \in Tasks /\ c \in Putting
        BY <2>2 DEF PutResumes, Putting
      <3>2. fate[arg[c]] = "new" /\ \A d \in Putting \ {c} : arg[d] # arg[c]
        BY <3>1 DEF OnePlace, PuttersBringNew
      <3>3. QED
        BY <2>2, <3>1, <3>2, PutPlaces DEF PutResumes
    <2>3. CASE WaitIdle(c) \/ WaitIdleResumes(c) \/ Leave(c)
      <3>1. UNCHANGED <<m_queue, fate, arg>> /\ Running' = Running /\ Putting' \subseteq Putting
        BY <2>3, ClientPlaces DEF WaitIdle, WaitIdleResumes, WaitIdleSleeps, WaitIdleReturns, Leave
      <3>2. QED
        BY <3>1, TasksStay
    <2>4. CASE TerminateResumes
      BY <1>3, <1>4, <2>4 DEF TerminateResumes, OwnerTerminates
    <2>5. QED
      BY <1>6, <2>1, <2>2, <2>3, <2>4 DEF ClientCalls, ClientResumes
  <1>7. ASSUME NEW w \in Workers, WorkerStep(w) PROVE OnePlace'
    <2>1. ASSUME pc[w] # "run", NEW n, TakeFails(w, n) \/ TakeSleeps(w, n) PROVE OnePlace'
      <3>1. UNCHANGED <<m_queue, fate, arg>> /\ Running' = Running /\ Putting' = Putting
        BY <2>1, WorkerPlaces DEF TakeFails, TakeSleeps, Running
      <3>2. QED
        BY <3>1, TasksStay
    <2>2. CASE Take(w) \/ TakeResumes(w)
      BY <2>1, <2>2, PopPlaces DEF Take, TakeResumes, TakeLoop
    <2>3. CASE TaskDone(w) \/ TaskFails(w)
      BY <2>3, EndPlaces DEF TaskDone, TaskFails
    <2>4. CASE WorkerExit(w)
      <3>1. UNCHANGED <<m_queue, fate, arg>> /\ Running' = Running /\ Putting' = Putting
        BY <2>4, WorkerPlaces DEF WorkerExit, Running
      <3>2. QED
        BY <3>1, TasksStay
    <2>5. QED
      BY <1>7, <2>2, <2>3, <2>4 DEF WorkerStep
  <1>8. QED
    BY <1>1, <1>2, <1>5, <1>6, <1>7 DEF Next

(* From "no two places" to the count of the places. *)
LEMMA PlacesCounted == Structure /\ OnePlace => EachTaskInOnePlace
  <1> SUFFICES ASSUME Structure, OnePlace, NEW t \in Tasks
               PROVE  Cardinality(Places(t)) + Cardinality(Holders(t)) =
                          IF fate[t] = "given" THEN 1 ELSE 0
    BY DEF EachTaskInOnePlace
  <1> USE DEF OnePlace
  <1>1. /\ \A i, j \in Places(t) : i = j
        /\ \A v, w \in Holders(t) : v = w
        /\ Places(t) = {} \/ Holders(t) = {}
    BY DEF NoTaskTwice, Places, Holders, Running
  <1>2. fate[t] = "given" <=> Places(t) # {} \/ Holders(t) # {}
    BY DEF GivenAreHere, Places, Holders, Running
  <1>3. ASSUME NEW S, \A x, y \in S : x = y
        PROVE  S = {} \/ \E x : S = {x}
    BY <1>3
  <1>4. /\ Places(t) = {} \/ \E x : Places(t) = {x}
        /\ Holders(t) = {} \/ \E x : Holders(t) = {x}
    BY <1>1, <1>3
  <1>5. /\ Places(t) = {} => Cardinality(Places(t)) = 0
        /\ Holders(t) = {} => Cardinality(Holders(t)) = 0
        /\ Places(t) # {} => Cardinality(Places(t)) = 1
        /\ Holders(t) # {} => Cardinality(Holders(t)) = 1
    BY <1>4, FS_EmptySet, FS_Singleton
  <1>6. QED
    BY <1>1, <1>2, <1>5

LEMMA OnePlaceHolds == Spec => []OnePlace
  <1>1. Init => OnePlace
    <2>1. Init => Running = {} /\ Putting = {}
      BY ThreadsDistinct DEF Init, Running, Putting, Threads
    <2>2. Init => DOMAIN m_queue = {}
      BY DEF Init
    <2>3. Init => \A t \in Tasks : fate[t] # "given"
      BY DEF Init
    <2>4. QED
      BY <2>1, <2>2, <2>3 DEF OnePlace, NoTaskTwice, GivenAreHere, PuttersBringNew
  <1>2. Structure /\ OnePlace /\ [Next]_vars => OnePlace'
    BY OnePlaceStep
  <1>3. QED
    BY <1>1, <1>2, StructureHolds, PTL DEF Spec

(* A task that put() accepted is never lost, queued twice or run by two    *)
(* workers, through every wait, abort and termination; a task that was     *)
(* refused is nowhere.                                                     *)
THEOREM NoTaskLost == Spec => []EachTaskInOnePlace
  <1>1. Structure /\ OnePlace => EachTaskInOnePlace
    BY PlacesCounted
  <1>2. QED
    BY <1>1, StructureHolds, OnePlaceHolds, PTL

-----------------------------------------------------------------------------
(* Why a queue may hold tasks that nobody will run.                        *)

Failed == \E t \in Tasks : fate[t] = "failed"

(* The queue is aborted by a failing task, or by its owner who is then the *)
(* last client; tasks wait without workers only when no client is left.    *)
AbortsExplained ==
    /\ pc[Main] = "gone" => \A c \in Clients : pc[c] = "gone"
    /\ m_worker_threads = {} => m_queue = << >> \/ pc[Main] = "gone"
    /\ \/ ~m_ok \/ m_workers_exited > 0 \/ \E w \in Workers : pc[w] = "exit"
       => Failed \/ pc[Main] \in {"terminate", "gone"}

LEMMA ClientPc ==
    ASSUME TypeOK, NEW c \in Clients, NEW q, pc' = [pc EXCEPT ![c] = q]
    PROVE  /\ pc'[c] = q
           /\ \A d \in Clients \ {c} : pc'[d] = pc[d]
           /\ \A w \in Workers : pc'[w] = pc[w]
BY ThreadsDistinct DEF TypeOK, Threads

LEMMA WorkerPc ==
    ASSUME TypeOK, NEW w \in Workers, NEW q, pc' = [pc EXCEPT ![w] = q]
    PROVE  /\ pc'[w] = q
           /\ \A v \in Workers \ {w} : pc'[v] = pc[v]
           /\ \A c \in Clients : pc'[c] = pc[c]
BY ThreadsDistinct DEF TypeOK, Threads

(* A client step that aborts nothing, by a client that is still there. *)
LEMMA ClientExplained ==
    ASSUME Structure, AbortsExplained, NEW c \in Clients, NEW q,
           pc[c] # "gone", pc' = [pc EXCEPT ![c] = q],
           c = Main => q # "gone" /\ (pc[c] = "terminate" => q = "terminate"),
           m_worker_threads' = m_worker_threads, m_ok' = m_ok,
           m_workers_exited' = m_workers_exited,
           Failed => Failed', m_worker_threads = {} => m_queue' = m_queue
    PROVE  AbortsExplained'
  <1>1. Main \in Clients /\ TypeOK
    BY ThreadsAssumption DEF Structure
  <1>2. /\ pc'[c] = q
        /\ \A d \in Clients \ {c} : pc'[d] = pc[d]
        /\ \A w \in Workers : pc'[w] = pc[w]
    BY <1>1, ClientPc
  <1>3. pc[Main] # "gone" /\ pc'[Main] # "gone"
    BY <1>1, <1>2 DEF AbortsExplained
  <1>4. pc[Main] = "terminate" => pc'[Main] = "terminate"
    BY <1>1, <1>2
  <1>5. QED
    BY <1>2, <1>3, <1>4 DEF AbortsExplained

(* A step of a worker that leaves the queue's own state, or aborts it for  *)
(* a reason.                                                               *)
LEMMA WorkerExplained ==
    ASSUME Structure, AbortsExplained, NEW w \in Workers, NEW q,
           pc[w] # "off", pc' = [pc EXCEPT ![w] = q],
           m_worker_threads' = m_worker_threads, Failed => Failed',
           \/ m_ok' = m_ok /\ m_workers_exited' = m_workers_exited /\ q # "exit"
           \/ Failed' \/ pc[Main] \in {"terminate", "gone"}
    PROVE  AbortsExplained'
  <1>1. Main \in Clients /\ TypeOK
    BY ThreadsAssumption DEF Structure
  <1>2. /\ pc'[w] = q
        /\ \A v \in Workers \ {w} : pc'[v] = pc[v]
        /\ \A c \in Clients : pc'[c] = pc[c]
    BY <1>1, WorkerPc
  <1>3. m_worker_threads # {}
    BY DEF Structure, WorkersTogether
  <1>4. QED
    BY <1>1, <1>2, <1>3 DEF AbortsExplained

(* Only a task that was new or in a worker's hands changes its fate. *)
LEMMA FailedStays ==
    ASSUME TypeOK, NEW t \in Tasks, fate[t] # "failed", NEW how, fate' = [fate EXCEPT ![t] = how]
    PROVE  Failed => Failed'
BY DEF TypeOK, Failed

LEMMA PutExplained ==
    ASSUME Structure, AbortsExplained, NEW c \in Clients, NEW t \in Tasks, NEW n,
           pc[c] \notin {"gone", "terminate"}, fate[t] = "new", ok \/ PutRefused(c, t, n),
           PutRefused(c, t, n) \/ PutSleeps(c, t, n) \/ PutPushes(c, t, n)
    PROVE  AbortsExplained'
  <1>1. TypeOK
    BY DEF Structure
  <1>2. Failed => Failed'
    <2>1. PutSleeps(c, t, n) => fate' = fate
      BY DEF PutSleeps
    <2>2. /\ PutRefused(c, t, n) => fate' = [fate EXCEPT ![t] = "refused"]
          /\ PutPushes(c, t, n) => fate' = [fate EXCEPT ![t] = "given"]
      BY DEF PutRefused, PutPushes
    <2>3. QED
      BY <1>1, <2>1, <2>2, FailedStays DEF Failed
  <1>3. /\ pc' = [pc EXCEPT ![c] = "idle"] \/ pc' = [pc EXCEPT ![c] = "put"]
        /\ m_worker_threads' = m_worker_threads /\ m_ok' = m_ok
        /\ m_workers_exited' = m_workers_exited
        /\ m_worker_threads = {} => m_queue' = m_queue
    BY DEF PutRefused, PutSleeps, PutPushes, status, ok
  <1>4. QED
    BY <1>2, <1>3, ClientExplained

LEMMA TakeExplained ==
    ASSUME Structure, AbortsExplained, NEW w \in Workers, NEW n,
           pc[w] \notin {"off", "exit"}, TakeLoop(w, n)
    PROVE  AbortsExplained'
  <1>1. fate' = fate /\ m_worker_threads' = m_worker_threads
    BY DEF TakeLoop, TakeFails, TakeSleeps, TakePops, status
  <1>2. Failed => Failed'
    BY <1>1 DEF Failed
  <1>3. CASE TakeFails(w, n)
    <2>1. ~m_ok \/ m_workers_exited > 0
      BY <1>3 DEF TakeFails, ok, Structure, TypeOK, WorkersTogether
    <2>2. Failed' \/ pc[Main] \in {"terminate", "gone"}
      BY <1>2, <2>1 DEF AbortsExplained
    <2>3. QED
      BY <1>1, <1>2, <1>3, <2>2, WorkerExplained DEF TakeFails
  <1>4. CASE TakeSleeps(w, n) \/ TakePops(w, n)
    <2>1. /\ pc' = [pc EXCEPT ![w] = "waiting"] \/ pc' = [pc EXCEPT ![w] = "run"]
          /\ m_ok' = m_ok /\ m_workers_exited' = m_workers_exited
      BY <1>4 DEF TakeSleeps, TakePops, status
    <2>2. QED
      BY <1>1, <1>2, <2>1, WorkerExplained
  <1>5. QED
    BY <1>3, <1>4 DEF TakeLoop

LEMMA EndExplained ==
    ASSUME Structure, OnePlace, AbortsExplained, NEW w \in Workers, TaskDone(w) \/ TaskFails(w)
    PROVE  AbortsExplained'
  <1>1. TypeOK /\ arg[w] \in Tasks /\ fate[arg[w]] = "given"
    BY DEF Structure, WorkerHasTask, OnePlace, GivenAreHere, Running, TaskDone, TaskFails, EndTask
  <1>2. /\ fate' = [fate EXCEPT ![arg[w]] = "done"] \/ fate' = [fate EXCEPT ![arg[w]] = "failed"]
        /\ m_worker_threads' = m_worker_threads
    BY DEF TaskDone, TaskFails, EndTask, status
  <1>3. Failed => Failed'
    BY <1>1, <1>2, FailedStays
  <1>4. CASE TaskDone(w)
    <2>1. pc' = [pc EXCEPT ![w] = "call"] /\ m_ok' = m_ok /\ m_workers_exited' = m_workers_exited
      BY <1>4 DEF TaskDone, EndTask, status, counters
    <2>2. QED
      BY <1>2, <1>3, <1>4, <2>1, WorkerExplained DEF TaskDone, EndTask
  <1>5. CASE TaskFails(w)
    <2>1. fate' = [fate EXCEPT ![arg[w]] = "failed"]
      BY <1>5 DEF TaskFails, EndTask
    <2>2. Failed'
      BY <1>1, <2>1 DEF Failed, TypeOK
    <2>3. QED
      BY <1>2, <1>3, <1>5, <2>2, WorkerExplained DEF TaskFails, EndTask
  <1>6. QED
    BY <1>4, <1>5

LEMMA ExplainedStep == Structure /\ OnePlace /\ AbortsExplained /\ [Next]_vars => AbortsExplained'
  <1> SUFFICES ASSUME Structure, OnePlace, AbortsExplained, [Next]_vars PROVE AbortsExplained'
    OBVIOUS
  <1>1. TypeOK /\ Main \in Clients
    BY ThreadsAssumption DEF Structure
  <1>2. CASE Start
    <2>1. \A c \in Clients : pc'[c] = pc[c]
      BY <1>2, ThreadsDistinct DEF Start, Threads
    <2>2. \A w \in Workers : pc'[w] = "call"
      BY <1>2 DEF Start, Threads
    <2>3. QED
      BY <1>1, <1>2, <2>1, <2>2, ThreadsAssumption DEF Start, AbortsExplained, Failed, counters
  <1>3. CASE CloseShop \/ (\E t \in Threads : SpuriousWake(t)) \/ UNCHANGED vars
    <2>1. UNCHANGED <<m_queue, m_ok, m_worker_threads, m_workers_exited, pc, fate>>
      BY <1>3 DEF CloseShop, SpuriousWake, vars, status, counters
    <2>2. QED
      BY <2>1 DEF AbortsExplained, Failed
  <1>4. ASSUME NEW n, TerminateSleeps(n), pc[Main] # "gone", m_worker_threads # {}
        PROVE  AbortsExplained'
    <2>1. /\ pc'[Main] = "terminate"
          /\ m_worker_threads' = m_worker_threads
      BY <1>1, <1>4, ClientPc DEF TerminateSleeps
    <2>2. QED
      BY <1>4, <2>1 DEF AbortsExplained
  <1>5. ASSUME TerminateJoins, \A c \in Clients \ {Main} : pc[c] = "gone"
        PROVE  AbortsExplained'
    <2>1. \A c \in Clients : pc'[c] = "gone"
      BY <1>5, ThreadsDistinct DEF TerminateJoins, Threads
    <2>2. QED
      BY <1>1, <2>1 DEF AbortsExplained
  <1>6. CASE Terminate
    BY <1>4, <1>5, <1>6 DEF Terminate
  <1>7. ASSUME NEW c \in Clients, ClientCalls(c) \/ ClientResumes(c) PROVE AbortsExplained'
    <2>1. ASSUME NEW t \in Tasks, Put(c, t) PROVE AbortsExplained'
      BY <2>1, PutExplained DEF Put
    <2>2. CASE PutResumes(c)
      <3>1. /\ pc[c] = "put" /\ arg[c] \in Tasks
            /\ fate[arg[c]] = "new"
        BY <2>2 DEF PutResumes, Structure, OnePlace, PuttersBringNew, Putting
      <3>2. QED
        BY <2>2, <3>1, PutExplained DEF PutResumes
    <2>3. CASE WaitIdle(c) \/ WaitIdleResumes(c)
      <3>1. /\ pc[c] \in {"idle", "drained", "waitIdle"}
            /\ pc' = [pc EXCEPT ![c] = "waitIdle"] \/ pc' = [pc EXCEPT ![c] = "drained"]
            /\ UNCHANGED <<m_queue, m_ok, m_worker_threads, m_workers_exited, fate>>
        BY <2>3 DEF WaitIdle, WaitIdleResumes, WaitIdleSleeps, WaitIdleReturns, status
      <3>2. Failed => Failed'
        BY <3>1 DEF Failed
      <3>3. QED
        BY <3>1, <3>2, ClientExplained
    <2>4. CASE Leave(c)
      <3>1. /\ c # Main /\ pc[c] \in {"idle", "drained"} /\ pc' = [pc EXCEPT ![c] = "gone"]
            /\ UNCHANGED <<m_queue, m_ok, m_worker_threads, m_workers_exited, fate>>
        BY <2>4 DEF Leave, status, counters
      <3>2. Failed => Failed'
        BY <3>1 DEF Failed
      <3>3. QED
        BY <3>1, <3>2, ClientExplained
    <2>5. CASE TerminateResumes
      BY <1>4, <1>5, <2>5 DEF TerminateResumes, Structure, OwnerTerminates
    <2>6. QED
      BY <1>7, <2>1, <2>2, <2>3, <2>4, <2>5 DEF ClientCalls, ClientResumes
  <1>8. ASSUME NEW w \in Workers, WorkerStep(w) PROVE AbortsExplained'
    <2>1. CASE Take(w) \/ TakeResumes(w)
      BY <2>1, TakeExplained DEF Take, TakeResumes
    <2>2. CASE TaskDone(w) \/ TaskFails(w)
      BY <2>2, EndExplained
    <2>3. CASE WorkerExit(w)
      <3>1. /\ pc[w] = "exit" /\ pc' = [pc EXCEPT ![w] = "gone"]
            /\ m_worker_threads' = m_worker_threads /\ fate' = fate
        BY <2>3 DEF WorkerExit
      <3>2. (Failed <=> Failed') /\ (Failed \/ pc[Main] \in {"terminate", "gone"})
        BY <3>1 DEF Failed, AbortsExplained
      <3>3. QED
        BY <3>1, <3>2, WorkerExplained
    <2>4. QED
      BY <1>8, <2>1, <2>2, <2>3 DEF WorkerStep
  <1>9. QED
    BY <1>2, <1>3, <1>6, <1>7, <1>8 DEF Next

LEMMA ExplainedHolds == Spec => []AbortsExplained
  <1>1. Init => AbortsExplained
    BY ThreadsAssumption, ThreadsDistinct DEF Init, AbortsExplained, Threads
  <1>2. Structure /\ OnePlace /\ AbortsExplained /\ [Next]_vars => AbortsExplained'
    BY ExplainedStep
  <1>3. QED
    BY <1>1, <1>2, StructureHolds, OnePlaceHolds, PTL DEF Spec

-----------------------------------------------------------------------------
(* What waitIdle()'s loop condition says when it is false.                 *)

LEMMA WorkersCounted ==
    ASSUME Structure, m_worker_threads = Workers,
           m_workers_waiting + m_workers_exited >= Cardinality(Workers)
    PROVE  \A w \in Workers : pc[w] \in {"waiting", "gone"}
  <1> DEFINE W == WorkersAt({"waiting"})
             G == WorkersAt({"gone"})
  <1>1. /\ IsFiniteSet(W) /\ IsFiniteSet(G) /\ IsFiniteSet(Workers)
        /\ Cardinality(W) \in Nat /\ Cardinality(G) \in Nat /\ Cardinality(Workers) \in Nat
    BY CountsFinite, ThreadsAssumption, FS_CardinalityType
  <1>2. W \cap G = {} /\ W \cup G \subseteq Workers
    BY DEF WorkersAt
  <1>3. Cardinality(W \cup G) = Cardinality(W) + Cardinality(G)
    BY <1>1, <1>2, FS_Union, FS_EmptySet
  <1>4. Cardinality(W \cup G) >= Cardinality(Workers)
    BY <1>3 DEF Structure, CountersMatchThreads
  <1>5. W \cup G = Workers
    <2>1. Cardinality(W \cup G) <= Cardinality(Workers) /\ Cardinality(W \cup G) \in Nat
      BY <1>1, <1>2, <1>3, FS_Subset
    <2>2. Cardinality(W \cup G) = Cardinality(Workers)
      BY <1>1, <1>4, <2>1
    <2>3. QED
      BY <1>1, <1>2, <2>2, FS_Subset
  <1>6. QED
    BY <1>5 DEF WorkersAt

LEMMA NotBusyIsQuiet ==
    ASSUME Structure, AbortsExplained, ~Busy, pc[Main] # "gone"
    PROVE  /\ Quiet /\ Running = {}
           /\ m_queue = << >> \/ m_workers_exited > 0
  <1> USE DEF Structure, TypeOK
  <1>1. Running = WorkersAt({"run"})
    BY DEF Running, WorkersAt
  <1>2. CASE m_worker_threads = {}
    <2>1. \A w \in Workers : pc[w] = "off"
      BY <1>2 DEF WorkersTogether
    <2>2. m_queue = << >>
      BY <1>2 DEF AbortsExplained
    <2>3. QED
      BY <1>1, <2>1, <2>2 DEF Quiet, WorkersAt
  <1>3. CASE m_worker_threads = Workers
    <2>1. Cardinality(Workers) \in Nat \ {0}
      BY ThreadsAssumption, FS_CardinalityType, FS_EmptySet
    <2>2. \A w \in Workers : pc[w] \in {"waiting", "gone"}
      BY <1>3, <2>1, WorkersCounted DEF Busy
    <2>3. Len(m_queue) \in Nat /\ (Len(m_queue) = 0 => m_queue = << >>)
      BY LenProperties, EmptySeq
    <2>4. ASSUME m_queue # << >> PROVE m_workers_exited >= Cardinality(m_worker_threads)
      BY <1>3, <2>1, <2>3, <2>4 DEF Busy
    <2>5. ASSUME m_queue # << >>
          PROVE  (\A w \in Workers : pc[w] = "gone") /\ m_workers_exited > 0
      BY <1>3, <2>1, <2>4, <2>5, JoinedWorkersGone, ThreadsAssumption
    <2>6. QED
      BY <1>1, <2>2, <2>5 DEF Quiet, WorkersAt
  <1>4. QED
    BY <1>2, <1>3

(* waitIdle() is called by clients that are still there: not while the     *)
(* owner terminates the queue, and not after.                              *)
LEMMA OwnerStillThere ==
    ASSUME Structure, AbortsExplained, NEW c \in Clients, pc[c] \in {"idle", "drained", "waitIdle"}
    PROVE  pc[Main] \notin {"terminate", "gone"}
BY ThreadsAssumption DEF Structure, OwnerTerminates, AbortsExplained

LEMMA ReturnsWhenIdle ==
    ASSUME Structure, AbortsExplained, NEW c \in Clients, NEW n,
           pc[c] \in {"idle", "drained", "waitIdle"}, WaitIdleReturns(c, n)
    PROVE  Quiet /\ Running = {} /\ (m_queue = << >> \/ Failed)
BY OwnerStillThere, NotBusyIsQuiet DEF WaitIdleReturns, AbortsExplained

-----------------------------------------------------------------------------
(* The promise of waitIdle().                                              *)

(* A step that leaves the workers and the queue as they are leaves the     *)
(* queue quiet.                                                            *)
LEMMA QuietStays ==
    ASSUME Quiet, m_queue' = m_queue, \A w \in Workers : pc'[w] = pc[w]
    PROVE  Quiet'
BY DEF Quiet, WorkersAt

TaskGiven == \E t \in Tasks : fate[t] = "new" /\ fate'[t] = "given"

LEMMA PutQuiet ==
    ASSUME Structure, NEW c \in Clients, NEW t \in Tasks, NEW n, fate[t] = "new", Quiet,
           PutRefused(c, t, n) \/ PutSleeps(c, t, n) \/ PutPushes(c, t, n)
    PROVE  Quiet' \/ TaskGiven
  <1>1. TypeOK
    BY DEF Structure
  <1>2. CASE PutPushes(c, t, n)
    BY <1>1, <1>2 DEF PutPushes, TaskGiven, TypeOK
  <1>3. CASE PutRefused(c, t, n) \/ PutSleeps(c, t, n)
    <2>1. /\ m_queue' = m_queue
          /\ pc' = [pc EXCEPT ![c] = "idle"] \/ pc' = [pc EXCEPT ![c] = "put"]
      BY <1>3 DEF PutRefused, PutSleeps
    <2>2. QED
      BY <1>1, <2>1, ClientPc, QuietStays
  <1>4. QED
    BY <1>2, <1>3

LEMMA QuietUntilGiven ==
    ASSUME Structure, OnePlace, AbortsExplained, [Next]_vars, Quiet
    PROVE  Quiet' \/ TaskGiven
  <1>1. TypeOK /\ Main \in Clients
    BY ThreadsAssumption DEF Structure
  <1>2. ASSUME NEW c \in Clients, NEW q, pc' = [pc EXCEPT ![c] = q], m_queue' = m_queue
        PROVE  Quiet'
    BY <1>1, <1>2, ClientPc, QuietStays
  <1>3. CASE Start
    <2>1. m_queue' = << >>
      BY <1>3 DEF Start, AbortsExplained
    <2>2. \A w \in Workers : pc'[w] = "call"
      BY <1>3 DEF Start, Threads
    <2>3. QED
      BY <2>1, <2>2 DEF Quiet, WorkersAt
  <1>4. CASE CloseShop \/ (\E t \in Threads : SpuriousWake(t)) \/ UNCHANGED vars
    BY <1>4, QuietStays DEF CloseShop, SpuriousWake, vars
  <1>5. ASSUME NEW n, TerminateSleeps(n) PROVE Quiet'
    BY <1>1, <1>2, <1>5 DEF TerminateSleeps
  <1>6. ASSUME TerminateJoins PROVE Quiet'
    BY <1>6 DEF TerminateJoins, Threads, Quiet, WorkersAt
  <1>7. ASSUME NEW c \in Clients, ClientCalls(c) \/ ClientResumes(c) PROVE Quiet' \/ TaskGiven
    <2>1. ASSUME NEW t \in Tasks, Put(c, t) PROVE Quiet' \/ TaskGiven
      BY <2>1, PutQuiet DEF Put
    <2>2. CASE PutResumes(c)
      <3>1. arg[c] \in Tasks /\ fate[arg[c]] = "new"
        BY <2>2 DEF PutResumes, Structure, OnePlace, PuttersBringNew, Putting
      <3>2. QED
        BY <2>2, <3>1, PutQuiet DEF PutResumes
    <2>3. CASE WaitIdle(c) \/ WaitIdleResumes(c) \/ Leave(c)
      BY <1>2, <2>3 DEF WaitIdle, WaitIdleResumes, WaitIdleSleeps, WaitIdleReturns, Leave
    <2>4. CASE TerminateResumes
      BY <1>5, <1>6, <2>4 DEF TerminateResumes
    <2>5. QED
      BY <1>7, <2>1, <2>2, <2>3, <2>4 DEF ClientCalls, ClientResumes
  <1>8. ASSUME NEW w \in Workers, WorkerStep(w) PROVE Quiet'
    <2>1. pc[w] # "run" /\ (pc[w] \in {"call", "waiting"} => m_queue = << >>)
      BY DEF Quiet, WorkersAt
    <2>2. ~TaskDone(w) /\ ~TaskFails(w) /\ \A n : pc[w] \in {"call", "waiting"} => ~TakePops(w, n)
      BY <2>1, EmptySeq, LimitsAssumption DEF TaskDone, TaskFails, EndTask, TakePops
    <2>3. CASE Take(w) \/ TakeResumes(w)
      <3>1. /\ m_queue' = << >>
            /\ pc' = [pc EXCEPT ![w] = "exit"] \/ pc' = [pc EXCEPT ![w] = "waiting"]
        BY <2>1, <2>2, <2>3 DEF Take, TakeResumes, TakeLoop, TakeFails, TakeSleeps
      <3>2. \A v \in Workers : pc'[v] # "run"
        BY <1>1, <3>1, WorkerPc DEF Quiet, WorkersAt
      <3>3. QED
        BY <3>1, <3>2 DEF Quiet, WorkersAt
    <2>4. CASE WorkerExit(w)
      <3>1. m_queue' = m_queue /\ pc' = [pc EXCEPT ![w] = "gone"]
        BY <2>4 DEF WorkerExit
      <3>2. QED
        BY <1>1, <3>1, WorkerPc DEF Quiet, WorkersAt
    <2>5. QED
      BY <1>8, <2>2, <2>3, <2>4 DEF WorkerStep
  <1>9. QED
    BY <1>3, <1>4, <1>5, <1>6, <1>7, <1>8 DEF Next, Terminate

(* Only waitIdle() takes a client to "drained". *)
LEMMA DrainedByReturn ==
    ASSUME Structure, [Next]_vars, NEW c \in Clients, pc[c] # "drained", pc'[c] = "drained"
    PROVE  pc[c] \in {"idle", "waitIdle"} /\ \E n : WaitIdleReturns(c, n)
  <1>1. TypeOK /\ Main \in Clients
    BY ThreadsAssumption DEF Structure
  <1>2. ASSUME NEW d \in Clients, NEW q, q # "drained", pc' = [pc EXCEPT ![d] = q] PROVE FALSE
    BY <1>1, <1>2, ClientPc
  <1>3. ASSUME NEW w \in Workers, NEW q, pc' = [pc EXCEPT ![w] = q] PROVE FALSE
    BY <1>1, <1>3, WorkerPc
  <1>4. ~Start /\ ~TerminateJoins
    BY ThreadsDistinct DEF Start, TerminateJoins, Threads
  <1>5. ~CloseShop /\ ~(\E t \in Threads : SpuriousWake(t)) /\ ~(UNCHANGED vars)
    BY DEF CloseShop, SpuriousWake, vars
  <1>6. ~Terminate /\ ~TerminateResumes
    BY <1>1, <1>2, <1>4 DEF Terminate, TerminateResumes, TerminateSleeps
  <1>7. \A w \in Workers : ~WorkerStep(w)
    BY <1>3 DEF WorkerStep, Take, TakeResumes, TakeLoop, TakeFails, TakeSleeps, TakePops,
                TaskDone, TaskFails, EndTask, WorkerExit
  <1>8. PICK d \in Clients : ClientCalls(d) \/ ClientResumes(d)
    BY <1>4, <1>5, <1>6, <1>7 DEF Next
  <1>9. \A t, n : ~PutRefused(d, t, n) /\ ~PutSleeps(d, t, n) /\ ~PutPushes(d, t, n)
    BY <1>2 DEF PutRefused, PutSleeps, PutPushes
  <1>10. ~Leave(d) /\ \A n : ~WaitIdleSleeps(d, n)
    BY <1>2 DEF Leave, WaitIdleSleeps
  <1>11. WaitIdle(d) \/ WaitIdleResumes(d)
    BY <1>6, <1>8, <1>9, <1>10 DEF ClientCalls, ClientResumes, Put, PutResumes
  <1>12. PICK n : WaitIdleReturns(d, n)
    BY <1>10, <1>11 DEF WaitIdle, WaitIdleResumes
  <1>13. d = c
    BY <1>1, <1>12, ClientPc DEF WaitIdleReturns
  <1>14. QED
    BY <1>11, <1>12, <1>13 DEF WaitIdle, WaitIdleResumes

(* When waitIdle() returns no task is running and none will begin, until a *)
(* client gives another: the purge, the commit and the destruction of what *)
(* the workers use rely on it.                                             *)
THEOREM IdleMeansQuiet == Spec => WaitIdleMeansQuiet
  <1> DEFINE Step ==
        /\ \A c \in Clients : pc[c] # "drained" /\ pc'[c] = "drained" => Quiet'
        /\ Quiet => Quiet' \/ \E t \in Tasks : fate[t] = "new" /\ fate'[t] = "given"
  <1>1. ASSUME Structure, OnePlace, AbortsExplained, [Next]_vars PROVE [Step]_vars
    <2>1. ASSUME NEW c \in Clients, pc[c] # "drained", pc'[c] = "drained" PROVE Quiet'
      <3>1. pc[c] \in {"idle", "waitIdle"} /\ \E n : WaitIdleReturns(c, n)
        BY <1>1, <2>1, DrainedByReturn
      <3>2. PICK n : WaitIdleReturns(c, n)
        BY <3>1
      <3>3. Quiet
        BY <1>1, <3>1, <3>2, ReturnsWhenIdle
      <3>4. m_queue' = m_queue /\ pc' = [pc EXCEPT ![c] = "drained"]
        BY <3>2 DEF WaitIdleReturns
      <3>5. QED
        BY <1>1, <3>3, <3>4, ClientPc, QuietStays DEF Structure
    <2>2. Quiet => Quiet' \/ TaskGiven
      BY <1>1, QuietUntilGiven
    <2>3. QED
      BY <2>1, <2>2 DEF TaskGiven
  <1>2. QED
    BY <1>1, StructureHolds, OnePlaceHolds, ExplainedHolds, PTL DEF Spec, WaitIdleMeansQuiet

-----------------------------------------------------------------------------
(* The refinement: the pool's variables, and what a step does to them.     *)

Hands == {arg[w] : w \in WorkersAt({"run"})}
Told == ClientsIn({"drained"})

PoolStep == [Pool!PoolNext]_(Pool!poolVars)

LEMMA Stutters ==
    ASSUME m_queue' = m_queue, fate' = fate, Hands' = Hands, Told' = Told
    PROVE  PoolStep
BY DEF PoolStep, Pool!poolVars, Hands, Told

LEMMA Accepts ==
    ASSUME NEW c \in Clients, NEW t \in Tasks, fate[t] = "new",
           m_queue' = Append(m_queue, t), fate' = [fate EXCEPT ![t] = "given"],
           Hands' = Hands, Told' = Told \ {c}
    PROVE  PoolStep
BY DEF PoolStep, Pool!PoolNext, Pool!Accept, Hands, Told

LEMMA Refuses ==
    ASSUME NEW c \in Clients, NEW t \in Tasks, fate[t] = "new",
           m_queue' = m_queue, fate' = [fate EXCEPT ![t] = "refused"],
           Hands' = Hands, Told' = Told \ {c}
    PROVE  PoolStep
BY DEF PoolStep, Pool!PoolNext, Pool!Refuse, Hands, Told

LEMMA Begins ==
    ASSUME m_queue # << >>, Head(m_queue) \notin Hands, fate[Head(m_queue)] = "given",
           m_queue' = Tail(m_queue), fate' = fate,
           Hands' = Hands \cup {Head(m_queue)}, Told' = Told
    PROVE  PoolStep
BY DEF PoolStep, Pool!PoolNext, Pool!Begin, Hands, Told

LEMMA Ends ==
    ASSUME NEW t \in Tasks, t \in Hands, NEW how \in {"done", "failed"},
           m_queue' = m_queue, fate' = [fate EXCEPT ![t] = how],
           Hands' = Hands \ {t}, Told' = Told
    PROVE  PoolStep
BY DEF PoolStep, Pool!PoolNext, Pool!End, Hands, Told

LEMMA TellsIdle ==
    ASSUME NEW c \in Clients, Hands = {}, m_queue = << >> \/ Failed,
           m_queue' = m_queue, fate' = fate, Hands' = Hands, Told' = Told \cup {c}
    PROVE  PoolStep
BY DEF PoolStep, Pool!PoolNext, Pool!TellIdle, Pool!Idle, Failed, Hands, Told

(* A client leaves "drained", if it was there, for another call. *)
LEMMA GoesOn ==
    ASSUME NEW c \in Clients,
           m_queue' = m_queue, fate' = fate, Hands' = Hands, Told' = Told \ {c}
    PROVE  PoolStep
  <1>1. CASE c \in Told
    BY <1>1 DEF PoolStep, Pool!PoolNext, Pool!GoOn, Hands, Told
  <1>2. CASE c \notin Told
    BY <1>2, Stutters
  <1>3. QED
    BY <1>1, <1>2

-----------------------------------------------------------------------------
(* What the threads' moves are for the pool.                               *)

LEMMA RunningAtRun == WorkersAt({"run"}) = Running
BY DEF WorkersAt, Running

LEMMA HandsStay ==
    ASSUME Running' = Running, \A w \in Running : arg'[w] = arg[w]
    PROVE  Hands' = Hands
BY RunningAtRun DEF Hands, WorkersAt, Running

LEMMA ClientTold ==
    ASSUME TypeOK, NEW c \in Clients, NEW q, pc' = [pc EXCEPT ![c] = q],
           \A w \in Workers : arg'[w] = arg[w]
    PROVE  /\ Hands' = Hands
           /\ q = "drained" => Told' = Told \cup {c}
           /\ q # "drained" => Told' = Told \ {c}
  <1>1. Running' = Running
    BY ClientPlaces
  <1>2. Hands' = Hands
    BY <1>1, HandsStay DEF Running
  <1>3. /\ pc'[c] = q
        /\ \A d \in Clients \ {c} : pc'[d] = pc[d]
    BY ClientPc
  <1>4. QED
    BY <1>2, <1>3 DEF Told, ClientsIn

LEMMA WorkerTold ==
    ASSUME TypeOK, NEW w \in Workers, NEW q, pc' = [pc EXCEPT ![w] = q]
    PROVE  Told' = Told
BY WorkerPc DEF Told, ClientsIn

(* A client's step that ends anywhere but in "drained" and touches no task. *)
LEMMA ClientGoesOn ==
    ASSUME TypeOK, NEW c \in Clients, NEW q, q # "drained", pc' = [pc EXCEPT ![c] = q],
           m_queue' = m_queue, fate' = fate, arg' = arg
    PROVE  PoolStep
BY ClientTold, GoesOn

LEMMA PutRefines ==
    ASSUME TypeOK, NEW c \in Clients, NEW t \in Tasks, NEW n, fate[t] = "new",
           PutRefused(c, t, n) \/ PutSleeps(c, t, n) \/ PutPushes(c, t, n)
    PROVE  PoolStep
  <1>1. \A w \in Workers : arg'[w] = arg[w]
    BY ClientArg DEF PutRefused, PutSleeps, PutPushes
  <1>2. "idle" # "drained" /\ "put" # "drained"
    OBVIOUS
  <1>3. pc' = [pc EXCEPT ![c] = "idle"] \/ pc' = [pc EXCEPT ![c] = "put"]
    BY DEF PutRefused, PutSleeps, PutPushes
  <1>4. Hands' = Hands /\ Told' = Told \ {c}
    BY <1>1, <1>2, <1>3, ClientTold
  <1>5. CASE PutRefused(c, t, n)
    BY <1>4, <1>5, Refuses DEF PutRefused
  <1>6. CASE PutSleeps(c, t, n)
    BY <1>4, <1>6, GoesOn DEF PutSleeps
  <1>7. CASE PutPushes(c, t, n)
    BY <1>4, <1>7, Accepts DEF PutPushes
  <1>8. QED
    BY <1>5, <1>6, <1>7

LEMMA PopRefines ==
    ASSUME Structure, OnePlace, NEW w \in Workers, NEW n, pc[w] # "run", TakePops(w, n)
    PROVE  PoolStep
  <1>1. TypeOK /\ m_queue \in Seq(Tasks) /\ m_queue # << >>
    BY EmptySeq, LimitsAssumption DEF Structure, TypeOK, TakePops
  <1>2. 1 \in DOMAIN m_queue /\ m_queue[1] = Head(m_queue)
    BY <1>1, TailPlaces
  <1>3. fate[Head(m_queue)] = "given" /\ \A v \in Running : Head(m_queue) # arg[v]
    BY <1>2 DEF OnePlace, GivenAreHere, NoTaskTwice
  <1>4. Running' = Running \cup {w} /\ Running \subseteq Workers /\ w \notin Running
    BY <1>1, WorkerPlaces DEF TakePops, Running
  <1>5. arg'[w] = Head(m_queue) /\ \A v \in Running : arg'[v] = arg[v]
    BY <1>1, <1>4, WorkerArg DEF TakePops
  <1>6. Hands' = Hands \cup {Head(m_queue)} /\ Head(m_queue) \notin Hands
    BY <1>3, <1>4, <1>5 DEF Hands, WorkersAt, Running
  <1>7. Told' = Told
    BY <1>1, WorkerTold DEF TakePops
  <1>8. QED
    BY <1>1, <1>3, <1>6, <1>7, Begins DEF TakePops

LEMMA EndRefines ==
    ASSUME Structure, OnePlace, NEW w \in Workers, NEW how \in {"done", "failed"}, NEW q,
           q # "run", EndTask(w, how, q)
    PROVE  PoolStep
  <1>1. TypeOK /\ w \in Running /\ arg[w] \in Tasks
    BY DEF Structure, WorkerHasTask, EndTask, Running
  <1>2. Running' = Running \ {w} /\ Running \subseteq Workers
    BY <1>1, WorkerPlaces DEF EndTask, Running
  <1>3. \A v \in Running \ {w} : arg'[v] = arg[v] /\ arg[v] # arg[w]
    BY <1>1, <1>2, WorkerArg DEF EndTask, OnePlace, NoTaskTwice
  <1>4. arg[w] \in Hands /\ Hands' = Hands \ {arg[w]}
    BY <1>1, <1>2, <1>3 DEF Hands, WorkersAt, Running
  <1>5. Told' = Told
    BY <1>1, WorkerTold DEF EndTask
  <1>6. QED
    BY <1>1, <1>4, <1>5, Ends DEF EndTask

LEMMA PoolStepTaken ==
    ASSUME Structure, OnePlace, AbortsExplained, [Next]_vars
    PROVE  PoolStep
  <1>1. TypeOK /\ Main \in Clients
    BY ThreadsAssumption DEF Structure
  <1>2. CASE Start
    <2>1. Running = {} /\ Running' = {}
      BY <1>2 DEF Start, Structure, WorkersTogether, Running, Threads
    <2>2. Told' = Told
      BY <1>2, ThreadsDistinct DEF Start, Told, ClientsIn, Threads
    <2>3. QED
      BY <1>2, <2>1, <2>2, HandsStay, Stutters DEF Start
  <1>3. CASE CloseShop \/ (\E t \in Threads : SpuriousWake(t)) \/ UNCHANGED vars
    <2>1. UNCHANGED <<m_queue, fate, pc, arg>>
      BY <1>3 DEF CloseShop, SpuriousWake, vars
    <2>2. QED
      BY <2>1, Stutters DEF Hands, Told, WorkersAt, ClientsIn
  <1>4. ASSUME NEW n, TerminateSleeps(n) PROVE PoolStep
    BY <1>1, <1>4, ClientGoesOn DEF TerminateSleeps
  <1>5. ASSUME TerminateJoins, m_worker_threads # {}, \A c \in Clients \ {Main} : pc[c] = "gone"
        PROVE  PoolStep
    <2>1. Running = {} /\ Running' = {}
      BY <1>5, JoinedWorkersGone DEF TerminateJoins, Running, Threads
    <2>2. \A c \in Clients : pc'[c] = "gone"
      BY <1>5, ThreadsDistinct DEF TerminateJoins, Threads
    <2>3. Told' = Told \ {Main}
      BY <1>5, <2>2 DEF Told, ClientsIn
    <2>4. QED
      BY <1>1, <1>5, <2>1, <2>3, HandsStay, GoesOn DEF TerminateJoins
  <1>6. CASE Terminate
    BY <1>4, <1>5, <1>6 DEF Terminate
  <1>7. ASSUME NEW c \in Clients, ClientCalls(c) \/ ClientResumes(c) PROVE PoolStep
    <2>1. ASSUME NEW t \in Tasks, Put(c, t) PROVE PoolStep
      BY <1>1, <2>1, PutRefines DEF Put
    <2>2. CASE PutResumes(c)
      <3>1. arg[c] \in Tasks /\ fate[arg[c]] = "new"
        BY <2>2 DEF PutResumes, Structure, OnePlace, PuttersBringNew, Putting
      <3>2. QED
        BY <1>1, <2>2, <3>1, PutRefines DEF PutResumes
    <2>3. ASSUME NEW n, WaitIdleSleeps(c, n) PROVE PoolStep
      BY <1>1, <2>3, ClientGoesOn DEF WaitIdleSleeps
    <2>4. ASSUME NEW n, WaitIdleReturns(c, n), pc[c] \in {"idle", "drained", "waitIdle"}
          PROVE  PoolStep
      <3>1. Running = {} /\ (m_queue = << >> \/ Failed)
        BY <2>4, ReturnsWhenIdle
      <3>2. Hands = {}
        BY <3>1, RunningAtRun DEF Hands
      <3>3. Hands' = Hands /\ Told' = Told \cup {c}
        BY <1>1, <2>4, ClientTold DEF WaitIdleReturns
      <3>4. QED
        BY <2>4, <3>1, <3>2, <3>3, TellsIdle DEF WaitIdleReturns
    <2>5. CASE WaitIdle(c) \/ WaitIdleResumes(c)
      BY <2>3, <2>4, <2>5 DEF WaitIdle, WaitIdleResumes
    <2>6. CASE Leave(c)
      BY <1>1, <2>6, ClientGoesOn DEF Leave
    <2>7. CASE TerminateResumes
      BY <1>4, <1>5, <2>7 DEF TerminateResumes, Structure, OwnerTerminates
    <2>8. QED
      BY <1>7, <2>1, <2>2, <2>5, <2>6, <2>7 DEF ClientCalls, ClientResumes
  <1>8. ASSUME NEW w \in Workers, WorkerStep(w) PROVE PoolStep
    <2>1. ASSUME pc[w] # "run", NEW q, q # "run", pc' = [pc EXCEPT ![w] = q],
                 UNCHANGED <<m_queue, fate, arg>>
          PROVE  PoolStep
      <3>1. Running' = Running
        BY <1>1, <2>1, WorkerPlaces DEF Running
      <3>2. QED
        BY <1>1, <2>1, <3>1, HandsStay, WorkerTold, Stutters
    <2>2. ASSUME NEW n, pc[w] # "run", TakeLoop(w, n) PROVE PoolStep
      <3>1. CASE TakeFails(w, n)
        BY <2>1, <2>2, <3>1 DEF TakeFails
      <3>2. CASE TakeSleeps(w, n)
        BY <2>1, <2>2, <3>2 DEF TakeSleeps
      <3>3. CASE TakePops(w, n)
        BY <2>2, <3>3, PopRefines
      <3>4. QED
        BY <2>2, <3>1, <3>2, <3>3 DEF TakeLoop
    <2>3. CASE Take(w) \/ TakeResumes(w)
      BY <2>2, <2>3 DEF Take, TakeResumes
    <2>4. CASE TaskDone(w) \/ TaskFails(w)
      BY <2>4, EndRefines DEF TaskDone, TaskFails
    <2>5. CASE WorkerExit(w)
      BY <2>1, <2>5 DEF WorkerExit
    <2>6. QED
      BY <1>8, <2>3, <2>4, <2>5 DEF WorkerStep
  <1>9. QED
    BY <1>2, <1>3, <1>6, <1>7, <1>8 DEF Next

(* A user of WorkQueue may reason about TaskPool instead: accepted tasks   *)
(* begin once and in order, refused ones never, and a client that waited   *)
(* for the queue learns that it is idle only when it is.                   *)
THEOREM QueueIsPool == Spec => ImplementsPool
  <1>1. Init => Pool!PoolInit
    <2> SUFFICES ASSUME Init PROVE Pool!PoolInit
      OBVIOUS
    <2>1. Running = {} /\ Told = {}
      BY ThreadsDistinct DEF Init, Running, Told, ClientsIn, Threads
    <2>2. Hands = {}
      BY <2>1, RunningAtRun DEF Hands
    <2>3. QED
      BY <2>1, <2>2 DEF Init, Pool!PoolInit, Hands, Told
  <1>2. Structure /\ OnePlace /\ AbortsExplained /\ [Next]_vars
            => [Pool!PoolNext]_(Pool!poolVars)
    BY PoolStepTaken DEF PoolStep
  <1>3. QED
    BY <1>1, <1>2, StructureHolds, OnePlaceHolds, ExplainedHolds, PTL
       DEF Spec, ImplementsPool, Pool!PoolSpec
=============================================================================
