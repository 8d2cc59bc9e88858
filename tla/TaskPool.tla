------------------------------ MODULE TaskPool ------------------------------
(***************************************************************************)
(* What the indexer's stages rely on when they hand tasks to a work queue: *)
(* a task that was accepted is begun at most once, in the order of         *)
(* acceptance, and ends done or failed; a task that was not accepted is    *)
(* never begun; a client told that the pool is idle was told so at a       *)
(* moment when no task was being executed and, unless a task had failed,   *)
(* when none was waiting.  No threads, no mutex and no wake-ups: WorkQueue *)
(* implements this.                                                        *)
(***************************************************************************)
EXTENDS Sequences

CONSTANTS Tasks, Clients

VARIABLES
    waiting,    \* accepted tasks not begun, in the order of acceptance
    running,    \* the tasks being executed
    fate,       \* what became of each task
    told        \* the clients told that the pool is idle, until they go on

poolVars == <<waiting, running, fate, told>>

PoolInit ==
    /\ waiting = << >>
    /\ running = {}
    /\ fate = [t \in Tasks |-> "new"]
    /\ told = {}

Accept(c, t) ==
    /\ fate[t] = "new"
    /\ waiting' = Append(waiting, t)
    /\ fate' = [fate EXCEPT ![t] = "given"]
    /\ told' = told \ {c}
    /\ UNCHANGED running

Refuse(c, t) ==
    /\ fate[t] = "new"
    /\ fate' = [fate EXCEPT ![t] = "refused"]
    /\ told' = told \ {c}
    /\ UNCHANGED <<waiting, running>>

Begin ==
    /\ waiting # << >> /\ Head(waiting) \notin running
    /\ fate[Head(waiting)] = "given"
    /\ running' = running \cup {Head(waiting)}
    /\ waiting' = Tail(waiting)
    /\ UNCHANGED <<fate, told>>

End(t, how) ==
    /\ t \in running
    /\ running' = running \ {t}
    /\ fate' = [fate EXCEPT ![t] = how]
    /\ UNCHANGED <<waiting, told>>

Idle == running = {} /\ (waiting = << >> \/ \E t \in Tasks : fate[t] = "failed")

TellIdle(c) ==
    /\ Idle
    /\ told' = told \cup {c}
    /\ UNCHANGED <<waiting, running, fate>>

(* A client that was told goes on with something else than a task. *)
GoOn(c) ==
    /\ c \in told
    /\ told' = told \ {c}
    /\ UNCHANGED <<waiting, running, fate>>

PoolNext ==
    \/ \E c \in Clients, t \in Tasks : Accept(c, t) \/ Refuse(c, t)
    \/ Begin
    \/ \E t \in Tasks : End(t, "done") \/ End(t, "failed")
    \/ \E c \in Clients : TellIdle(c) \/ GoOn(c)

PoolSpec == PoolInit /\ [][PoolNext]_poolVars
=============================================================================
