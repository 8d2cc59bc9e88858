------------------------- MODULE IndexerLock_proofs -------------------------
(***************************************************************************)
(* The indexing processes of a configuration exclude each other, and the   *)
(* number in the lock file is that of the process which has the index      *)
(* open, for every set of processes and however often each of them, the    *)
(* interface and recollindex --stop take the lock.                         *)
(***************************************************************************)
EXTENDS IndexerLock, FiniteSetTheorems, TLAPS

USE DEF Asker, Idle, Gone, GuiPid, Ended

-----------------------------------------------------------------------------
(* The inductive invariant.                                                *)

(* From the lock to the end of the process or the next exec.               *)
Holding == {"truncate", "write", "locked", "truncate2", "write2", "ready", "pass", "reexec",
            "monitor", "loop"}
Written == {"locked", "ready", "pass", "reexec", "monitor", "loop"}

LockKept ==
    /\ \A p \in Proc : pr[p].pc \in Holding => lock = p
    /\ \A a \in Asker : ask[a].pc \in {"truncate", "close", "write"} => lock = a
TextKept == \A p \in Proc : pr[p].pc \in Written => text = pr[p].pid

IInv == TypeOK /\ LockKept /\ TextKept

-----------------------------------------------------------------------------
(* Lemmas.                                                                 *)

(* A free number is one of nobody.                                         *)
LEMMA FreeNumber ==
    ASSUME NEW n \in Number, Free(n)
    PROVE  n \in Nat /\ n # 0 /\ n # GuiPid /\ \A p \in Proc : n # pr[p].pid
<1>1. Cardinality(Proc) \in Nat  BY FS_CardinalityType, LockAssumption
<1> QED  BY <1>1 DEF Number, Free, Known

(* Records with two new fields.                                            *)
WithSkip(r, s) == [r EXCEPT !.pc = "reexec", !.skip = s]
WithPid(r, n) == [r EXCEPT !.pc = "truncate2", !.pid = n]

LEMMA NewSkip ==
    ASSUME NEW r \in Process, NEW s \in BOOLEAN
    PROVE  /\ WithSkip(r, s) \in Process
           /\ WithSkip(r, s).pc = "reexec" /\ WithSkip(r, s).pid = r.pid
           /\ WithSkip(r, s).kind = r.kind /\ WithSkip(r, s).skip = s
BY DEF Process, Places, WithSkip

LEMMA NewPid ==
    ASSUME NEW r \in Process, NEW n \in Nat
    PROVE  /\ WithPid(r, n) \in Process
           /\ WithPid(r, n).pc = "truncate2" /\ WithPid(r, n).pid = n
           /\ WithPid(r, n).kind = r.kind /\ WithPid(r, n).skip = r.skip
BY DEF Process, Places, WithPid

(* One process changes, the others stay.                                   *)
LEMMA OneChanges ==
    ASSUME Processes, NEW p \in Proc, NEW r \in Process,
           pr' = [pr EXCEPT ![p] = r],
           r.kind = "batch" => ~r.skip,
           r.pc \notin {"none"} \cup Ended <=> r.pid # 0,
           r.pid = pr[p].pid \/ (r.pid # GuiPid /\ \A q \in Proc : r.pid # pr[q].pid) \/ r.pid = 0
    PROVE  Processes'
<1>1. pr' \in [Proc -> Process] /\ pr'[p] = r /\ \A q \in Proc \ {p} : pr'[q] = pr[q]
  BY DEF Processes
<1>2. \A q \in Proc : /\ pr'[q].kind = "batch" => ~pr'[q].skip
                      /\ Alive(q)' <=> pr'[q].pid # 0
                      /\ pr'[q].pid # GuiPid
  BY <1>1 DEF Processes, Alive
<1>3. ASSUME NEW q1 \in Proc, NEW q2 \in Proc, pr'[q1].pid = pr'[q2].pid, Alive(q1)'
      PROVE  q1 = q2
  BY <1>1, <1>2, <1>3 DEF Processes, Alive
<1> QED  BY <1>1, <1>2, <1>3 DEF Processes

(* A process that only moves, or ends.                                     *)
LEMMA Moves ==
    ASSUME Processes, NEW p \in Proc, NEW from, NEW to \in Places \ ({"none"} \cup Ended),
           from \notin {"none"} \cup Ended, Goes(p, from, to)
    PROVE  Processes'
<1> DEFINE r == [pr[p] EXCEPT !.pc = to]
<1>1. pr' = [pr EXCEPT ![p] = r] /\ pr[p].pc = from  BY DEF Goes, Processes
<1>2. r \in Process /\ r.pc = to /\ r.pid = pr[p].pid /\ r.kind = pr[p].kind /\ r.skip = pr[p].skip
  BY DEF Processes, Process
<1>3. pr[p].pid # 0 /\ (pr[p].kind = "batch" => ~pr[p].skip)  BY <1>1 DEF Processes, Alive
<1> HIDE DEF r
<1> QED  BY <1>1, <1>2, <1>3, OneChanges

LEMMA Leaves ==
    ASSUME Processes, NEW p \in Proc, NEW how \in Ended, pr' = [pr EXCEPT ![p] = Out(how)]
    PROVE  Processes'
<1>1. /\ Out(how) \in Process /\ Out(how).pid = 0 /\ Out(how).kind = "batch"
      /\ Out(how).skip = FALSE /\ Out(how).pc = how
  BY DEF Out, Process, Places
<1> QED  BY <1>1, OneChanges

(* What an indexer must observe for the lock and the number to stay right. *)
LEMMA ProcessStep ==
    ASSUME IInv, NEW p \in Proc, NEW r \in Process, pr' = [pr EXCEPT ![p] = r],
           ask' = ask,
           lock' = lock \/ (lock = p /\ lock' = NoOne) \/ (lock = NoOne /\ lock' = p),
           text' = text \/ lock = p,
           r.pc \in Holding => lock' = p,
           r.pc \in Written => text' = r.pid
    PROVE  LockKept' /\ TextKept'
<1>1. pr'[p] = r /\ \A q \in Proc \ {p} : pr'[q] = pr[q]
  BY DEF IInv, TypeOK, Processes
<1>2. ASSUME NEW q \in Proc, pr'[q].pc \in Holding  PROVE lock' = q
  <2>1. CASE q = p  BY <1>1, <1>2, <2>1
  <2>2. CASE q # p  BY <1>1, <1>2, <2>2, LockAssumption DEF IInv, LockKept
  <2> QED  BY <2>1, <2>2
<1>3. \A a \in Asker : ask'[a].pc \in {"truncate", "close", "write"} => lock' = a
  BY LockAssumption DEF IInv, LockKept
<1>4. ASSUME NEW q \in Proc, pr'[q].pc \in Written  PROVE text' = pr'[q].pid
  <2>1. CASE q = p  BY <1>1, <1>4, <2>1
  <2>2. CASE q # p
    <3>1. pr[q].pc \in Written /\ lock = q
      BY <1>1, <1>4, <2>2 DEF IInv, LockKept, Written, Holding
    <3> QED  BY <1>1, <2>2, <3>1 DEF IInv, TextKept
  <2> QED  BY <2>1, <2>2
<1> QED  BY <1>2, <1>3, <1>4 DEF LockKept, TextKept

(* The same for a request: every process stays in its place, or ends, or   *)
(* is told to stop.                                                        *)
LEMMA AskerStep ==
    ASSUME IInv,
           \A p \in Proc : pr'[p].pc \in Holding => pr[p].pc = pr'[p].pc /\ pr[p].pid = pr'[p].pid,
           \/ lock' = lock
           \/ lock \notin Proc /\ \A a \in Asker : ask'[a].pc \in {"truncate", "close", "write"} => lock' = a,
           \A a \in Asker : ask'[a].pc \in {"truncate", "close", "write"} => lock' = a,
           text' = text \/ lock \notin Proc
    PROVE  LockKept' /\ TextKept'
<1>1. \A p \in Proc : pr'[p].pc \in Holding => lock = p /\ lock' = p
  BY DEF IInv, LockKept
<1>2. Written \subseteq Holding  BY DEF Written, Holding
<1>3. \A p \in Proc : pr'[p].pc \in Written => text' = pr'[p].pid
  BY <1>1, <1>2 DEF IInv, TextKept
<1> QED  BY <1>1, <1>3 DEF LockKept, TextKept

(* Processes that are signalled or find the configuration changed.         *)
LEMMA SignalKeeps ==
    ASSUME Processes, NEW procs \in SUBSET Proc, Signal(procs)
    PROVE  /\ Processes'
           /\ \A p \in Proc : pr'[p].pc \in Holding => pr[p].pc = pr'[p].pc /\ pr[p].pid = pr'[p].pid
<1>1. \A p \in Proc : /\ pr'[p] \in Process
                      /\ pr'[p] = Out("gone") \/ (/\ pr'[p].pc = pr[p].pc /\ pr'[p].pid = pr[p].pid
                                                  /\ pr'[p].kind = pr[p].kind /\ pr'[p].skip = pr[p].skip)
  BY DEF Processes, Process, Signal, Signalled, Out, Places
<1>2. Out("gone").pc = "gone" /\ Out("gone").pid = 0 /\ Out("gone").skip = FALSE  BY DEF Out
<1>3. pr' \in [Proc -> Process]  BY <1>1 DEF Signal
<1>4. \A p \in Proc : /\ pr'[p].kind = "batch" => ~pr'[p].skip
                      /\ Alive(p)' <=> pr'[p].pid # 0
                      /\ pr'[p].pid # GuiPid
  BY <1>1, <1>2 DEF Processes, Alive
<1>5. ASSUME NEW q1 \in Proc, NEW q2 \in Proc, pr'[q1].pid = pr'[q2].pid, Alive(q1)'
      PROVE  q1 = q2
  BY <1>1, <1>2, <1>4, <1>5 DEF Processes, Alive
<1>6. \A p \in Proc : pr'[p].pc \in Holding => pr[p].pc = pr'[p].pc /\ pr[p].pid = pr'[p].pid
  BY <1>1, <1>2 DEF Holding
<1> QED  BY <1>3, <1>4, <1>5, <1>6 DEF Processes

LEMMA TouchedKeeps ==
    ASSUME Processes
    PROVE  /\ Touched \in [Proc -> Process]
           /\ \A p \in Proc : /\ Touched[p].pc = pr[p].pc /\ Touched[p].pid = pr[p].pid
                              /\ Touched[p].kind = pr[p].kind /\ Touched[p].skip = pr[p].skip
BY DEF Touched, Processes, Process

LEMMA TouchKeeps ==
    ASSUME Processes, pr' = Touched
    PROVE  Processes'
<1>1. /\ pr' \in [Proc -> Process]
      /\ \A p \in Proc : /\ pr'[p].pc = pr[p].pc /\ pr'[p].pid = pr[p].pid
                         /\ pr'[p].kind = pr[p].kind /\ pr'[p].skip = pr[p].skip
  BY TouchedKeeps
<1> QED  BY <1>1 DEF Processes, Alive

-----------------------------------------------------------------------------
(* The forms of step of an indexer.                                        *)

LEMMA GoesKeeps ==
    ASSUME IInv, NEW p \in Proc, NEW from, NEW to \in Places \ ({"none"} \cup Ended),
           from \notin {"none"} \cup Ended, Goes(p, from, to), ask' = ask,
           lock' = lock \/ (lock = p /\ lock' = NoOne) \/ (lock = NoOne /\ lock' = p),
           text' = text \/ lock = p,
           to \in Holding => lock' = p,
           to \in Written => text' = pr[p].pid
    PROVE  Processes' /\ LockKept' /\ TextKept'
<1> DEFINE r == [pr[p] EXCEPT !.pc = to]
<1>1. pr' = [pr EXCEPT ![p] = r]  BY DEF Goes, IInv, TypeOK, Processes
<1>2. r \in Process /\ r.pc = to /\ r.pid = pr[p].pid
  BY DEF IInv, TypeOK, Processes, Process
<1> HIDE DEF r
<1>3. LockKept' /\ TextKept'  BY <1>1, <1>2, ProcessStep
<1>4. Processes'  BY Moves DEF IInv, TypeOK
<1> QED  BY <1>3, <1>4

LEMMA EndsKeeps ==
    ASSUME IInv, NEW p \in Proc, NEW from, NEW how \in Ended, Ends(p, from, how),
           UNCHANGED <<text, ask>>
    PROVE  Processes' /\ LockKept' /\ TextKept' /\ lock' \in Holder
<1>1. pr' = [pr EXCEPT ![p] = Out(how)] /\ lock' = Released(p)  BY DEF Ends
<1>2. Out(how) \in Process /\ Out(how).pc \notin Holding \cup Written
  BY DEF Out, Process, Places, Holding, Written
<1>3. Processes'  BY <1>1, Leaves DEF IInv, TypeOK
<1>4. LockKept' /\ TextKept'  BY <1>1, <1>2, ProcessStep DEF Released
<1> QED  BY <1>1, <1>3, <1>4 DEF Released, IInv, TypeOK, Holder

LEMMA ReexecsKeeps ==
    ASSUME IInv, NEW p \in Proc, NEW from \in {"pass", "loop"}, NEW s \in BOOLEAN,
           s => pr[p].kind = "monitor", Reexecs(p, from, s), UNCHANGED <<text, ask>>
    PROVE  Processes' /\ LockKept' /\ TextKept'
<1> DEFINE r == WithSkip(pr[p], s)
<1>1. pr' = [pr EXCEPT ![p] = r] /\ pr[p].pc = from /\ lock' = lock
  BY DEF Reexecs, IInv, TypeOK, Processes, WithSkip
<1>2. /\ r \in Process /\ r.pc = "reexec" /\ r.pid = pr[p].pid
      /\ r.kind = pr[p].kind /\ r.skip = s
  <2>1. pr[p] \in Process  BY DEF IInv, TypeOK, Processes
  <2> QED  BY <2>1, NewSkip
<1>3. pr[p].pid # 0 /\ lock = p /\ text = pr[p].pid
  BY <1>1 DEF IInv, TypeOK, Processes, Alive, LockKept, TextKept, Holding, Written
<1>4. r.kind = "batch" => ~r.skip  BY <1>2 DEF IInv, TypeOK, Processes, Process
<1> HIDE DEF r
<1>5. Processes'  BY <1>1, <1>2, <1>3, <1>4, OneChanges DEF IInv, TypeOK
<1>6. LockKept' /\ TextKept'  BY <1>1, <1>2, <1>3, ProcessStep
<1> QED  BY <1>5, <1>6

(* A process that starts, or has a new number.                             *)
LEMMA StartedKeeps ==
    ASSUME IInv, NEW p \in Proc, NEW k \in {"batch", "monitor"}, NEW s \in BOOLEAN,
           NEW n \in Number, k = "batch" => ~s, Started(p, k, s, n), UNCHANGED <<files, ask>>
    PROVE  Processes' /\ LockKept' /\ TextKept'
<1> DEFINE r == [pc |-> "exec", kind |-> k, pid |-> n, skip |-> s, last |-> s,
                 stop |-> FALSE, stale |-> FALSE]
<1>1. pr' = [pr EXCEPT ![p] = r] /\ lock' = lock /\ text' = text
  BY DEF Started, files
<1>2. n \in Nat /\ n # 0 /\ n # GuiPid /\ \A q \in Proc : n # pr[q].pid
  BY FreeNumber DEF Started
<1>3. /\ r \in Process /\ r.pc = "exec" /\ r.pid = n /\ r.kind = k /\ r.skip = s
  BY <1>2 DEF Process, Places
<1>4. r.pc \notin Holding \cup Written  BY <1>3 DEF Holding, Written
<1> HIDE DEF r
<1>5. Processes'  BY <1>1, <1>2, <1>3, OneChanges DEF IInv, TypeOK
<1>6. LockKept' /\ TextKept'  BY <1>1, <1>3, <1>4, ProcessStep
<1> QED  BY <1>5, <1>6

LEMMA RenumberedKeeps ==
    ASSUME IInv, NEW p \in Proc, pr[p].pc = "locked", Renumbered(p, "truncate2"),
           UNCHANGED <<files, ask>>
    PROVE  Processes' /\ LockKept' /\ TextKept'
<1>1. PICK n \in Number : Free(n) /\ pr' = [pr EXCEPT ![p].pc = "truncate2", ![p].pid = n]
  BY DEF Renumbered
<1> DEFINE r == WithPid(pr[p], n)
<1>2. pr' = [pr EXCEPT ![p] = r] /\ lock' = lock /\ text' = text
  BY <1>1 DEF files, IInv, TypeOK, Processes, WithPid
<1>3. n \in Nat /\ n # 0 /\ n # GuiPid /\ \A q \in Proc : n # pr[q].pid
  BY <1>1, FreeNumber
<1>4. /\ r \in Process /\ r.pc = "truncate2" /\ r.pid = n
      /\ r.kind = pr[p].kind /\ r.skip = pr[p].skip
  <2>1. pr[p] \in Process  BY DEF IInv, TypeOK, Processes
  <2> QED  BY <1>3, <2>1, NewPid
<1>5. lock = p /\ (r.kind = "batch" => ~r.skip)
  BY <1>4 DEF IInv, TypeOK, Processes, LockKept, Holding
<1>6. r.pc \notin Written  BY <1>4 DEF Written
<1> HIDE DEF r
<1>7. Processes'  BY <1>2, <1>3, <1>4, <1>5, OneChanges DEF IInv, TypeOK
<1>8. LockKept' /\ TextKept'  BY <1>2, <1>4, <1>5, <1>6, ProcessStep
<1> QED  BY <1>7, <1>8

-----------------------------------------------------------------------------
(* The steps.                                                              *)

USE DEF files, gui, history, Holding, Written

LEMMA StepKeeps ==
    ASSUME IInv, NEW p \in Proc, Step(p)
    PROVE  IInv'
<1> USE DEF Places
<1>t. TypeOK /\ Processes  BY DEF IInv, TypeOK
<1>m. /\ pr[p].pc \in Holding => lock = p
      /\ pr[p].pc \in Written => text = pr[p].pid
      /\ pr[p].pid \in Nat
  BY DEF IInv, LockKept, TextKept, TypeOK, Processes, Process
<1>h. p \in Holder /\ NoOne \in Holder  BY DEF Holder
<1>1. CASE Main(p)
  <2> DEFINE r == [pr[p] EXCEPT !.pc = "lock", !.stale = FALSE]
  <2>1. pr' = [pr EXCEPT ![p] = r] /\ pr[p].pc = "exec"  BY <1>1, <1>t DEF Main, Processes
  <2>2. /\ r \in Process /\ r.pc = "lock" /\ r.pid = pr[p].pid
        /\ r.kind = pr[p].kind /\ r.skip = pr[p].skip
    BY <1>t DEF Processes, Process
  <2>3. pr[p].pid # 0 /\ (pr[p].kind = "batch" => ~pr[p].skip)
    BY <2>1, <1>t DEF Processes, Alive
  <2> HIDE DEF r
  <2>4. Processes'  BY <2>1, <2>2, <2>3, <1>t, OneChanges
  <2>5. LockKept' /\ TextKept'  BY <2>1, <2>2, <1>1, ProcessStep DEF Main
  <2> QED  BY <2>4, <2>5, <1>1, <1>t DEF Main, IInv, TypeOK
<1>2. CASE TryLock(p)
  <2>1. PICK to \in {"truncate", "refused", "probed"} :
          /\ Goes(p, "lock", to)
          /\ to = "truncate" => lock = NoOne /\ lock' = p
          /\ to # "truncate" => lock' = lock
    BY <1>2 DEF TryLock
  <2>2. UNCHANGED <<text, ask>>  BY <1>2 DEF TryLock
  <2>3. Processes' /\ LockKept' /\ TextKept'
    BY <2>1, <2>2, GoesKeeps
  <2>4. lock' \in Holder  BY <2>1, <1>t, <1>h DEF TypeOK
  <2> QED  BY <2>3, <2>4, <1>2, <1>t DEF TryLock, IInv, TypeOK
<1>3. CASE Refused(p)
  <2>1. CASE pr' = [pr EXCEPT ![p] = Out("gone")] \/ pr' = [pr EXCEPT ![p] = Out("lost")]
    <3>1. PICK how \in Ended : pr' = [pr EXCEPT ![p] = Out(how)]  BY <2>1
    <3>2. Out(how) \in Process /\ Out(how).pc \notin Holding \cup Written
      BY DEF Out, Process
    <3>3. Processes'  BY <3>1, <1>t, Leaves
    <3>4. LockKept' /\ TextKept'  BY <3>1, <3>2, <1>3, ProcessStep DEF Refused
    <3> QED  BY <3>3, <3>4, <1>3, <1>t DEF Refused, IInv, TypeOK
  <2>2. CASE pr' = [Touched EXCEPT ![p] = Out("gone")] /\ owed' = TRUE
    <3>1. Out("gone") \in Process /\ Out("gone").pc = "gone" /\ Out("gone").pid = 0
          /\ Out("gone").kind = "batch" /\ Out("gone").skip = FALSE
      BY DEF Out, Process
    <3>2. /\ Touched \in [Proc -> Process]
          /\ \A q \in Proc : /\ Touched[q].pc = pr[q].pc /\ Touched[q].pid = pr[q].pid
                             /\ Touched[q].kind = pr[q].kind /\ Touched[q].skip = pr[q].skip
      BY <1>t, TouchedKeeps
    <3>3. /\ pr' \in [Proc -> Process] /\ pr'[p] = Out("gone")
          /\ \A q \in Proc \ {p} : /\ pr'[q].pc = pr[q].pc /\ pr'[q].pid = pr[q].pid
                                   /\ pr'[q].kind = pr[q].kind /\ pr'[q].skip = pr[q].skip
      <4> HIDE DEF Touched
      <4> QED  BY <2>2, <3>1, <3>2
    <3>4. Processes'  BY <3>1, <3>3, <1>t DEF Processes, Alive
    <3>5. \A q \in Proc : pr'[q].pc \in Holding => pr[q].pc = pr'[q].pc /\ pr[q].pid = pr'[q].pid
      BY <3>1, <3>3
    <3>6. LockKept' /\ TextKept'
      BY <3>5, <1>3, AskerStep DEF Refused, IInv, LockKept
    <3> QED  BY <3>4, <3>6, <2>2, <1>3, <1>t DEF Refused, IInv, TypeOK
  <2> QED  BY <2>1, <2>2, <1>3 DEF Refused
<1>4. CASE Truncate(p)
  <2>1. PICK from \in {"truncate", "truncate2"}, to \in {"write", "write2"} : Goes(p, from, to)
    BY <1>4 DEF Truncate
  <2>2. lock' = lock /\ ask' = ask /\ lock = p /\ text' = 0
    BY <1>4, <2>1, <1>m DEF Truncate, Goes
  <2>3. Processes' /\ LockKept' /\ TextKept'  BY <2>1, <2>2, GoesKeeps
  <2> QED  BY <2>2, <2>3, <1>4, <1>t DEF Truncate, IInv, TypeOK
<1>5. CASE WritePid(p)
  <2>1. PICK from \in {"write", "write2"}, to \in {"locked", "ready"} : Goes(p, from, to)
    BY <1>5 DEF WritePid
  <2>2. lock' = lock /\ ask' = ask /\ lock = p /\ text' = pr[p].pid
    BY <1>5, <2>1, <1>m DEF WritePid, Goes
  <2>3. Processes' /\ LockKept' /\ TextKept'  BY <2>1, <2>2, GoesKeeps
  <2> QED  BY <2>2, <2>3, <1>5, <1>t, <1>m DEF WritePid, IInv, TypeOK
<1>6. CASE Daemon(p)
  <2>1. CASE Goes(p, "locked", "ready")
    <3>1. Processes' /\ LockKept' /\ TextKept'
      BY <2>1, <1>6, <1>m, GoesKeeps DEF Daemon, Goes
    <3> QED  BY <3>1, <1>6, <1>t DEF Daemon, IInv, TypeOK
  <2>2. CASE Renumbered(p, "truncate2")
    <3>1. Processes' /\ LockKept' /\ TextKept'
      BY <2>2, <1>6, RenumberedKeeps DEF Daemon
    <3> QED  BY <3>1, <1>6, <1>t DEF Daemon, IInv, TypeOK
  <2> QED  BY <2>1, <2>2, <1>6 DEF Daemon
<1>7. CASE BeginPass(p)
  <2>1. Goes(p, "ready", "pass") /\ lock' = lock /\ text' = text /\ ask' = ask
        /\ lock = p /\ text = pr[p].pid
    BY <1>7, <1>m DEF BeginPass, Goes
  <2>2. Processes' /\ LockKept' /\ TextKept'  BY <2>1, GoesKeeps
  <2> QED  BY <2>2, <1>7, <1>t DEF BeginPass, IInv, TypeOK
<1>8. CASE EndPass(p)
  <2>1. CASE Ends(p, "pass", "gone")
    <3>1. Processes' /\ LockKept' /\ TextKept' /\ lock' \in Holder
      BY <2>1, <1>8, EndsKeeps DEF EndPass
    <3> QED  BY <3>1, <1>8, <1>t DEF EndPass, IInv, TypeOK
  <2>2. CASE pr[p].kind = "monitor" /\ Reexecs(p, "pass", TRUE)
    <3>1. Processes' /\ LockKept' /\ TextKept'
      BY <2>2, <1>8, ReexecsKeeps DEF EndPass
    <3> QED  BY <3>1, <2>2, <1>8, <1>t DEF EndPass, Reexecs, IInv, TypeOK
  <2> QED  BY <2>1, <2>2, <1>8 DEF EndPass
<1>9. CASE CloseAll(p)
  <2>1. /\ Goes(p, "reexec", "closed") /\ lock = p /\ lock' = NoOne
        /\ text' = text /\ ask' = ask
    BY <1>9, <1>m DEF CloseAll, Goes, Released
  <2>2. Processes' /\ LockKept' /\ TextKept'  BY <2>1, GoesKeeps
  <2> QED  BY <2>1, <2>2, <1>9, <1>t, <1>h DEF CloseAll, IInv, TypeOK
<1>10. CASE Execvp(p)
  <2> DEFINE r == [pr[p] EXCEPT !.pc = "exec", !.stop = FALSE]
  <2>1. pr' = [pr EXCEPT ![p] = r] /\ pr[p].pc = "closed"  BY <1>10, <1>t DEF Execvp, Processes
  <2>2. /\ r \in Process /\ r.pc = "exec" /\ r.pid = pr[p].pid
        /\ r.kind = pr[p].kind /\ r.skip = pr[p].skip
    BY <1>t DEF Processes, Process
  <2>3. pr[p].pid # 0 /\ (pr[p].kind = "batch" => ~pr[p].skip)
    BY <2>1, <1>t DEF Processes, Alive
  <2> HIDE DEF r
  <2>4. Processes'  BY <2>1, <2>2, <2>3, <1>t, OneChanges
  <2>5. LockKept' /\ TextKept'  BY <2>1, <2>2, <1>10, ProcessStep DEF Execvp
  <2> QED  BY <2>4, <2>5, <1>10, <1>t DEF Execvp, IInv, TypeOK
<1>11. CASE BeginMonitor(p)
  <2>1. Goes(p, "ready", "monitor") /\ lock' = lock /\ text' = text /\ ask' = ask
        /\ lock = p /\ text = pr[p].pid
    BY <1>11, <1>m DEF BeginMonitor, Goes
  <2>2. Processes' /\ LockKept' /\ TextKept'  BY <2>1, GoesKeeps
  <2> QED  BY <2>2, <1>11, <1>t DEF BeginMonitor, IInv, TypeOK
<1>12. CASE MonitorOk(p)
  <2>1. CASE Ends(p, "monitor", "gone")
    <3>1. Processes' /\ LockKept' /\ TextKept' /\ lock' \in Holder
      BY <2>1, <1>12, EndsKeeps DEF MonitorOk
    <3> QED  BY <3>1, <1>12, <1>t DEF MonitorOk, IInv, TypeOK
  <2>2. CASE Goes(p, "monitor", "loop") /\ lock' = lock
    <3>1. text' = text /\ ask' = ask /\ lock = p /\ text = pr[p].pid
      BY <2>2, <1>12, <1>m DEF MonitorOk, Goes
    <3>2. Processes' /\ LockKept' /\ TextKept'  BY <2>2, <3>1, GoesKeeps
    <3> QED  BY <3>2, <2>2, <1>12, <1>t DEF MonitorOk, IInv, TypeOK
  <2> QED  BY <2>1, <2>2, <1>12 DEF MonitorOk
<1>13. CASE TurnEnds(p)
  <2>1. ASSUME NEW how \in Ended, Ends(p, "loop", how)  PROVE IInv'
    <3>1. Processes' /\ LockKept' /\ TextKept' /\ lock' \in Holder
      BY <2>1, <1>13, EndsKeeps DEF TurnEnds
    <3> QED  BY <3>1, <1>13, <1>t DEF TurnEnds, IInv, TypeOK
  <2>2. CASE Reexecs(p, "loop", FALSE)
    <3>1. Processes' /\ LockKept' /\ TextKept'
      BY <2>2, <1>13, ReexecsKeeps DEF TurnEnds
    <3> QED  BY <3>1, <2>2, <1>13, <1>t DEF TurnEnds, Reexecs, IInv, TypeOK
  <2>3. CASE Goes(p, "loop", "monitor") /\ lock' = lock
    <3>1. text' = text /\ ask' = ask /\ lock = p /\ text = pr[p].pid
      BY <2>3, <1>13, <1>m DEF TurnEnds, Goes
    <3>2. Processes' /\ LockKept' /\ TextKept'  BY <2>3, <3>1, GoesKeeps
    <3> QED  BY <3>2, <2>3, <1>13, <1>t DEF TurnEnds, IInv, TypeOK
  <2> QED  BY <2>1, <2>2, <2>3, <1>13 DEF TurnEnds
<1> QED
  BY <1>1, <1>2, <1>3, <1>4, <1>5, <1>6, <1>7, <1>8, <1>9, <1>10, <1>11, <1>12, <1>13 DEF Step

LEMMA KilledKeeps ==
    ASSUME IInv, NEW a \in Asker, NEW n \in Nat, Killed(a, n),
           ask[a].pc \notin {"truncate", "close", "write"}, text' = text
    PROVE  /\ Processes' /\ LockKept' /\ TextKept'
           /\ lock' \in Holder /\ ask' \in [Asker -> Request] /\ struck' \subseteq {"gui", "everyone"}
<1>t. TypeOK /\ Processes  BY DEF IInv, TypeOK
<1>1. Signal(Numbered(n)) /\ Numbered(n) \in SUBSET Proc  BY DEF Killed, Numbered
<1>2. /\ Processes'
      /\ \A p \in Proc : pr'[p].pc \in Holding => pr[p].pc = pr'[p].pc /\ pr[p].pid = pr'[p].pid
  BY <1>1, <1>t, SignalKeeps
<1>3. Idle \in Request /\ Gone \in Request  BY DEF Request
<1>4. CASE HitGui /\ ask' = [ask EXCEPT ![a] = Idle, ![Gui] = Gone]
  <2>1. ask' \in [Asker -> Request] /\ ask'[Gui] = Gone /\ (a # Gui => ask'[a] = Idle)
        /\ \A b \in Asker \ {a, Gui} : ask'[b] = ask[b]
    BY <1>4, <1>3, <1>t DEF TypeOK
  <2>2. lock' = lock \/ (lock \in {Gui, Editor} /\ lock' = NoOne)  BY <1>4 DEF HitGui
  <2>3. lock \in {Gui, Editor} => lock \notin Proc  BY LockAssumption
  <2>4. \A b \in Asker : ask'[b].pc \in {"truncate", "close", "write"} => lock' = b
    BY <2>1, <2>2, LockAssumption DEF IInv, LockKept
  <2>5. LockKept' /\ TextKept'  BY <1>2, <2>2, <2>3, <2>4, AskerStep
  <2>6. lock' \in Holder  BY <2>2, <1>t DEF Holder, TypeOK
  <2> QED  BY <1>2, <1>4, <2>1, <2>5, <2>6, <1>t DEF HitGui, TypeOK
<1>5. CASE lock' = lock /\ struck' = struck /\ ask' = [ask EXCEPT ![a] = Idle]
  <2>1. ask' \in [Asker -> Request] /\ ask'[a] = Idle /\ \A b \in Asker \ {a} : ask'[b] = ask[b]
    BY <1>5, <1>3, <1>t DEF TypeOK
  <2>2. \A b \in Asker : ask'[b].pc \in {"truncate", "close", "write"} => lock' = b
    BY <2>1, <1>5 DEF IInv, LockKept
  <2>3. LockKept' /\ TextKept'  BY <1>2, <1>5, <2>2, AskerStep
  <2> QED  BY <1>2, <1>5, <2>1, <2>3, <1>t DEF TypeOK
<1> QED  BY <1>4, <1>5 DEF Killed

LEMMA OpenKeeps ==
    ASSUME IInv, NEW a \in Asker, NEW w \in {"state", "stop", "autostart", "editor"}, Open(a, w)
    PROVE  /\ Processes' /\ LockKept' /\ TextKept'
           /\ lock' \in Holder /\ ask' \in [Asker -> Request]
<1>t. TypeOK /\ Processes  BY DEF IInv, TypeOK
<1>1. PICK x \in {"truncate", "read"} :
        /\ Busy(a, x, w)
        /\ x = "truncate" => lock = NoOne /\ lock' = a
        /\ x = "read" => lock' = lock
  BY DEF Open
<1>2. pr' = pr /\ text' = text  BY DEF Open
<1>3. ask' \in [Asker -> Request] /\ ask'[a].pc = x /\ \A b \in Asker \ {a} : ask'[b] = ask[b]
  BY <1>1, <1>t DEF Busy, TypeOK, Request, Open
<1>4. \A b \in Asker : ask'[b].pc \in {"truncate", "close", "write"} => lock' = b
  BY <1>1, <1>3, LockAssumption DEF IInv, LockKept, Open
<1>5. lock' = lock \/ lock \notin Proc  BY <1>1, LockAssumption
<1>6. LockKept' /\ TextKept'  BY <1>2, <1>4, <1>5, AskerStep
<1>7. Processes'  BY <1>2, <1>t DEF Processes, Alive
<1>8. lock' \in Holder  BY <1>1, <1>t DEF Holder, TypeOK
<1> QED  BY <1>3, <1>6, <1>7, <1>8

(* A request that only changes its own record.                             *)
LEMMA AskKeeps ==
    ASSUME IInv, NEW a \in Asker, NEW r \in Request, ask' = [ask EXCEPT ![a] = r],
           UNCHANGED <<pr, files>>, r.pc \notin {"truncate", "close", "write"}
    PROVE  Processes' /\ LockKept' /\ TextKept' /\ ask' \in [Asker -> Request]
<1>t. TypeOK /\ Processes  BY DEF IInv, TypeOK
<1>1. ask' \in [Asker -> Request] /\ ask'[a] = r /\ \A b \in Asker \ {a} : ask'[b] = ask[b]
  BY <1>t DEF TypeOK
<1>2. \A b \in Asker : ask'[b].pc \in {"truncate", "close", "write"} => lock' = b
  BY <1>1 DEF IInv, LockKept
<1>3. LockKept' /\ TextKept'  BY <1>2, AskerStep
<1> QED  BY <1>1, <1>3, <1>t DEF Processes, Alive

LEMMA AskingKeeps ==
    ASSUME IInv, NEW a \in Asker, Asking(a)
    PROVE  IInv'
<1>t. TypeOK /\ Processes  BY DEF IInv, TypeOK
<1>p. pr' = pr => Processes'  BY <1>t DEF Processes, Alive
<1>i. Idle \in Request  BY DEF Request
<1>1. CASE AskerTruncates(a)
  <2>1. PICK x \in {"write", "close"} : Busy(a, x, ask[a].why)
    BY <1>1 DEF AskerTruncates
  <2>2. ask' \in [Asker -> Request] /\ ask'[a].pc = x /\ \A b \in Asker \ {a} : ask'[b] = ask[b]
    BY <2>1, <1>t DEF Busy, TypeOK, Request
  <2>3. lock = a /\ lock' = lock /\ pr' = pr /\ text' = 0
    BY <1>1 DEF AskerTruncates, IInv, LockKept
  <2>4. \A b \in Asker : ask'[b].pc \in {"truncate", "close", "write"} => lock' = b
    BY <2>2, <2>3 DEF IInv, LockKept
  <2>5. LockKept' /\ TextKept'  BY <2>3, <2>4, AskerStep, LockAssumption
  <2> QED  BY <2>2, <2>3, <2>5, <1>1, <1>t, <1>p DEF AskerTruncates, IInv, TypeOK
<1>2. CASE AskerCloses(a)
  <2>1. lock = a /\ lock' = NoOne /\ pr' = pr /\ text' = text /\ ask' = [ask EXCEPT ![a] = Idle]
    BY <1>2 DEF AskerCloses, IInv, LockKept
  <2>2. ask' \in [Asker -> Request] /\ ask'[a] = Idle /\ \A b \in Asker \ {a} : ask'[b] = ask[b]
    BY <2>1, <1>i, <1>t DEF TypeOK
  <2>3. \A b \in Asker : ask'[b].pc \in {"truncate", "close", "write"} => lock' = b
    BY <2>1, <2>2 DEF IInv, LockKept
  <2>4. LockKept' /\ TextKept'  BY <2>1, <2>3, AskerStep, LockAssumption
  <2> QED  BY <2>1, <2>2, <2>4, <1>2, <1>t, <1>p DEF AskerCloses, IInv, TypeOK, Holder
<1>3. CASE ReadStop(a)
  <2>1. CASE ask' = [ask EXCEPT ![a] = Idle] /\ UNCHANGED <<pr, lock, struck>>
    <3>1. Processes' /\ LockKept' /\ TextKept' /\ ask' \in [Asker -> Request]
      BY <2>1, <1>3, <1>i, AskKeeps DEF ReadStop
    <3> QED  BY <3>1, <2>1, <1>3, <1>t DEF ReadStop, IInv, TypeOK
  <2>2. CASE Killed(a, text)
    <3>1. ask[a].pc = "read" /\ text \in Nat /\ text' = text
      BY <1>3, <1>t DEF ReadStop, Reads, TypeOK
    <3>2. /\ Processes' /\ LockKept' /\ TextKept'
          /\ lock' \in Holder /\ ask' \in [Asker -> Request] /\ struck' \subseteq {"gui", "everyone"}
      BY <2>2, <3>1, KilledKeeps
    <3> QED  BY <3>2, <1>3, <1>t DEF ReadStop, IInv, TypeOK
  <2> QED  BY <2>1, <2>2, <1>3 DEF ReadStop
<1> QED  BY <1>1, <1>2, <1>3 DEF Asking

LEMMA DialogsKeep ==
    ASSUME IInv, Dialogs
    PROVE  IInv'
<1>t. TypeOK /\ Processes  BY DEF IInv, TypeOK
<1>p. pr' = pr => Processes'  BY <1>t DEF Processes, Alive
<1>i. Idle \in Request /\ [pc |-> "answer", why |-> "autostart", pid |-> text] \in Request
  BY <1>t DEF Request, TypeOK
<1>1. CASE ReadState
  <2>1. Processes' /\ LockKept' /\ TextKept' /\ ask' \in [Asker -> Request]
    BY <1>1, <1>i, AskKeeps DEF ReadState
  <2> QED  BY <2>1, <1>1, <1>t DEF ReadState, IInv, TypeOK
<1>2. CASE ReadAutostart
  <2>1. Processes' /\ LockKept' /\ TextKept' /\ ask' \in [Asker -> Request]
    BY <1>2, <1>i, AskKeeps DEF ReadAutostart
  <2> QED  BY <2>1, <1>2, <1>t DEF ReadAutostart, IInv, TypeOK
<1>3. CASE AnswerNo \/ ReadEditor
  <2>1. Processes' /\ LockKept' /\ TextKept' /\ ask' \in [Asker -> Request]
    BY <1>3, <1>i, AskKeeps DEF AnswerNo, ReadEditor
  <2> QED  BY <2>1, <1>3, <1>t DEF AnswerNo, ReadEditor, IInv, TypeOK
<1>4. CASE AnswerYes
  <2>1. CASE KilledAll
    <3>1. /\ Processes'
          /\ \A p \in Proc : pr'[p].pc \in Holding => pr[p].pc = pr'[p].pc /\ pr[p].pid = pr'[p].pid
      BY <2>1, <1>t, SignalKeeps DEF KilledAll
    <3>2. ask' \in [Asker -> Request] /\ \A b \in Asker : ask'[b] = Idle
      BY <2>1, <1>i DEF KilledAll
    <3>3. lock' = lock \/ (lock = Command /\ lock' = NoOne)  BY <2>1 DEF KilledAll
    <3>4. LockKept' /\ TextKept'
      BY <3>1, <3>2, <3>3, <1>4, AskerStep, LockAssumption DEF AnswerYes
    <3>5. lock' \in Holder  BY <3>3, <1>t DEF Holder, TypeOK
    <3> QED  BY <3>1, <3>2, <3>4, <3>5, <2>1, <1>4, <1>t DEF KilledAll, AnswerYes, IInv, TypeOK
  <2>2. CASE Killed(Gui, ask[Gui].pid)
    <3>1. ask[Gui].pc = "answer" /\ ask[Gui].pid \in Nat /\ text' = text
      BY <1>4, <1>t DEF AnswerYes, TypeOK, Request
    <3>2. /\ Processes' /\ LockKept' /\ TextKept'
          /\ lock' \in Holder /\ ask' \in [Asker -> Request] /\ struck' \subseteq {"gui", "everyone"}
      BY <2>2, <3>1, KilledKeeps
    <3> QED  BY <3>2, <1>4, <1>t DEF AnswerYes, IInv, TypeOK
  <2> QED  BY <2>1, <2>2, <1>4 DEF AnswerYes
<1>5. CASE EditorWrites
  <2>1. lock = Gui /\ lock' = Editor /\ pr' = pr /\ text' = 1 /\ ask' = [ask EXCEPT ![Gui] = Idle]
    BY <1>5 DEF EditorWrites, IInv, LockKept
  <2>2. ask' \in [Asker -> Request] /\ ask'[Gui] = Idle /\ \A b \in Asker \ {Gui} : ask'[b] = ask[b]
    BY <2>1, <1>i, <1>t DEF TypeOK
  <2>3. \A b \in Asker : ask'[b].pc \in {"truncate", "close", "write"} => lock' = b
    BY <2>1, <2>2 DEF IInv, LockKept
  <2>4. LockKept' /\ TextKept'  BY <2>1, <2>3, AskerStep, LockAssumption
  <2> QED  BY <2>1, <2>2, <2>4, <1>5, <1>t, <1>p DEF EditorWrites, IInv, TypeOK, Holder
<1> QED  BY <1>1, <1>2, <1>3, <1>4, <1>5 DEF Dialogs

LEMMA TimerKeeps ==
    ASSUME IInv, Periodic
    PROVE  IInv'
<1>t. TypeOK /\ Processes  BY DEF IInv, TypeOK
<1>1. CASE state' = "mine" /\ UNCHANGED <<pr, files, ask, mine, history>>
  BY <1>1, <1>t DEF Periodic, NoEvent, IInv, TypeOK, Processes, Alive, LockKept, TextKept
<1>2. CASE mine' = 0 /\ Open(Gui, "state")
  <2>1. /\ Processes' /\ LockKept' /\ TextKept'
        /\ lock' \in Holder /\ ask' \in [Asker -> Request]
    BY <1>2, OpenKeeps
  <2> QED  BY <2>1, <1>2, <1>t DEF Periodic, NoEvent, Open, IInv, TypeOK
<1> QED  BY <1>1, <1>2 DEF Periodic

LEMMA UserKeeps ==
    ASSUME IInv, User
    PROVE  IInv'
<1>t. TypeOK /\ Processes  BY DEF IInv, TypeOK
<1>e. Event => events' \in 0 .. MaxEvents  BY <1>t, LockAssumption DEF Event, TypeOK
<1>k. \A p \in Proc : Kinds[p] \subseteq {"batch", "monitor"}  BY LockAssumption
<1>1. ASSUME NEW p \in Proc, Start(p)  PROVE IInv'
  <2>1. PICK k \in Kinds[p] : \E s \in SkipsFirst : \E n \in Number :
          (k = "batch" => ~s) /\ Started(p, k, s, n)
    BY <1>1 DEF Start
  <2>a. k \in {"batch", "monitor"}  BY <1>k
  <2>b. PICK s \in SkipsFirst, n \in Number : (k = "batch" => ~s) /\ Started(p, k, s, n)
    BY <2>1
  <2>2. s \in BOOLEAN  BY LockAssumption
  <2>3. Processes' /\ LockKept' /\ TextKept'
    BY <2>a, <2>b, <2>2, <1>1, StartedKeeps DEF Start
  <2> QED  BY <2>3, <1>1, <1>t DEF Start, IInv, TypeOK
<1>2. ASSUME NEW p \in Proc, StartsChild(p)  PROVE IInv'
  <2>1. PICK k \in Kinds[p], n \in Number : Started(p, k, FALSE, n) /\ mine' = n
    BY <1>2 DEF StartsChild
  <2>a. k \in {"batch", "monitor"}  BY <1>k
  <2>2. Processes' /\ LockKept' /\ TextKept'
    BY <2>1, <2>a, <1>2, StartedKeeps DEF StartsChild
  <2>3. mine' \in Nat  BY <2>1, FreeNumber DEF Started
  <2> QED  BY <2>2, <2>3, <1>2, <1>t DEF StartsChild, IInv, TypeOK
<1>3. ASSUME NEW p \in Proc, Crash(p)  PROVE IInv'
  <2>1. PICK x : Ends(p, x, "gone")  BY <1>3 DEF Crash
  <2>2. Processes' /\ LockKept' /\ TextKept' /\ lock' \in Holder
    BY <2>1, <1>3, EndsKeeps DEF Crash
  <2> QED  BY <2>2, <1>3, <1>t, <1>e DEF Crash, IInv, TypeOK
<1>4. CASE StopMine
  <2>1. Child \in SUBSET Proc /\ Signal(Child)  BY <1>4 DEF StopMine, Child
  <2>2. /\ Processes'
        /\ \A p \in Proc : pr'[p].pc \in Holding => pr[p].pc = pr'[p].pc /\ pr[p].pid = pr'[p].pid
    BY <2>1, <1>t, SignalKeeps
  <2>3. LockKept' /\ TextKept'  BY <2>2, <1>4, AskerStep DEF StopMine, IInv, LockKept
  <2> QED  BY <2>2, <2>3, <1>4, <1>t, <1>e DEF StopMine, IInv, TypeOK
<1>5. CASE StopOther \/ OpenEditor \/ OpenAutostart \/ StopCommand
  <2>1. PICK a \in Asker, w \in {"state", "stop", "autostart", "editor"} :
          Open(a, w) /\ UNCHANGED mine /\ Event
    BY <1>5 DEF StopOther, OpenEditor, OpenAutostart, StopCommand
  <2>2. /\ Processes' /\ LockKept' /\ TextKept'
        /\ lock' \in Holder /\ ask' \in [Asker -> Request]
    BY <2>1, OpenKeeps
  <2> QED  BY <2>1, <2>2, <1>t, <1>e DEF Open, IInv, TypeOK
<1>6. CASE CloseEditor
  <2>1. Processes'  BY <1>6, <1>t DEF CloseEditor, Processes, Alive
  <2>2. \A b \in Asker : ask'[b].pc \notin {"truncate", "close", "write"}
    BY <1>6, LockAssumption DEF CloseEditor, IInv, LockKept
  <2>3. LockKept' /\ TextKept'
    BY <2>2, <1>6, AskerStep, LockAssumption DEF CloseEditor
  <2> QED  BY <2>1, <2>3, <1>6, <1>t DEF CloseEditor, IInv, TypeOK, Holder
<1>7. CASE Touch
  <2>1. /\ Touched \in [Proc -> Process]
        /\ \A q \in Proc : Touched[q].pc = pr[q].pc /\ Touched[q].pid = pr[q].pid
    BY <1>t, TouchedKeeps
  <2>2. Processes' /\ pr' = Touched  BY <1>7, <1>t, TouchKeeps DEF Touch
  <2>3. \A q \in Proc : pr'[q].pc \in Holding => pr[q].pc = pr'[q].pc /\ pr[q].pid = pr'[q].pid
    <3> HIDE DEF Touched
    <3> QED  BY <2>1, <2>2
  <2>4. LockKept' /\ TextKept'  BY <2>3, <1>7, AskerStep DEF Touch, IInv, LockKept
  <2>5. owed' \in BOOLEAN  BY <1>7, <1>t DEF Touch, TypeOK
  <2> QED  BY <2>2, <2>4, <2>5, <1>7, <1>t, <1>e DEF Touch, IInv, TypeOK
<1> QED  BY <1>1, <1>2, <1>3, <1>4, <1>5, <1>6, <1>7 DEF User

-----------------------------------------------------------------------------
(* The theorems.                                                           *)

LEMMA InitInv == Init => IInv
<1> SUFFICES ASSUME Init PROVE IInv  OBVIOUS
<1>1. /\ Out("none") \in Process /\ Out("none").pc = "none" /\ Out("none").pid = 0
      /\ Out("none").kind = "batch" /\ Out("none").skip = FALSE
  BY DEF Out, Process, Places
<1>2. pr \in [Proc -> Process] /\ \A p \in Proc : pr[p] = Out("none")  BY <1>1 DEF Init
<1>3. Processes  BY <1>1, <1>2 DEF Processes, Alive
<1>4. LockKept /\ TextKept  BY <1>1, <1>2 DEF Init, LockKept, TextKept
<1>5. ask \in [Asker -> Request]  BY DEF Init, Request
<1>6. lock \in Holder /\ text \in Nat /\ mine \in Nat /\ events \in 0 .. MaxEvents
  BY LockAssumption DEF Init, Holder
<1>7. /\ hasmonitor \in BOOLEAN /\ owed \in BOOLEAN /\ struck = {}
      /\ state \in {"unknown", "notrunning", "locked", "mine", "notmine"}
  BY DEF Init
<1> QED  BY <1>3, <1>4, <1>5, <1>6, <1>7 DEF IInv, TypeOK

LEMMA NextInv == IInv /\ [Next]_vars => IInv'
<1> SUFFICES ASSUME IInv, [Next]_vars PROVE IInv'  OBVIOUS
<1>1. CASE Next
  <2>1. ASSUME NEW p \in Proc, Step(p)  PROVE IInv'  BY <2>1, StepKeeps
  <2>2. ASSUME NEW a \in Asker, Asking(a)  PROVE IInv'  BY <2>2, AskingKeeps
  <2> QED  BY <1>1, <2>1, <2>2, DialogsKeep, TimerKeeps, UserKeeps DEF Next
<1>2. CASE UNCHANGED vars
  BY <1>2 DEF vars, IInv, TypeOK, Processes, Alive, LockKept, TextKept
<1> QED  BY <1>1, <1>2

THEOREM Invariant == Spec => []IInv
BY InitInv, NextInv, PTL DEF Spec

(* Every variable keeps its type, a process has a number of its own for as *)
(* long as it lives: Pidfile, lockorexit(), daemon() and reexec().         *)
THEOREM TypeCorrect == Spec => []TypeOK
<1>1. IInv => TypeOK  BY DEF IInv
<1> QED  BY Invariant, <1>1, PTL

(* lockorexit() before any use of the index, descriptors closed only after *)
(* the index: there is one indexer, and none beside the editor of the web  *)
(* cache.                                                                  *)
THEOREM LockExcludes == Spec => []OneIndexer
<1>1. IInv => OneIndexer
  <2> SUFFICES ASSUME IInv PROVE OneIndexer  OBVIOUS
  <2>1. \A p \in Proc : Writer(p) => lock = p  BY DEF IInv, LockKept, Writer
  <2> QED  BY <2>1, LockAssumption DEF OneIndexer
<1> QED  BY Invariant, <1>1, PTL

(* The second write_pid() after daemon(), and the truncation of the file   *)
(* only by who has locked it: a stop request finds the number of the       *)
(* process that has the index open.                                        *)
THEOREM NumberIsWritten == Spec => []StopFindsIt
<1>1. IInv => StopFindsIt  BY DEF IInv, TextKept, StopFindsIt, Writer
<1> QED  BY Invariant, <1>1, PTL
=============================================================================
