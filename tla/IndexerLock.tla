----------------------------- MODULE IndexerLock -----------------------------
(***************************************************************************)
(* The indexing processes of a configuration and who controls them: the    *)
(* lock on index.pid and the process number it holds (Pidfile of           *)
(* utils/pathut.cpp), recollindex from its start to its end                *)
(* (index/recollindex.cpp, the main loop of index/rclmonprc.cpp), with its *)
(* stop requests, its daemon and its re-executions, the graphical          *)
(* interface that starts, stops and watches it (qtgui/rclm_idx.cpp), and   *)
(* recollindex --stop.                                                     *)
(*                                                                         *)
(* The interface and the command find out whether an indexer runs by       *)
(* taking the lock for a moment.  Left out: what a pass does (IndexPass,   *)
(* Monitor), a process number that is used again for another process, the  *)
(* wait before a monitor's first pass, X11 and batteries, Windows.         *)
(***************************************************************************)
EXTENDS Naturals, FiniteSets

CONSTANTS
    Proc,              \* the indexing processes
    Gui, Command,      \* who asks for the lock: the interface, recollindex --stop
    Editor,            \* the web cache editor of the interface
    NoOne,
    Kinds,             \* what each process may be started as
    SkipsFirst,        \* whether the user may give -n, as the last argument
    MaxEvents          \* bound: commands, changes of the configuration, uses of
                       \* the dialogs, kills

Asker == {Gui, Command}
Holder == Proc \cup Asker \cup {Editor, NoOne}

ASSUME LockAssumption ==
    /\ IsFiniteSet(Proc)
    /\ Gui # Command /\ Editor \notin Asker
    /\ NoOne \notin Asker \cup {Editor}
    /\ Proc \cap (Asker \cup {Editor, NoOne}) = {}
    /\ Kinds \in [Proc -> SUBSET {"batch", "monitor"}]
    /\ SkipsFirst \subseteq BOOLEAN /\ MaxEvents \in Nat

VARIABLES
    pr,          \* of each process: where it is ("lost": it ended and nobody asked
                 \* for it), "batch" or "monitor", its number, skip: -n, no first
                 \* pass, last: that option is the last argument, stop:
                 \* stopindexing, stale: the configuration changed since it was read
    lock,        \* who has the file locked
    text,        \* the number in the file, 0 when it is empty
    hasmonitor,  \* in the status file
    ask,         \* the interface and the command: what they are doing with the file
    state, mine, \* m_indexerState; the number of m_idxproc's child, or 0
    owed,        \* history: no full pass began since one was asked for
    struck,      \* history: what was sent a signal and is no indexer
    events

files == <<lock, text, hasmonitor>>
gui == <<state, mine>>
history == <<owed, struck>>
vars == <<pr, files, ask, gui, history, events>>

GuiPid == 1
Idle == [pc |-> "idle", why |-> "none", pid |-> 0]
Gone == [pc |-> "gone", why |-> "none", pid |-> 0]
Out(x) == [pc |-> x, kind |-> "batch", pid |-> 0,
           skip |-> FALSE, last |-> FALSE, stop |-> FALSE, stale |-> FALSE]

Ended == {"gone", "lost"}
Alive(p) == pr[p].pc \notin {"none"} \cup Ended
(* The index is open for writing.                                          *)
Writer(p) == pr[p].pc \in {"pass", "monitor", "loop"}
GuiIdle == ask[Gui].pc = "idle"
Event == events < MaxEvents /\ events' = events + 1
NoEvent == events' = events

(* A process number that nobody has or knows: the smallest.                *)
Known == {GuiPid, text, mine} \cup {pr[p].pid : p \in Proc} \cup {ask[a].pid : a \in Asker}
Number == 1 .. Cardinality(Proc) + 6
Free(n) == n \notin Known /\ \A k \in Number : k < n => k \in Known

-----------------------------------------------------------------------------
(* Starting: exec, the signal handlers, the configuration.                 *)

Goes(p, from, to) == pr[p].pc = from /\ pr' = [pr EXCEPT ![p].pc = to]

Started(p, k, s, n) ==
    /\ pr[p].pc = "none" /\ Free(n)
    /\ pr' = [pr EXCEPT ![p] = [pc |-> "exec", kind |-> k, pid |-> n, skip |-> s, last |-> s,
                                stop |-> FALSE, stale |-> FALSE]]

(* From a shell, cron or the session.                                      *)
Start(p) ==
    /\ \E k \in Kinds[p] : \E s \in SkipsFirst : \E n \in Number :
        (k = "batch" => ~s) /\ Started(p, k, s, n)
    /\ UNCHANGED <<files, ask, gui, history, events>>

Main(p) ==
    /\ pr[p].pc = "exec"
    /\ pr' = [pr EXCEPT ![p].pc = "lock", ![p].stale = FALSE]
    /\ UNCHANGED <<files, ask, gui, history, events>>

Released(p) == IF lock = p THEN NoOne ELSE lock
Ends(p, from, how) ==
    /\ pr[p].pc = from
    /\ pr' = [pr EXCEPT ![p] = Out(how)]
    /\ lock' = Released(p)

(* The modification time of the configuration changes.                     *)
Touched == [p \in Proc |-> [pr[p] EXCEPT !.stale = @ \/ Alive(p)]]

-----------------------------------------------------------------------------
(* lockorexit().                                                           *)

TryLock(p) ==
    /\ \/ lock = NoOne /\ Goes(p, "lock", "truncate") /\ lock' = p
       \/ lock \notin Asker \cup {NoOne} /\ Goes(p, "lock", "refused") /\ UNCHANGED lock
       \/ lock \in Asker /\ Goes(p, "lock", "probed") /\ UNCHANGED lock
    /\ UNCHANGED <<text, hasmonitor, ask, gui, history, events>>

(* A monitor is told by touching the configuration.                        *)
Refused(p) ==
    /\ \/ pr[p].pc = "refused" /\ ~(text # 0 /\ hasmonitor) /\ UNCHANGED owed
          /\ pr' = [pr EXCEPT ![p] = Out("gone")]
       \/ pr[p].pc = "refused" /\ text # 0 /\ hasmonitor /\ owed' = TRUE
          /\ pr' = [Touched EXCEPT ![p] = Out("gone")]
       \/ pr[p].pc = "probed" /\ UNCHANGED owed
          /\ pr' = [pr EXCEPT ![p] = Out("lost")]
    /\ UNCHANGED <<files, ask, gui, struck, events>>

Truncate(p) ==
    /\ Goes(p, "truncate", "write") \/ Goes(p, "truncate2", "write2")
    /\ text' = 0
    /\ UNCHANGED <<lock, hasmonitor, ask, gui, history, events>>

WritePid(p) ==
    /\ Goes(p, "write", "locked") \/ Goes(p, "write2", "ready")
    /\ text' = pr[p].pid
    /\ UNCHANGED <<lock, hasmonitor, ask, gui, history, events>>

Renumbered(p, to) ==
    \E n \in Number : Free(n) /\ pr' = [pr EXCEPT ![p].pc = to, ![p].pid = n]

(* Mutant: the child of daemon() has not the number of its father, which   *)
(* stays in the file.                                                      *)
DaemonKeepsText(p) ==
    /\ pr[p].pc = "locked"
    /\ \/ pr[p].kind = "batch" /\ Goes(p, "locked", "ready")
       \/ pr[p].kind = "monitor" /\ Renumbered(p, "ready")
    /\ UNCHANGED <<files, ask, gui, history, events>>

(* A monitor forks: the lock goes with the child, the number changes.      *)
Daemon(p) ==
    /\ pr[p].pc = "locked"
    /\ \/ pr[p].kind = "batch" /\ Goes(p, "locked", "ready")
       \/ pr[p].kind = "monitor" /\ Renumbered(p, "truncate2")
    /\ UNCHANGED <<files, ask, gui, history, events>>

-----------------------------------------------------------------------------
(* The pass, and the first update of the status file.                      *)

BeginPass(p) ==
    /\ ~pr[p].skip /\ Goes(p, "ready", "pass")
    /\ hasmonitor' = (pr[p].kind = "monitor")
    /\ owed' = FALSE
    /\ UNCHANGED <<lock, text, ask, gui, struck, events>>

Reexecs(p, from, s) ==
    /\ pr[p].pc = from
    /\ pr' = [pr EXCEPT ![p].pc = "reexec", ![p].skip = s]
    /\ UNCHANGED lock

(* Mutant: a stop request during the pass is forgotten.                    *)
EndPassDeaf(p) ==
    /\ \/ pr[p].kind = "batch" /\ Ends(p, "pass", "gone")
       \/ pr[p].kind = "monitor" /\ Reexecs(p, "pass", TRUE)
    /\ UNCHANGED <<text, hasmonitor, ask, gui, history, events>>

EndPass(p) ==
    /\ \/ (pr[p].stop \/ pr[p].kind = "batch") /\ Ends(p, "pass", "gone")
       \/ ~pr[p].stop /\ pr[p].kind = "monitor" /\ Reexecs(p, "pass", TRUE)
    /\ UNCHANGED <<text, hasmonitor, ask, gui, history, events>>

(* Mutant: the new program goes on as if it had the lock.                  *)
ReexecTrusts(p) ==
    /\ Goes(p, "reexec", "ready") /\ lock' = Released(p)
    /\ UNCHANGED <<text, hasmonitor, ask, gui, history, events>>

(* ReExec::reexec(): the index is closed, then all descriptors, the lock   *)
(* with them.                                                              *)
CloseAll(p) ==
    /\ Goes(p, "reexec", "closed") /\ lock' = Released(p)
    /\ UNCHANGED <<text, hasmonitor, ask, gui, history, events>>

Execvp(p) ==
    /\ pr[p].pc = "closed"
    /\ pr' = [pr EXCEPT ![p].pc = "exec", ![p].stop = FALSE]
    /\ UNCHANGED <<files, ask, gui, history, events>>

-----------------------------------------------------------------------------
(* startMonitor(): one turn of the main loop.                              *)

BeginMonitor(p) ==
    /\ pr[p].kind = "monitor" /\ pr[p].skip /\ Goes(p, "ready", "monitor")
    /\ hasmonitor' = TRUE
    /\ UNCHANGED <<lock, text, ask, gui, history, events>>

MonitorOk(p) ==
    /\ \/ pr[p].stop /\ Ends(p, "monitor", "gone")
       \/ ~pr[p].stop /\ Goes(p, "monitor", "loop") /\ UNCHANGED lock
    /\ UNCHANGED <<text, hasmonitor, ask, gui, history, events>>

(* removeArg() erases -n and goes past the end when it is the last one.    *)
TurnEnds(p) ==
    /\ \/ pr[p].stale /\ pr[p].last /\ Ends(p, "loop", "lost")
       \/ pr[p].stale /\ ~pr[p].last /\ Reexecs(p, "loop", FALSE)
       \/ ~pr[p].stale /\ pr[p].stop /\ Ends(p, "loop", "gone")
       \/ ~pr[p].stale /\ ~pr[p].stop /\ Goes(p, "loop", "monitor") /\ UNCHANGED lock
    /\ UNCHANGED <<text, hasmonitor, ask, gui, history, events>>

(* The process is killed, or fails.                                        *)
Crash(p) ==
    /\ \E x \in {"lock", "write", "locked", "pass", "monitor", "loop"} : Ends(p, x, "gone")
    /\ Event
    /\ UNCHANGED <<text, hasmonitor, ask, gui, history>>

-----------------------------------------------------------------------------
(* kill(2).  The interface does not catch SIGTERM, a process that has just *)
(* been executed does not yet.                                             *)

Signalled(r) == IF r.pc = "exec" THEN Out("gone") ELSE [r EXCEPT !.stop = TRUE]
Signal(procs) == pr' = [p \in Proc |-> IF p \in procs /\ Alive(p) THEN Signalled(pr[p]) ELSE pr[p]]

Numbered(n) == {p \in Proc : pr[p].pid = n}

(* The interface that has the number is ended, with its editor.            *)
HitGui ==
    /\ lock' = IF lock \in {Gui, Editor} THEN NoOne ELSE lock
    /\ struck' = struck \cup {"gui"}

Killed(a, n) ==
    /\ Signal(Numbered(n))
    /\ \/ n = GuiPid /\ ask[Gui] # Gone /\ HitGui
          /\ ask' = [ask EXCEPT ![a] = Idle, ![Gui] = Gone]
       \/ (n # GuiPid \/ ask[Gui] = Gone) /\ UNCHANGED <<lock, struck>>
          /\ ask' = [ask EXCEPT ![a] = Idle]

(* kill(-1) is for all the processes of the user but the caller.           *)
KilledAll ==
    /\ Signal(Proc)
    /\ lock' = IF lock = Command THEN NoOne ELSE lock
    /\ struck' = struck \cup {"everyone"}
    /\ ask' = [a \in Asker |-> Idle]

-----------------------------------------------------------------------------
(* Pidfile::open() of the interface and of the command.                    *)

Busy(a, x, w) == ask' = [ask EXCEPT ![a] = [pc |-> x, why |-> w, pid |-> 0]]

Open(a, w) ==
    /\ ask[a].pc = "idle"
    /\ \/ lock = NoOne /\ lock' = a /\ Busy(a, "truncate", w)
       \/ lock # NoOne /\ UNCHANGED lock /\ Busy(a, "read", w)
    /\ UNCHANGED <<pr, text, hasmonitor, state, history>>

AskerTruncates(a) ==
    /\ ask[a].pc = "truncate"
    /\ text' = 0
    /\ Busy(a, IF ask[a].why = "editor" THEN "write" ELSE "close", ask[a].why)
    /\ UNCHANGED <<pr, lock, hasmonitor, gui, history, events>>

AskerCloses(a) ==
    /\ ask[a].pc = "close"
    /\ lock' = NoOne
    /\ state' = IF ask[a].why = "state" THEN "notrunning" ELSE state
    /\ ask' = [ask EXCEPT ![a] = Idle]
    /\ UNCHANGED <<pr, text, hasmonitor, mine, history, events>>

(* read_pid(), and what is done with the number.                           *)
Reads(a, w) == ask[a].pc = "read" /\ ask[a].why = w

ReadState ==
    /\ Reads(Gui, "state")
    /\ state' = IF text = GuiPid THEN "locked" ELSE "notmine"
    /\ ask' = [ask EXCEPT ![Gui] = Idle]
    /\ UNCHANGED <<pr, files, mine, history, events>>

ReadStop(a) ==
    /\ Reads(a, "stop")
    /\ \/ text = 0 /\ ask' = [ask EXCEPT ![a] = Idle] /\ UNCHANGED <<pr, lock, struck>>
       \/ text # 0 /\ Killed(a, text)
    /\ UNCHANGED <<text, hasmonitor, gui, owed, events>>

(* The autostart dialog asks whether to kill the process: 0 is -1 here.    *)
ReadAutostart ==
    /\ Reads(Gui, "autostart")
    /\ ask' = [ask EXCEPT ![Gui] = [pc |-> "answer", why |-> "autostart", pid |-> text]]
    /\ UNCHANGED <<pr, files, gui, history, events>>

AnswerNo ==
    /\ ask[Gui].pc = "answer"
    /\ ask' = [ask EXCEPT ![Gui] = Idle]
    /\ UNCHANGED <<pr, files, gui, history, events>>

AnswerYes ==
    /\ ask[Gui].pc = "answer"
    /\ \/ ask[Gui].pid = 0 /\ KilledAll
       \/ ask[Gui].pid # 0 /\ Killed(Gui, ask[Gui].pid)
    /\ UNCHANGED <<text, hasmonitor, gui, owed, events>>

ReadEditor ==
    /\ Reads(Gui, "editor")
    /\ ask' = [ask EXCEPT ![Gui] = Idle]
    /\ UNCHANGED <<pr, files, gui, history, events>>

EditorWrites ==
    /\ ask[Gui].pc = "write"
    /\ lock' = Editor /\ text' = GuiPid
    /\ ask' = [ask EXCEPT ![Gui] = Idle]
    /\ UNCHANGED <<pr, hasmonitor, gui, history, events>>

-----------------------------------------------------------------------------
(* The interface.                                                          *)

Child == {p \in Proc : mine # 0 /\ pr[p].pid = mine}

(* Mutant: the child is not reaped.                                        *)
PeriodicKeeps ==
    /\ GuiIdle /\ NoEvent
    /\ \/ mine # 0 /\ state' = "mine" /\ UNCHANGED <<pr, files, ask, mine, history>>
       \/ mine = 0 /\ UNCHANGED mine /\ Open(Gui, "state")

(* periodic100().                                                          *)
Periodic ==
    /\ GuiIdle /\ NoEvent
    /\ \/ Child # {} /\ state' = "mine" /\ UNCHANGED <<pr, files, ask, mine, history>>
       \/ Child = {} /\ mine' = 0 /\ Open(Gui, "state")

StartsChild(p) ==
    /\ GuiIdle /\ state = "notrunning"
    /\ \E k \in Kinds[p] : \E n \in Number :
        (k = "monitor" => mine = 0) /\ Started(p, k, FALSE, n) /\ mine' = n
    /\ UNCHANGED <<files, ask, state, history, events>>

(* toggleIndexing().                                                       *)
StopMine ==
    /\ GuiIdle /\ state = "mine" /\ Event
    /\ Signal(Child)
    /\ UNCHANGED <<files, ask, gui, history>>

StopOther == state = "notmine" /\ Open(Gui, "stop") /\ UNCHANGED mine /\ Event
OpenEditor ==
    /\ state = "notrunning" /\ lock # Editor
    /\ Open(Gui, "editor") /\ UNCHANGED mine /\ Event
OpenAutostart == Open(Gui, "autostart") /\ UNCHANGED mine /\ Event

CloseEditor ==
    /\ GuiIdle /\ lock = Editor
    /\ lock' = NoOne
    /\ UNCHANGED <<pr, text, hasmonitor, ask, gui, history, events>>

(* bumpIndexing(), or a change by the user.                                *)
Touch ==
    /\ Event
    /\ pr' = Touched
    /\ owed' = (owed \/ (GuiIdle /\ state \in {"mine", "notmine"} /\ hasmonitor))
    /\ UNCHANGED <<files, ask, gui, struck>>

(* recollindex --stop.                                                     *)
StopCommand == Open(Command, "stop") /\ UNCHANGED mine /\ Event

-----------------------------------------------------------------------------
Init ==
    /\ pr = [p \in Proc |-> Out("none")]
    /\ lock = NoOne /\ text = 0 /\ hasmonitor = FALSE
    /\ ask = [a \in Asker |-> Idle]
    /\ state = "unknown" /\ mine = 0
    /\ owed = FALSE /\ struck = {} /\ events = 0

Step(p) ==
    \/ Main(p) \/ TryLock(p) \/ Refused(p) \/ Truncate(p) \/ WritePid(p) \/ Daemon(p)
    \/ BeginPass(p) \/ EndPass(p) \/ CloseAll(p) \/ Execvp(p)
    \/ BeginMonitor(p) \/ MonitorOk(p) \/ TurnEnds(p)

Asking(a) == AskerTruncates(a) \/ AskerCloses(a) \/ ReadStop(a)
Dialogs == ReadState \/ ReadAutostart \/ AnswerNo \/ AnswerYes \/ ReadEditor \/ EditorWrites

User ==
    \/ \E p \in Proc : Start(p) \/ StartsChild(p) \/ Crash(p)
    \/ StopMine \/ StopOther \/ OpenEditor \/ OpenAutostart \/ CloseEditor
    \/ Touch \/ StopCommand

Next ==
    \/ \E p \in Proc : Step(p)
    \/ \E a \in Asker : Asking(a)
    \/ Dialogs \/ Periodic \/ User

Spec == Init /\ [][Next]_vars

(* Processes run, a question is answered, and periodic100() is called by a *)
(* timer.                                                                  *)
FairSpec ==
    /\ Spec
    /\ \A p \in Proc : WF_vars(Step(p))
    /\ \A a \in Asker : WF_vars(Asking(a))
    /\ WF_vars(Dialogs) /\ WF_vars(Periodic)

-----------------------------------------------------------------------------
(* Properties.                                                             *)

Places == {"none", "exec", "lock", "refused", "probed", "truncate", "write", "locked",
           "truncate2", "write2", "ready", "pass", "reexec", "closed", "monitor", "loop",
           "gone", "lost"}
Process == [pc : Places, kind : {"batch", "monitor"}, pid : Nat,
            skip : BOOLEAN, last : BOOLEAN, stop : BOOLEAN, stale : BOOLEAN]
Request == [pc : {"idle", "truncate", "close", "read", "answer", "write", "gone"},
            why : {"none", "state", "stop", "autostart", "editor"}, pid : Nat]

(* A batch indexer never skips its pass, a process has a number as long as *)
(* it lives, one of its own.                                               *)
Processes ==
    /\ pr \in [Proc -> Process]
    /\ \A p \in Proc :
        /\ pr[p].kind = "batch" => ~pr[p].skip
        /\ Alive(p) <=> pr[p].pid # 0
        /\ pr[p].pid # GuiPid
        /\ \A q \in Proc : pr[p].pid = pr[q].pid /\ Alive(p) => p = q

(* The types, and what is said of the processes above.                     *)
TypeOK ==
    /\ Processes
    /\ lock \in Holder /\ text \in Nat /\ hasmonitor \in BOOLEAN
    /\ ask \in [Asker -> Request]
    /\ state \in {"unknown", "notrunning", "locked", "mine", "notmine"}
    /\ mine \in Nat
    /\ owed \in BOOLEAN /\ struck \subseteq {"gui", "everyone"}
    /\ events \in 0 .. MaxEvents

(* At most one process has the index open, also around the moments where   *)
(* it executes itself again, and none while the editor changes the web     *)
(* cache.                                                                  *)
OneIndexer ==
    /\ \A p, q \in Proc : Writer(p) /\ Writer(q) => p = q
    /\ lock = Editor => \A p \in Proc : ~Writer(p)

(* As long as a process has the index open, its number is in the file:     *)
(* a stop request finds it, whatever the others did with the file.         *)
StopFindsIt == \A p \in Proc : Writer(p) => text = pr[p].pid

(* A process that has the stop request ends, unless it is past the last    *)
(* test before it executes itself again.                                   *)
Past(p) == pr[p].pc \in {"loop", "reexec", "closed"}
StopEnds == \A p \in Proc : pr[p].stop /\ ~Past(p) ~> pr[p].pc \in Ended

(* Once nothing happens any more the interface shows whether an indexer    *)
(* runs.                                                                   *)
Shown ==
    \/ ask[Gui] = Gone \/ lock = Editor
    \/ (state \in {"mine", "notmine"} <=> \E p \in Proc : Writer(p))
GuiCatchesUp == <>[]Shown

-----------------------------------------------------------------------------
(* What the documentation says.                                            *)

(* "stop indexer currently running" (the usage of --stop): the request     *)
(* ends it.                                                                *)
StopHonoured == \A p \in Proc : pr[p].stop ~> pr[p].pc \in Ended

(* The same line: what is signalled is the indexer.                        *)
StopsIndexer == "gui" \notin struck

(* "-1 for other error" (Pidfile::open()): it is not a process.            *)
SignalsOne == "everyone" \notin struck

(* "tell it to start an incremental pass by touching the configuration":   *)
(* a full pass begins after the request.                                   *)
RequestServed == owed ~> ~owed

(* "monitors the configuration and restarts from scratch": a monitor that  *)
(* runs with an old configuration begins a full pass, unless it was told   *)
(* to stop or another one runs.                                            *)
Restarts ==
    \A p \in Proc :
        pr[p].pc = "monitor" /\ pr[p].stale ~>
            pr[p].pc \in {"pass", "gone"} \/ pr[p].stop
=============================================================================
