----------------------------- MODULE Processes -----------------------------
(***************************************************************************)
(* The life of user processes in the Oxys-OS kernel: fork, execve, exit,   *)
(* waitpid, kill, sigaction, setpgid, pause, alarm, the stop and continue  *)
(* of job control, the adoption of orphans by init, and the delivery of    *)
(* signals on every way out of the kernel (kernel/proc/process.c,          *)
(* kernel/proc/signal.c, kernel/arch/x86_64/syscall/sigframe.c, and the    *)
(* handlers of kernel/arch/x86_64/syscall/syscall.c that reach them).      *)
(*                                                                         *)
(* Granularity.  A user thread has affinity for the bootstrap processor    *)
(* only (ThreadCreate), system calls run with interrupts masked, and the   *)
(* tick never pre-empts a user thread inside the kernel                    *)
(* (SchedulerHandleTick).  What one thread does in the kernel between two  *)
(* sleeps is therefore atomic with respect to every other process; the     *)
(* processes interleave where a thread sleeps and where a tick interrupts  *)
(* privilege level 3.  A kernel path that is cut into several actions here *)
(* (a scan of the children, an iteration of SignalDeliver) keeps `current` *)
(* and a continuation other than "user", which no other action accepts.    *)
(*                                                                         *)
(* The run queue is the set of ready threads: its order is the subject of  *)
(* module Scheduler.                                                       *)
(***************************************************************************)
EXTENDS Integers, FiniteSets

CONSTANTS
    MaxId,         \* the last process identifier an instance hands out
    Signals,       \* the signal numbers the programs of an instance use
    Dispositions,  \* what sigaction is asked for: DEFAULT, IGNORE, HANDLER
    Calls,         \* for every process, the system calls its program makes
    Targets,       \* the processes and groups that kill names
    WaitPids,      \* the selectors given to waitpid
    WaitOptions    \* the option sets given to waitpid

SIGKILL == 9
SIGSEGV == 11
SIGALRM == 14
SIGCHLD == 17
SIGCONT == 18
SIGSTOP == 19
SIGTSTP == 20
SIGTTIN == 21
SIGTTOU == 22

DEFAULT == "default"
IGNORE  == "ignore"
HANDLER == "handler"

Init1   == 1                 \* the identifier of init (ProcessSetInit)
NoProc  == 0
Proc    == 1 .. MaxId
OptionSets == SUBSET {"NO_HANG", "UNTRACED"}
CallNames == {"fork", "exec", "exit", "fault", "wait", "pause", "pipe", "kill",
              "sigaction", "setpgid", "alarm", "other"}

ASSUME MaxIdAssumption == MaxId \in Nat \ {0}
ASSUME SignalsAssumption == Signals \subseteq 1 .. 31 /\ SIGCHLD \in Signals
ASSUME DispositionsAssumption == Dispositions \subseteq {DEFAULT, IGNORE, HANDLER}
ASSUME CallsAssumption ==
    /\ Calls \in [Proc -> SUBSET CallNames]
    /\ \A p \in Proc : "alarm" \in Calls[p] => SIGALRM \in Signals
ASSUME TargetsAssumption == Targets \subseteq Proc
ASSUME WaitAssumption == WaitPids \subseteq Int /\ WaitOptions \subseteq OptionSets

VARIABLES
    nextId,        \* ProcessNextId: identifiers are never handed out twice
    state,         \* Process.state
    parent,        \* Process.parent_id
    group,         \* Process.group
    pending,       \* Process.pending, the set of its bits
    handlers,      \* Process.handlers
    stopReported,  \* Process.stop_reported
    alarm,         \* whether Process.alarm_deadline is set
    thread,        \* Thread.state of the process's one thread
    at,            \* where the thread stands, see Places
    call,          \* the interruptible call it is in, or will execute again
    current        \* the process whose thread the processor runs

idVars     == <<nextId, parent, group>>
signalVars == <<pending, handlers>>
stopVars   == <<state, stopReported>>
runVars    == <<thread, at, call, current>>
vars == <<nextId, state, parent, group, pending, handlers, stopReported,
          alarm, thread, at, call, current>>

(***************************************************************************)
(* Where a thread stands.  "user": at privilege level 3.  "scan": in a     *)
(* call that may sleep, testing its condition.  "out": on the way out, in  *)
(* SignalDeliver.  "call": asleep in, or woken from, the call `call`.      *)
(* "stop": asleep in SignalStopCurrent.  "trap": pre-empted at privilege   *)
(* level 3.  "entry": made by fork and not yet run.                        *)
(***************************************************************************)
Places == {"none", "entry", "user", "scan", "out", "call", "stop", "trap"}

Call == [op : {"none", "wait", "pause", "pipe"}, pid : Int, options : OptionSets]
NoCall == [op |-> "none", pid |-> 0, options |-> {}]

TypeOK ==
    /\ nextId \in 2 .. MaxId + 1
    /\ state \in [Proc -> {"UNUSED", "READY", "STOPPED", "EXITED"}]
    /\ parent \in [Proc -> Proc \cup {NoProc}]
    /\ group \in [Proc -> Proc \cup {NoProc}]
    /\ pending \in [Proc -> SUBSET Signals]
    /\ handlers \in [Proc -> [Signals -> {DEFAULT, IGNORE, HANDLER}]]
    /\ stopReported \in [Proc -> BOOLEAN]
    /\ alarm \in [Proc -> BOOLEAN]
    /\ thread \in [Proc -> {"none", "ready", "running", "blocked", "exited"}]
    /\ at \in [Proc -> Places]
    /\ call \in [Proc -> Call]
    /\ current \in Proc \cup {NoProc}

Used(p) == state[p] # "UNUSED"
Alive(p) == state[p] \in {"READY", "STOPPED"}
Children(p) == {c \in Proc : Used(c) /\ parent[c] = p}

----------------------------------------------------------------------------
(* Signals: what sending one does to its target.                           *)

Stops == {SIGSTOP, SIGTSTP, SIGTTIN, SIGTTOU}

DefaultAction(s) ==
    CASE s = SIGCHLD -> "ignore"
      [] s = SIGCONT -> "continue"
      [] s \in Stops -> "stop"
      [] OTHER       -> "terminate"

(* Discarded at generation: no live target, or a target that ignores it.   *)
Accepts(q, s) ==
    /\ Alive(q)
    /\ handlers[q][s] # IGNORE
    /\ ~(handlers[q][s] = DEFAULT /\ DefaultAction(s) = "ignore")

(* The pending set of an accepting target after s. A continue discards the *)
(* pending stops and a stop the pending continue.                          *)
PendingWith(q, s) ==
    CASE s = SIGCONT -> (pending[q] \ Stops)
                          \cup (IF handlers[q][s] = DEFAULT THEN {} ELSE {s})
      [] s \in Stops -> (pending[q] \ {SIGCONT}) \cup {s}
      [] OTHER       -> pending[q] \cup {s}

(* Mutant: a SIGKILL does not continue what it is to end.                  *)
ContinuesNotKilled(q, s) == state[q] = "STOPPED" /\ s = SIGCONT

(* SignalContinue is reached by SIGCONT and by SIGKILL.                    *)
Continues(q, s) == state[q] = "STOPPED" /\ s \in {SIGCONT, SIGKILL}

(* Mutant: a stopped thread is woken by any signal.                        *)
RousesTheStopped(q, s) ==
    thread[q] = "blocked" /\ ~(s = SIGCONT /\ handlers[q][s] = DEFAULT)

(* Whose sleep s ends: a stopped target sleeps on until it is continued, a *)
(* default SIGCONT to one that is not stopped does nothing.                *)
Rouses(q, s) ==
    /\ thread[q] = "blocked"
    /\ IF state[q] = "STOPPED"
         THEN Continues(q, s) /\ at[q] = "stop"
         ELSE ~(s = SIGCONT /\ handlers[q][s] = DEFAULT)

(* SignalSend of s to every member of T, as values of the variables it     *)
(* changes.  The sends of a group touch one target each, so their order    *)
(* in the table does not matter.                                           *)
PendingAfter(T, s) ==
    [q \in Proc |-> IF q \in T /\ Accepts(q, s) THEN PendingWith(q, s) ELSE pending[q]]
StateAfter(T, s) ==
    [q \in Proc |-> IF q \in T /\ Accepts(q, s) /\ Continues(q, s)
                      THEN "READY" ELSE state[q]]
ReportedAfter(T, s) ==
    [q \in Proc |-> IF q \in T /\ Accepts(q, s) /\ Continues(q, s)
                      THEN FALSE ELSE stopReported[q]]
Roused(T, s) == {q \in T : Accepts(q, s) /\ Rouses(q, s)}

(* SchedulerAdmit of every member of W.                                    *)
Admit(W) == [q \in Proc |-> IF q \in W THEN "ready" ELSE thread[q]]

(* Mutant: the parent is sent SIGCHLD and the wake is forgotten.           *)
NotifiedBySignalOnly(T) == Roused(T, SIGCHLD)

(* SchedulerWake upon the process of every member of T (the channel a wait *)
(* and a pause sleep upon) followed by SIGCHLD to it: what an ending and a *)
(* stop do to a parent, and the adoption of an ended orphan to init.       *)
Notified(T) ==
    {q \in T : thread[q] = "blocked" /\ at[q] = "call" /\ call[q].op \in {"wait", "pause"}}
      \cup Roused(T, SIGCHLD)

----------------------------------------------------------------------------
(* Ending.                                                                 *)

(* Mutants: the test of the parent is dropped; ended children stay behind. *)
OrphansOfAnyone(p) ==
    IF p # Init1 /\ Alive(Init1) THEN {c \in Proc : Used(c) /\ c # Init1} ELSE {}
OrphansStillAlive(p) ==
    IF p # Init1 /\ Alive(Init1) THEN {c \in Proc : Alive(c) /\ parent[c] = p /\ c # Init1} ELSE {}

(* ProcessAdoptOrphansOf(p): nothing while init is missing or is p.        *)
Orphans(p) ==
    IF p # Init1 /\ Alive(Init1) THEN {c \in Proc : Used(c) /\ parent[c] = p /\ c # Init1} ELSE {}

(* ThreadTerminateCurrent, for a thread the scheduler runs.  The status a  *)
(* wait reports is left out; what an ended process still has pending, and  *)
(* its dispositions, are never read again and are cleared here.            *)
Terminate(p) ==
    LET told == ({parent[p]} \cap {q \in Proc : Used(q)})
                  \cup (IF \E c \in Orphans(p) : state[c] = "EXITED" THEN {Init1} ELSE {})
    IN  /\ state' = [state EXCEPT ![p] = "EXITED"]
        /\ parent' = [c \in Proc |-> IF c \in Orphans(p) THEN Init1 ELSE parent[c]]
        /\ pending' = [PendingAfter(told, SIGCHLD) EXCEPT ![p] = {}]
        /\ handlers' = [handlers EXCEPT ![p] = [s \in Signals |-> DEFAULT]]
        /\ thread' = [Admit(Notified(told)) EXCEPT ![p] = "exited"]
        /\ at' = [at EXCEPT ![p] = "none"]
        /\ call' = [call EXCEPT ![p] = NoCall]
        /\ current' = NoProc
        /\ UNCHANGED <<nextId, group, stopReported, alarm>>

----------------------------------------------------------------------------
(* The ways out of the kernel: SignalDeliver, one iteration at a time.     *)

Lowest(S) == CHOOSE s \in S : \A t \in S : s <= t

OnWayOut(p) == current = p /\ at[p] = "out"
Take(p) == pending' = [pending EXCEPT ![p] = @ \ {Lowest(@)}]
Taken(p) == Lowest(pending[p])
Disposition(p) == handlers[p][Taken(p)]

(* Nothing is pending: to privilege level 3.  A call that was interrupted  *)
(* and whose signal entered no handler is still in call[p], and is the     *)
(* next thing the program executes.                                        *)
DeliverNone(p) ==
    /\ OnWayOut(p) /\ pending[p] = {}
    /\ at' = [at EXCEPT ![p] = "user"]
    /\ UNCHANGED <<idVars, signalVars, stopVars, alarm, thread, call, current>>

(* A signal ignored, or a continue that was done when it was sent.         *)
DeliverNothing(p) ==
    /\ OnWayOut(p) /\ pending[p] # {}
    /\ \/ Disposition(p) = IGNORE
       \/ Disposition(p) = DEFAULT /\ DefaultAction(Taken(p)) \in {"ignore", "continue"}
    /\ Take(p)
    /\ UNCHANGED <<idVars, stopVars, handlers, alarm, runVars>>

(* SignalStopCurrent, up to its sleep upon the stop channel.               *)
DeliverStop(p) ==
    LET told == {parent[p]} \cap {q \in Proc : Used(q)}
    IN  /\ OnWayOut(p) /\ pending[p] # {}
        /\ Disposition(p) = DEFAULT /\ DefaultAction(Taken(p)) = "stop"
        /\ pending' = [PendingAfter(told, SIGCHLD) EXCEPT ![p] = pending[p] \ {Taken(p)}]
        /\ state' = [state EXCEPT ![p] = "STOPPED"]
        /\ stopReported' = [stopReported EXCEPT ![p] = FALSE]
        /\ thread' = [Admit(Notified(told)) EXCEPT ![p] = "blocked"]
        /\ at' = [at EXCEPT ![p] = "stop"]
        /\ current' = NoProc
        /\ UNCHANGED <<idVars, handlers, alarm, call>>

(* SignalTerminate.                                                        *)
DeliverTerminate(p) ==
    /\ OnWayOut(p) /\ pending[p] # {}
    /\ Disposition(p) = DEFAULT /\ DefaultAction(Taken(p)) = "terminate"
    /\ Terminate(p)

(* A handler is entered and delivery ends: what else is pending stays so   *)
(* while the handler runs, and the interrupted call reports EINTR.         *)
DeliverHandler(p) ==
    /\ OnWayOut(p) /\ pending[p] # {} /\ Disposition(p) = HANDLER
    /\ Take(p)
    /\ at' = [at EXCEPT ![p] = "user"]
    /\ call' = [call EXCEPT ![p] = NoCall]
    /\ UNCHANGED <<idVars, stopVars, handlers, alarm, thread, current>>

(* The stack cannot take the frame: SIGSEGV, whatever its disposition.     *)
DeliverNoStack(p) ==
    /\ OnWayOut(p) /\ pending[p] # {} /\ Disposition(p) = HANDLER
    /\ Terminate(p)

Deliver(p) ==
    \/ DeliverNone(p)
    \/ DeliverNothing(p)
    \/ DeliverStop(p)
    \/ DeliverTerminate(p)
    \/ DeliverHandler(p)
    \/ DeliverNoStack(p)

----------------------------------------------------------------------------
(* System calls.  InUser: the program is free to make any call; a program  *)
(* whose interrupted call is restarted re-executes that one (Redo).        *)

InUser(p) == current = p /\ at[p] = "user" /\ call[p] = NoCall
Makes(p, name) == name \in Calls[p] /\ InUser(p)

(* The end of SyscallDispatch: delivery, where anything is pending.        *)
WayOut(set) == IF set = {} THEN "user" ELSE "out"
ToWayOut(p, set) == at' = [at EXCEPT ![p] = WayOut(set)]

(* SchedulerSleep by the current thread.                                   *)
Sleep(p) ==
    /\ thread' = [thread EXCEPT ![p] = "blocked"]
    /\ at' = [at EXCEPT ![p] = "call"]
    /\ current' = NoProc

(* A call that changes nothing here: one of another component, a refused   *)
(* one, sigreturn.                                                         *)
OtherCall(p) ==
    /\ Makes(p, "other")
    /\ ToWayOut(p, pending[p])
    /\ UNCHANGED <<idVars, signalVars, stopVars, alarm, thread, call, current>>

(* ProcessAllocate hands out ProcessNextId and advances it.                *)
NextIdentifier == nextId + 1

ProcessFork(p) ==
    LET c == nextId
    IN  /\ Makes(p, "fork") /\ nextId <= MaxId
        /\ nextId' = NextIdentifier
        /\ state' = [state EXCEPT ![c] = "READY"]
        /\ parent' = [parent EXCEPT ![c] = p]
        /\ group' = [group EXCEPT ![c] = group[p]]
        /\ handlers' = [handlers EXCEPT ![c] = handlers[p]]
        /\ thread' = [thread EXCEPT ![c] = "ready"]
        /\ at' = [at EXCEPT ![c] = "entry", ![p] = WayOut(pending[p])]
        /\ UNCHANGED <<pending, stopReported, alarm, call, current>>

(* execve that succeeds: SignalResetForExecute, and the new program is     *)
(* entered by ThreadEnterUser, which passes no delivery.                   *)
ProcessExecute(p) ==
    /\ Makes(p, "exec")
    /\ handlers' = [handlers EXCEPT ![p] =
                      [s \in Signals |-> IF @[s] = IGNORE THEN IGNORE ELSE DEFAULT]]
    /\ at' = [at EXCEPT ![p] = "user"]
    /\ UNCHANGED <<idVars, pending, stopVars, alarm, thread, call, current>>

ProcessExit(p) == Makes(p, "exit") /\ Terminate(p)

(* A fault at privilege level 3 ends the process with a negative status.   *)
Fault(p) == Makes(p, "fault") /\ Terminate(p)

(* kill: one process, or every live member of a group.                     *)
Kill(p, T, s) ==
    /\ Makes(p, "kill")
    /\ pending' = PendingAfter(T, s)
    /\ state' = StateAfter(T, s)
    /\ stopReported' = ReportedAfter(T, s)
    /\ thread' = Admit(Roused(T, s))
    /\ ToWayOut(p, PendingAfter(T, s)[p])
    /\ UNCHANGED <<idVars, handlers, alarm, call, current>>

Members(g) == {q \in Proc : Alive(q) /\ group[q] = g}

SyscallDoKill(p) ==
    \E s \in Signals :
        \/ \E q \in Targets : Kill(p, {q}, s)
        \/ \E g \in Targets \ {1} : Kill(p, Members(g), s)

(* sigaction: SignalSetDisposition.                                        *)
SignalSetDisposition(p) ==
    \E s \in Signals \ {SIGKILL, SIGSTOP}, d \in Dispositions :
        /\ Makes(p, "sigaction")
        /\ handlers' = [handlers EXCEPT ![p][s] = d]
        /\ pending' = [pending EXCEPT ![p] = IF d = IGNORE THEN @ \ {s} ELSE @]
        /\ ToWayOut(p, IF d = IGNORE THEN pending[p] \ {s} ELSE pending[p])
        /\ UNCHANGED <<idVars, stopVars, alarm, thread, call, current>>

(* setpgid: the caller, or a child of it, into any group.                  *)
SyscallDoSetProcessGroup(p) ==
    \E q \in Children(p) \cup {p}, g \in Proc :
        /\ Makes(p, "setpgid")
        /\ group' = [group EXCEPT ![q] = g]
        /\ ToWayOut(p, pending[p])
        /\ UNCHANGED <<nextId, parent, signalVars, stopVars, alarm, thread, call, current>>

(* alarm: sets the deadline, or clears it.                                 *)
ProcessAlarm(p) ==
    \E on \in BOOLEAN :
        /\ Makes(p, "alarm")
        /\ alarm' = [alarm EXCEPT ![p] = on]
        /\ ToWayOut(p, pending[p])
        /\ UNCHANGED <<idVars, signalVars, stopVars, thread, call, current>>

----------------------------------------------------------------------------
(* The calls that sleep.                                                   *)

Begin(p, c) ==
    /\ call' = [call EXCEPT ![p] = c]
    /\ at' = [at EXCEPT ![p] = "scan"]
    /\ UNCHANGED <<idVars, signalVars, stopVars, alarm, thread, current>>

BeginWait(p) ==
    /\ Makes(p, "wait")
    /\ \E w \in WaitPids, o \in WaitOptions :
          Begin(p, [op |-> "wait", pid |-> w, options |-> o])

BeginPause(p) == Makes(p, "pause") /\ Begin(p, [NoCall EXCEPT !.op = "pause"])

BeginPipe(p) == Makes(p, "pipe") /\ Begin(p, [NoCall EXCEPT !.op = "pipe"])

(* The instruction pointer went back to the SYSCALL instruction.           *)
Redo(p) ==
    /\ current = p /\ at[p] = "user" /\ call[p] # NoCall
    /\ Begin(p, call[p])

InCall(p, op) == current = p /\ at[p] = "scan" /\ call[p].op = op

(* The call ends with a result that is not EINTR.                          *)
Returns(p) ==
    /\ call' = [call EXCEPT ![p] = NoCall]
    /\ ToWayOut(p, pending[p])

(* ProcessWaitFor: one pass over the table.                                *)
Selected(p) ==
    LET w == call[p].pid
    IN  {c \in Children(p) : (w > 0 => c = w) /\ (w < -1 => group[c] = -w)}
Ended(p) == {c \in Selected(p) : state[c] = "EXITED"}
StoppedAnew(p) ==
    {c \in Selected(p) : "UNTRACED" \in call[p].options
                           /\ state[c] = "STOPPED" /\ ~stopReported[c]}

WaitNoChild(p) ==
    /\ InCall(p, "wait") /\ Selected(p) = {}
    /\ Returns(p)
    /\ UNCHANGED <<idVars, signalVars, stopVars, alarm, thread, current>>

(* The child is collected, ProcessDestroy: nothing of it is left.          *)
WaitCollect(p) ==
    \E c \in Ended(p) :
        /\ InCall(p, "wait")
        /\ state' = [state EXCEPT ![c] = "UNUSED"]
        /\ thread' = [thread EXCEPT ![c] = "none"]
        /\ parent' = [parent EXCEPT ![c] = NoProc]
        /\ group' = [group EXCEPT ![c] = NoProc]
        /\ pending' = [pending EXCEPT ![c] = {}]
        /\ handlers' = [handlers EXCEPT ![c] = [s \in Signals |-> DEFAULT]]
        /\ stopReported' = [stopReported EXCEPT ![c] = FALSE]
        /\ alarm' = [alarm EXCEPT ![c] = FALSE]
        /\ Returns(p)
        /\ UNCHANGED <<nextId, current>>

WaitReportStop(p) ==
    \E c \in StoppedAnew(p) :
        /\ InCall(p, "wait") /\ Ended(p) = {}
        /\ stopReported' = [stopReported EXCEPT ![c] = TRUE]
        /\ Returns(p)
        /\ UNCHANGED <<idVars, signalVars, state, alarm, thread, current>>

WaitNoHang(p) ==
    /\ InCall(p, "wait") /\ Selected(p) # {} /\ Ended(p) = {} /\ StoppedAnew(p) = {}
    /\ "NO_HANG" \in call[p].options
    /\ Returns(p)
    /\ UNCHANGED <<idVars, signalVars, stopVars, alarm, thread, current>>

(* The pending set is not looked at before the sleep, only after it.       *)
WaitSleep(p) ==
    /\ InCall(p, "wait") /\ Selected(p) # {} /\ Ended(p) = {} /\ StoppedAnew(p) = {}
    /\ "NO_HANG" \notin call[p].options
    /\ Sleep(p)
    /\ UNCHANGED <<idVars, signalVars, stopVars, alarm, call>>

(* Mutant: the test before the sleep is forgotten.                         *)
PauseSleepUntested(p) ==
    /\ InCall(p, "pause")
    /\ Sleep(p)
    /\ UNCHANGED <<idVars, signalVars, stopVars, alarm, call>>

(* ProcessPause: EINTR at once where a signal is pending.                  *)
PauseSleep(p) ==
    /\ InCall(p, "pause") /\ pending[p] = {}
    /\ Sleep(p)
    /\ UNCHANGED <<idVars, signalVars, stopVars, alarm, call>>

PauseInterrupted(p) ==
    /\ InCall(p, "pause") /\ pending[p] # {}
    /\ ToWayOut(p, pending[p])
    /\ UNCHANGED <<idVars, signalVars, stopVars, alarm, thread, call, current>>

(* VfsPipeRead and VfsPipeWrite, seen from here: the transfer is possible, *)
(* or the thread sleeps upon the pipe, again without a look at pending.    *)
PipeTransfer(p) ==
    /\ InCall(p, "pipe")
    /\ Returns(p)
    /\ UNCHANGED <<idVars, signalVars, stopVars, alarm, thread, current>>

PipeSleep(p) ==
    /\ InCall(p, "pipe")
    /\ Sleep(p)
    /\ UNCHANGED <<idVars, signalVars, stopVars, alarm, call>>

(* The other end of q's pipe is read, written or closed by p.              *)
PipeWake(p) ==
    \E q \in Proc :
        /\ Makes(p, "pipe")
        /\ thread[q] = "blocked" /\ at[q] = "call" /\ call[q].op = "pipe"
        /\ thread' = Admit({q})
        /\ ToWayOut(p, pending[p])
        /\ UNCHANGED <<idVars, signalVars, stopVars, alarm, call, current>>

----------------------------------------------------------------------------
(* The scheduler, as the processes see it.                                 *)

(* A ready thread is switched to, and does what stands after its sleep or  *)
(* its pre-emption, up to the next test.  A child's first entry into       *)
(* privilege level 3 passes no delivery (ThreadTrampolineEntry).           *)
Resume(p) ==
    /\ current = NoProc /\ thread[p] = "ready"
    /\ current' = p
    /\ thread' = [thread EXCEPT ![p] = "running"]
    /\ at' = [at EXCEPT ![p] =
                CASE at[p] = "entry" -> "user"
                  [] at[p] = "call" /\ pending[p] = {} /\ call[p].op # "pause" -> "scan"
                  [] OTHER -> WayOut(pending[p])]
    /\ call' = [call EXCEPT ![p] =
                  IF at[p] = "call" /\ @.op = "pause" /\ pending[p] = {} THEN NoCall ELSE @]
    /\ UNCHANGED <<idVars, signalVars, stopVars, alarm>>

(* SchedulerHandleTick: the alarms that have fallen due are sent, and the  *)
(* thread at privilege level 3 goes to the back of the queue.              *)
Tick ==
    \E due \in SUBSET {q \in Proc : alarm[q]} :
        /\ IF current = NoProc THEN due # {} ELSE at[current] = "user"
        /\ alarm' = [q \in Proc |-> alarm[q] /\ q \notin due]
        /\ pending' = IF due = {} THEN pending ELSE PendingAfter(due, SIGALRM)
        /\ thread' = [q \in Proc |->
                        IF q = current THEN "ready"
                        ELSE IF due # {} /\ q \in Roused(due, SIGALRM) THEN "ready"
                        ELSE thread[q]]
        /\ at' = [q \in Proc |-> IF q = current THEN "trap" ELSE at[q]]
        /\ current' = NoProc
        /\ UNCHANGED <<idVars, handlers, stopVars, call>>

----------------------------------------------------------------------------
(* init is the first process, launched by the kernel with no parent.       *)
Init ==
    /\ nextId = 2
    /\ state = [p \in Proc |-> IF p = Init1 THEN "READY" ELSE "UNUSED"]
    /\ parent = [p \in Proc |-> NoProc]
    /\ group = [p \in Proc |-> IF p = Init1 THEN Init1 ELSE NoProc]
    /\ pending = [p \in Proc |-> {}]
    /\ handlers = [p \in Proc |-> [s \in Signals |-> DEFAULT]]
    /\ stopReported = [p \in Proc |-> FALSE]
    /\ alarm = [p \in Proc |-> FALSE]
    /\ thread = [p \in Proc |-> IF p = Init1 THEN "ready" ELSE "none"]
    /\ at = [p \in Proc |-> IF p = Init1 THEN "entry" ELSE "none"]
    /\ call = [p \in Proc |-> NoCall]
    /\ current = NoProc

(* What the program chooses to do.                                         *)
Program(p) ==
    \/ OtherCall(p)
    \/ ProcessFork(p)
    \/ ProcessExecute(p)
    \/ ProcessExit(p)
    \/ Fault(p)
    \/ SyscallDoKill(p)
    \/ SignalSetDisposition(p)
    \/ SyscallDoSetProcessGroup(p)
    \/ ProcessAlarm(p)
    \/ BeginWait(p)
    \/ BeginPause(p)
    \/ BeginPipe(p)
    \/ PipeWake(p)

(* What the kernel does for it once it is inside a call that may sleep.    *)
Scan(p) ==
    \/ WaitNoChild(p)
    \/ WaitCollect(p)
    \/ WaitReportStop(p)
    \/ WaitNoHang(p)
    \/ WaitSleep(p)
    \/ PauseSleep(p)
    \/ PauseInterrupted(p)
    \/ PipeTransfer(p)
    \/ PipeSleep(p)

Next ==
    \/ \E p \in Proc : Program(p) \/ Redo(p) \/ Scan(p) \/ Deliver(p) \/ Resume(p)
    \/ Tick

(* The kernel finishes what it is doing, the program's restarted SYSCALL   *)
(* is executed, a tick that falls due while interrupts are masked in a     *)
(* call is taken on the return from it (so Tick is strongly fair), and the *)
(* first-in first-out queue reaches every ready thread.  Nothing is        *)
(* assumed of what programs choose.                                        *)
Fairness ==
    /\ \A p \in Proc : /\ WF_vars(Scan(p) \/ Deliver(p) \/ Redo(p))
                       /\ SF_vars(Resume(p))
    /\ SF_vars(Tick)

Spec == Init /\ [][Next]_vars
FairSpec == Spec /\ Fairness
----------------------------------------------------------------------------
(* Properties.                                                             *)

Asleep(p) == thread[p] = "blocked" /\ at[p] = "call"

(* No wake is lost: a parent asleep in waitpid has no child that it should *)
(* have been woken for, neither an ended one nor, where it asked, one that *)
(* stopped and was not reported (the masked scan-and-sleep of              *)
(* ProcessWaitFor against the endings, stops and adoptions of others).     *)
(* An orphan that is already stopped when init adopts it is not announced, *)
(* so the second half is not claimed of init.                              *)
NoLostChild ==
    \A p \in Proc :
        Asleep(p) /\ call[p].op = "wait" =>
            /\ Ended(p) = {}
            /\ p # Init1 => StoppedAnew(p) = {}

(* A parent never sleeps for children it does not have: one asleep in      *)
(* waitpid for any child or for one child still has that child, however    *)
(* many generations have ended, been adopted and been collected meanwhile. *)
WaiterHasChild ==
    \A p \in Proc :
        Asleep(p) /\ call[p].op = "wait" /\ call[p].pid >= -1 => Selected(p) # {}

(* Every ended process has somebody alive to collect it, as long as init   *)
(* lives (ProcessAdoptOrphansOf): no zombie is ever left with a dead       *)
(* parent, in whatever order a family ends.                                *)
EndedHaveCollector ==
    Alive(Init1) =>
        \A c \in Proc : state[c] = "EXITED" => parent[c] \in Proc /\ Alive(parent[c])

(* A process is stopped exactly when its thread sleeps upon its own stop   *)
(* channel: a stopped process never runs on, and a continued or killed one *)
(* is never left asleep there (SignalStopCurrent, SignalContinue).         *)
StoppedIffAsleepStopped ==
    \A p \in Proc : state[p] = "STOPPED" <=> thread[p] = "blocked" /\ at[p] = "stop"

(* ProcessPause never sleeps through a signal: the test of the pending set *)
(* and the sleep are one section, and every later send rouses the sleeper. *)
PauseHearsSignals ==
    \A p \in Proc : Asleep(p) /\ call[p].op = "pause" => pending[p] = {}

(* Something with a handler is delivered before SIGKILL would be: delivery *)
(* takes the lowest number first and ends where a handler is entered.      *)
Outranked(p) == \E s \in pending[p] : s < SIGKILL /\ handlers[p][s] = HANDLER

MeetsKill(p) == SIGKILL \in pending[p] /\ at[p] \in {"trap", "out", "stop"}

(* SIGKILL ends a process that is stopped, pre-empted or on a way out,     *)
(* whatever else happens to it meanwhile, unless a handled signal of a     *)
(* lower number comes to be pending beside it (SignalSend, SignalTake,     *)
(* SignalDeliver).                                                         *)
KillReaches == \A p \in Proc : MeetsKill(p) ~> (~Alive(p) \/ Outranked(p))

(* "a process can always be ended": a process with SIGKILL pending ends,   *)
(* wherever the signal found it.                                           *)
KillIsFatal == \A p \in Proc : SIGKILL \in pending[p] ~> ~Alive(p)

(* "SIGCONT to a stopped process is the exception": whatever disposition a *)
(* process gave SIGCONT, sending it while the process is stopped continues *)
(* the process.                                                            *)
StoppedCanBeContinued ==
    \A q \in Proc : state[q] = "STOPPED" => StateAfter({q}, SIGCONT)[q] # "STOPPED"
=============================================================================
