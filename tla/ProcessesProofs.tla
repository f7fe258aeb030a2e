-------------------------- MODULE ProcessesProofs --------------------------
(***************************************************************************)
(* The life of processes, for any number of them, any programs and any     *)
(* signals: no ending, stop or signal is slept through, nobody sleeps for  *)
(* a child it does not have, and no ended process is left uncollected.     *)
(***************************************************************************)
EXTENDS Processes, Supervisor, FiniteSetTheorems, TLAPS

(* Where a thread stands, against the state of its process.                *)
Threads ==
    \A p \in Proc :
        /\ thread[p] = "running" <=> current = p
        /\ state[p] = "UNUSED" <=> thread[p] = "none"
        /\ state[p] = "EXITED" <=> thread[p] = "exited"
        /\ thread[p] = "running" => at[p] \in {"user", "scan", "out"}
        /\ thread[p] = "blocked" => at[p] \in {"call", "stop"}

(* Identifiers are not handed out twice, a parent is older than its child, *)
(* and while init lives every other process has a parent that lives.       *)
Families ==
    \A c \in Proc : Used(c) =>
        /\ c < nextId /\ parent[c] < c
        /\ Alive(Init1) /\ c # Init1 => parent[c] \in Proc /\ Alive(parent[c])

Alarms == \A p \in Proc : alarm[p] => SIGALRM \in Signals

ProcInv ==
    /\ TypeOK /\ Threads /\ Families /\ Alarms /\ StoppedIffAsleepStopped
    /\ NoLostChild /\ WaiterHasChild /\ PauseHearsSignals

-----------------------------------------------------------------------------
(* The constants, and what the invariant says of one process.              *)

(* What the constants say of process numbers and signals.                  *)
LEMMA Numbers ==
    /\ MaxId \in Nat \ {0} /\ Proc = 1 .. MaxId /\ Init1 \in Proc /\ NoProc \notin Proc
    /\ \A p \in Proc : p \in Nat /\ p >= 1
    /\ SIGCHLD \in Signals /\ Signals \subseteq 1 .. 31
BY MaxIdAssumption, SignalsAssumption DEF Proc, Init1, NoProc

(* The absence of a call is a call in the sense of the type.               *)
LEMMA NoCallIs == NoCall \in Call /\ NoCall.op = "none"
BY DEF NoCall, Call, OptionSets

(* The thread of a live process is one of three things.                    *)
LEMMA AliveIs ==
    ASSUME ProcInv, NEW p \in Proc
    PROVE  /\ Alive(p) <=> thread[p] \in {"ready", "running", "blocked"}
           /\ Asleep(p) => state[p] = "READY" /\ current # p
           /\ current = p => state[p] = "READY" /\ ~Asleep(p)
<1>1. /\ state[p] \in {"UNUSED", "READY", "STOPPED", "EXITED"}
      /\ thread[p] \in {"none", "ready", "running", "blocked", "exited"}
  BY DEF ProcInv, TypeOK
<1>2. /\ thread[p] = "running" <=> current = p
      /\ state[p] = "UNUSED" <=> thread[p] = "none"
      /\ state[p] = "EXITED" <=> thread[p] = "exited"
      /\ thread[p] = "running" => at[p] \in {"user", "scan", "out"}
      /\ state[p] = "STOPPED" <=> thread[p] = "blocked" /\ at[p] = "stop"
  BY DEF ProcInv, Threads, StoppedIffAsleepStopped
<1> QED
  BY <1>1, <1>2 DEF Alive, Asleep

-----------------------------------------------------------------------------
(* A step inside the kernel, or out of it, by the process that runs, which *)
(* changes nobody's state and wakes nobody.                                *)
LEMMA InsideKeeps ==
    ASSUME ProcInv, NEW p \in Proc, current = p,
           UNCHANGED <<nextId, state, parent, thread, current>>,
           TypeOK', Alarms',
           at'[p] \in {"user", "scan", "out"},
           \A q \in Proc \ {p} : at'[q] = at[q] /\ call'[q] = call[q] /\ pending'[q] = pending[q],
           \A c \in Proc : c # p /\ parent[c] # p => group'[c] = group[c],
           \A c \in Proc : ~stopReported'[c] => ~stopReported[c]
    PROVE  ProcInv'
<1>1. /\ TypeOK /\ Threads /\ Families /\ Alarms /\ StoppedIffAsleepStopped
      /\ NoLostChild /\ WaiterHasChild /\ PauseHearsSignals
  BY DEF ProcInv
<1>2. state[p] = "READY" /\ thread[p] = "running"
  BY <1>1, AliveIs DEF Threads
<1>3. Threads' /\ StoppedIffAsleepStopped'
  BY <1>1, <1>2 DEF Threads, StoppedIffAsleepStopped
<1>4. Families'
  BY <1>1 DEF Families, Used, Alive
<1>5. ASSUME NEW q \in Proc, Asleep(q)'
      PROVE  /\ q # p /\ Asleep(q) /\ call'[q] = call[q] /\ pending'[q] = pending[q]
             /\ Ended(q)' \subseteq Ended(q) /\ StoppedAnew(q)' \subseteq StoppedAnew(q)
             /\ call[q].pid >= -1 => Selected(q) \subseteq Selected(q)'
  <2>1. q # p /\ Asleep(q) /\ call'[q] = call[q] /\ pending'[q] = pending[q]
    BY <1>2, <1>5 DEF Asleep
  <2>2. Children(q)' = Children(q)
    BY DEF Children, Used
  <2>3. \A c \in Children(q) : c # p => group'[c] = group[c]
    BY <2>1 DEF Children
  <2>4. \A c \in Selected(q)' : c \in Children(q) /\ (c # p => c \in Selected(q))
    BY <2>1, <2>2, <2>3 DEF Selected
  <2>5. Ended(q)' \subseteq Ended(q) /\ StoppedAnew(q)' \subseteq StoppedAnew(q)
    <3>1. Ended(q)' \subseteq Ended(q)
      BY <1>2, <2>4 DEF Ended
    <3>2. StoppedAnew(q)' \subseteq StoppedAnew(q)
      <4> SUFFICES ASSUME NEW c \in StoppedAnew(q)' PROVE c \in StoppedAnew(q)
        OBVIOUS
      <4>1. /\ c \in Selected(q)' /\ "UNTRACED" \in call[q].options
            /\ state[c] = "STOPPED" /\ ~stopReported'[c]
        BY <2>1 DEF StoppedAnew
      <4>2. c \in Proc
        BY <2>4, <4>1 DEF Children
      <4> QED
        BY <1>2, <2>4, <4>1, <4>2 DEF StoppedAnew
    <3> QED
      BY <3>1, <3>2
  <2>6. call[q] \in Call
    BY <1>1 DEF TypeOK
  <2>7. call[q].pid >= -1 => Selected(q) \subseteq Selected(q)'
    BY <2>1, <2>2, <2>6 DEF Selected, Call
  <2> QED
    BY <2>1, <2>5, <2>7
<1>6. NoLostChild'
  BY <1>1, <1>5 DEF NoLostChild
<1>7. WaiterHasChild'
  BY <1>1, <1>5 DEF WaiterHasChild
<1>8. PauseHearsSignals'
  BY <1>1, <1>5 DEF PauseHearsSignals
<1> QED
  BY <1>3, <1>4, <1>6, <1>7, <1>8 DEF ProcInv

(* The calls and deliveries that are such steps.                           *)
LEMMA WayOutIs ==
    ASSUME NEW set
    PROVE  WayOut(set) \in {"user", "scan", "out"} /\ WayOut(set) \in Places
BY DEF WayOut, Places

(* The calls that neither sleep nor end anything keep the invariant.       *)
LEMMA PlainCallsKeep ==
    ASSUME ProcInv, NEW p \in Proc,
           \/ OtherCall(p) \/ ProcessExecute(p) \/ SignalSetDisposition(p)
           \/ SyscallDoSetProcessGroup(p) \/ ProcessAlarm(p)
    PROVE  ProcInv'
<1>1. TypeOK /\ Alarms
  BY DEF ProcInv
<1>2. \A set : WayOut(set) \in {"user", "scan", "out"} /\ WayOut(set) \in Places
  BY WayOutIs
<1>3. CASE OtherCall(p)
  <2>1. /\ current = p /\ UNCHANGED <<idVars, signalVars, stopVars, alarm, thread, call, current>>
        /\ at' = [at EXCEPT ![p] = WayOut(pending[p])]
    BY <1>3 DEF OtherCall, Makes, InUser, ToWayOut
  <2> QED
    BY <1>1, <1>2, <2>1, InsideKeeps DEF TypeOK, Alarms, idVars, signalVars, stopVars
<1>4. CASE ProcessExecute(p)
  <2>1. /\ current = p /\ UNCHANGED <<idVars, pending, stopVars, alarm, thread, call, current>>
        /\ at' = [at EXCEPT ![p] = "user"]
        /\ handlers' = [handlers EXCEPT ![p] =
                      [s \in Signals |-> IF handlers[p][s] = IGNORE THEN IGNORE ELSE DEFAULT]]
    BY <1>4 DEF ProcessExecute, Makes, InUser
  <2>2. handlers' \in [Proc -> [Signals -> {DEFAULT, IGNORE, HANDLER}]]
    BY <1>1, <2>1 DEF TypeOK
  <2>3. "user" \in Places
    BY DEF Places
  <2> QED
    BY <1>1, <2>1, <2>2, <2>3, InsideKeeps DEF TypeOK, Alarms, idVars, stopVars
<1>5. CASE SignalSetDisposition(p)
  <2>1. PICK s \in Signals, d \in Dispositions :
          /\ handlers' = [handlers EXCEPT ![p][s] = d]
          /\ pending' = [pending EXCEPT ![p] =
                           IF d = IGNORE THEN pending[p] \ {s} ELSE pending[p]]
          /\ ToWayOut(p, IF d = IGNORE THEN pending[p] \ {s} ELSE pending[p])
          /\ current = p /\ UNCHANGED <<idVars, stopVars, alarm, thread, call, current>>
    BY <1>5 DEF SignalSetDisposition, Makes, InUser
  <2>2. d \in {DEFAULT, IGNORE, HANDLER}
    BY DispositionsAssumption
  <2>3. /\ handlers' \in [Proc -> [Signals -> {DEFAULT, IGNORE, HANDLER}]]
        /\ pending' \in [Proc -> SUBSET Signals]
    BY <1>1, <2>1, <2>2 DEF TypeOK
  <2>4. at' \in [Proc -> Places] /\ at'[p] \in {"user", "scan", "out"}
        /\ \A q \in Proc \ {p} : at'[q] = at[q]
    BY <1>1, <1>2, <2>1 DEF ToWayOut, TypeOK
  <2>5. \A q \in Proc \ {p} : pending'[q] = pending[q]
    BY <1>1, <2>1 DEF TypeOK
  <2> QED
    BY <1>1, <2>1, <2>3, <2>4, <2>5, InsideKeeps DEF TypeOK, Alarms, idVars, stopVars
<1>6. CASE SyscallDoSetProcessGroup(p)
  <2>1. PICK q \in Children(p) \cup {p}, g \in Proc :
          /\ group' = [group EXCEPT ![q] = g]
          /\ current = p
          /\ UNCHANGED <<nextId, parent, signalVars, stopVars, alarm, thread, call, current>>
          /\ at' = [at EXCEPT ![p] = WayOut(pending[p])]
    BY <1>6 DEF SyscallDoSetProcessGroup, Makes, InUser, ToWayOut
  <2>2. group' \in [Proc -> Proc \cup {NoProc}]
    BY <1>1, <2>1 DEF TypeOK, Children
  <2>3. \A c \in Proc : c # p /\ parent[c] # p => group'[c] = group[c]
    BY <1>1, <2>1 DEF Children, TypeOK
  <2> QED
    BY <1>1, <1>2, <2>1, <2>2, <2>3, InsideKeeps DEF TypeOK, Alarms, signalVars, stopVars
<1>7. CASE ProcessAlarm(p)
  <2>1. PICK on \in BOOLEAN :
          /\ alarm' = [alarm EXCEPT ![p] = on]
          /\ current = p /\ "alarm" \in Calls[p]
          /\ UNCHANGED <<idVars, signalVars, stopVars, thread, call, current>>
          /\ at' = [at EXCEPT ![p] = WayOut(pending[p])]
    BY <1>7 DEF ProcessAlarm, Makes, InUser, ToWayOut
  <2>2. alarm' \in [Proc -> BOOLEAN]
    BY <1>1, <2>1 DEF TypeOK
  <2>3. SIGALRM \in Signals
    BY <2>1, CallsAssumption
  <2> QED
    BY <1>1, <1>2, <2>1, <2>2, <2>3, InsideKeeps
    DEF TypeOK, Alarms, idVars, signalVars, stopVars
<1> QED
  BY <1>3, <1>4, <1>5, <1>6, <1>7

(* Entering the kernel with a call keeps the invariant.                    *)
LEMMA BeginKeeps ==
    ASSUME ProcInv, NEW p \in Proc, NEW c \in Call, current = p, Begin(p, c)
    PROVE  ProcInv'
<1>1. TypeOK /\ Alarms /\ "scan" \in Places
  BY DEF ProcInv, Places
<1> QED
  BY <1>1, InsideKeeps DEF Begin, TypeOK, Alarms, idVars, signalVars, stopVars

(* Each call that may sleep keeps the invariant as it begins, or begins    *)
(* again after a signal.                                                   *)
LEMMA BeginningsKeep ==
    ASSUME ProcInv, NEW p \in Proc,
           BeginWait(p) \/ BeginPause(p) \/ BeginPipe(p) \/ Redo(p)
    PROVE  ProcInv'
<1>1. CASE BeginWait(p)
  <2>1. PICK w \in WaitPids, o \in WaitOptions :
          Begin(p, [op |-> "wait", pid |-> w, options |-> o]) /\ current = p
    BY <1>1 DEF BeginWait, Makes, InUser
  <2>2. w \in Int /\ o \in OptionSets
    BY WaitAssumption
  <2>3. [op |-> "wait", pid |-> w, options |-> o] \in Call
    BY <2>2 DEF Call
  <2> QED
    BY <2>1, <2>3, BeginKeeps
<1>2. [NoCall EXCEPT !.op = "pause"] \in Call /\ [NoCall EXCEPT !.op = "pipe"] \in Call
  BY DEF NoCall, Call, OptionSets
<1>3. CASE BeginPause(p)
  BY <1>2, <1>3, BeginKeeps DEF BeginPause, Makes, InUser
<1>4. CASE BeginPipe(p)
  BY <1>2, <1>4, BeginKeeps DEF BeginPipe, Makes, InUser
<1>5. CASE Redo(p)
  <2>1. call[p] \in Call
    BY DEF ProcInv, TypeOK
  <2> QED
    BY <1>5, <2>1, BeginKeeps DEF Redo
<1> QED
  BY <1>1, <1>3, <1>4, <1>5

(* The returns from waitpid, pause and a pipe keep the invariant.          *)
LEMMA ReturnsKeep ==
    ASSUME ProcInv, NEW p \in Proc,
           \/ WaitNoChild(p) \/ WaitReportStop(p) \/ WaitNoHang(p)
           \/ PauseInterrupted(p) \/ PipeTransfer(p)
    PROVE  ProcInv'
<1>1. TypeOK /\ Alarms
  BY DEF ProcInv
<1>2. WayOut(pending[p]) \in {"user", "scan", "out"} /\ WayOut(pending[p]) \in Places
  BY WayOutIs
<1>3. NoCall \in Call
  BY NoCallIs
<1>4. CASE WaitNoChild(p) \/ WaitNoHang(p) \/ PipeTransfer(p)
  <2>1. /\ current = p /\ call' = [call EXCEPT ![p] = NoCall]
        /\ at' = [at EXCEPT ![p] = WayOut(pending[p])]
        /\ UNCHANGED <<idVars, signalVars, stopVars, alarm, thread, current>>
    BY <1>4 DEF WaitNoChild, WaitNoHang, PipeTransfer, InCall, Returns, ToWayOut
  <2> QED
    BY <1>1, <1>2, <1>3, <2>1, InsideKeeps DEF TypeOK, Alarms, idVars, signalVars, stopVars
<1>5. CASE WaitReportStop(p)
  <2>1. PICK c \in StoppedAnew(p) :
          /\ stopReported' = [stopReported EXCEPT ![c] = TRUE]
          /\ current = p /\ call' = [call EXCEPT ![p] = NoCall]
          /\ at' = [at EXCEPT ![p] = WayOut(pending[p])]
          /\ UNCHANGED <<idVars, signalVars, state, alarm, thread, current>>
    BY <1>5 DEF WaitReportStop, InCall, Returns, ToWayOut
  <2>2. stopReported' \in [Proc -> BOOLEAN] /\ \A q \in Proc : ~stopReported'[q] => ~stopReported[q]
    BY <1>1, <2>1 DEF TypeOK
  <2> QED
    BY <1>1, <1>2, <1>3, <2>1, <2>2, InsideKeeps DEF TypeOK, Alarms, idVars, signalVars
<1>6. CASE PauseInterrupted(p)
  <2>1. /\ current = p
        /\ at' = [at EXCEPT ![p] = WayOut(pending[p])]
        /\ UNCHANGED <<idVars, signalVars, stopVars, alarm, thread, call, current>>
    BY <1>6 DEF PauseInterrupted, InCall, ToWayOut
  <2> QED
    BY <1>1, <1>2, <2>1, InsideKeeps DEF TypeOK, Alarms, idVars, signalVars, stopVars
<1> QED
  BY <1>4, <1>5, <1>6

(* A way out of the kernel that ends and stops nothing keeps the           *)
(* invariant.                                                              *)
LEMMA DeliveriesKeep ==
    ASSUME ProcInv, NEW p \in Proc,
           DeliverNone(p) \/ DeliverNothing(p) \/ DeliverHandler(p)
    PROVE  ProcInv'
<1>1. TypeOK /\ Alarms /\ "user" \in Places /\ NoCall \in Call
  BY NoCallIs DEF ProcInv, Places
<1>2. CASE DeliverNone(p)
  <2>1. /\ current = p /\ at' = [at EXCEPT ![p] = "user"]
        /\ UNCHANGED <<idVars, signalVars, stopVars, alarm, thread, call, current>>
    BY <1>2 DEF DeliverNone, OnWayOut
  <2> QED
    BY <1>1, <2>1, InsideKeeps DEF TypeOK, Alarms, idVars, signalVars, stopVars
<1>3. Take(p) => /\ pending' \in [Proc -> SUBSET Signals]
                 /\ \A q \in Proc \ {p} : pending'[q] = pending[q]
  BY <1>1 DEF Take, TypeOK
<1>4. CASE DeliverNothing(p)
  <2>1. /\ current = p /\ at[p] = "out" /\ Take(p)
        /\ UNCHANGED <<idVars, stopVars, handlers, alarm, runVars>>
    BY <1>4 DEF DeliverNothing, OnWayOut
  <2> QED
    BY <1>1, <1>3, <2>1, InsideKeeps DEF TypeOK, Alarms, idVars, stopVars, runVars
<1>5. CASE DeliverHandler(p)
  <2>1. /\ current = p /\ at' = [at EXCEPT ![p] = "user"] /\ Take(p)
        /\ call' = [call EXCEPT ![p] = NoCall]
        /\ UNCHANGED <<idVars, stopVars, handlers, alarm, thread, current>>
    BY <1>5 DEF DeliverHandler, OnWayOut
  <2> QED
    BY <1>1, <1>3, <2>1, InsideKeeps DEF TypeOK, Alarms, idVars, stopVars
<1> QED
  BY <1>2, <1>4, <1>5

-----------------------------------------------------------------------------
(* Going to sleep.                                                         *)
LEMMA SleepKeeps ==
    ASSUME ProcInv, NEW p \in Proc, current = p, Sleep(p),
           UNCHANGED <<idVars, signalVars, stopVars, alarm, call>>,
           call[p].op = "wait" => /\ Ended(p) = {} /\ StoppedAnew(p) = {}
                                  /\ Selected(p) # {},
           call[p].op = "pause" => pending[p] = {}
    PROVE  ProcInv'
<1>1. /\ TypeOK /\ Threads /\ Families /\ Alarms /\ StoppedIffAsleepStopped
      /\ NoLostChild /\ WaiterHasChild /\ PauseHearsSignals
  BY DEF ProcInv
<1>2. /\ UNCHANGED <<nextId, state, parent, group, pending, handlers, stopReported, alarm, call>>
      /\ thread' = [thread EXCEPT ![p] = "blocked"]
      /\ at' = [at EXCEPT ![p] = "call"] /\ current' = NoProc
  BY DEF Sleep, idVars, signalVars, stopVars
<1>3. state[p] = "READY" /\ thread[p] = "running" /\ \A q \in Proc : q # NoProc
  BY <1>1, AliveIs, Numbers DEF Threads
<1>4. TypeOK' /\ Alarms' /\ Families'
  BY <1>1, <1>2 DEF TypeOK, Alarms, Families, Places, Used, Alive
<1>5. Threads' /\ StoppedIffAsleepStopped'
  BY <1>1, <1>2, <1>3 DEF TypeOK, Threads, StoppedIffAsleepStopped
<1>6. ASSUME NEW q \in Proc, Asleep(q)'
      PROVE  q = p \/ Asleep(q)
  BY <1>1, <1>2, <1>6 DEF Asleep, TypeOK
<1>7. \A q \in Proc : /\ Selected(q)' = Selected(q) /\ Ended(q)' = Ended(q)
                      /\ StoppedAnew(q)' = StoppedAnew(q)
  BY <1>2 DEF Selected, Ended, StoppedAnew, Children, Used
<1>8. NoLostChild' /\ WaiterHasChild' /\ PauseHearsSignals'
  BY <1>1, <1>2, <1>6, <1>7 DEF NoLostChild, WaiterHasChild, PauseHearsSignals
<1> QED
  BY <1>4, <1>5, <1>8 DEF ProcInv

(* Going to sleep keeps the invariant: the test that led to it found no    *)
(* child and no signal.                                                    *)
LEMMA SleepsKeep ==
    ASSUME ProcInv, NEW p \in Proc, WaitSleep(p) \/ PauseSleep(p) \/ PipeSleep(p)
    PROVE  ProcInv'
BY SleepKeeps DEF WaitSleep, PauseSleep, PipeSleep, InCall

-----------------------------------------------------------------------------
(* Steps after which fewer sleep, and nobody has ended or stopped.         *)
LEMMA FewerAsleep ==
    ASSUME ProcInv, UNCHANGED <<parent, group>>,
           \A q \in Proc : Asleep(q)' =>
              /\ Asleep(q) /\ call'[q] = call[q]
              /\ call[q].op = "pause" /\ pending[q] = {} => pending'[q] = {},
           \A c \in Proc :
              /\ Used(c)' <=> Used(c)
              /\ state'[c] = "EXITED" => state[c] = "EXITED"
              /\ state'[c] = "STOPPED" /\ ~stopReported'[c] =>
                    state[c] = "STOPPED" /\ ~stopReported[c]
    PROVE  NoLostChild' /\ WaiterHasChild' /\ PauseHearsSignals'
<1>1. NoLostChild /\ WaiterHasChild /\ PauseHearsSignals
  BY DEF ProcInv
<1>2. ASSUME NEW q \in Proc, Asleep(q)'
      PROVE  /\ Selected(q)' = Selected(q) /\ Ended(q)' \subseteq Ended(q)
             /\ StoppedAnew(q)' \subseteq StoppedAnew(q)
  <2>1. Children(q)' = Children(q)
    BY DEF Children
  <2>2. call'[q] = call[q]
    BY <1>2
  <2>3. Selected(q)' = Selected(q) /\ Selected(q) \subseteq Proc
    BY <2>1, <2>2 DEF Selected, Children
  <2>4. Ended(q)' \subseteq Ended(q)
    BY <2>3 DEF Ended
  <2>5. StoppedAnew(q)' \subseteq StoppedAnew(q)
    <3> SUFFICES ASSUME NEW c \in StoppedAnew(q)' PROVE c \in StoppedAnew(q)
      OBVIOUS
    <3>1. /\ c \in Selected(q) /\ c \in Proc /\ "UNTRACED" \in call[q].options
          /\ state'[c] = "STOPPED" /\ ~stopReported'[c]
      BY <2>2, <2>3 DEF StoppedAnew
    <3> QED
      BY <3>1 DEF StoppedAnew
  <2> QED
    BY <2>3, <2>4, <2>5
<1>3. NoLostChild'
  BY <1>1, <1>2 DEF NoLostChild
<1>4. WaiterHasChild'
  BY <1>1, <1>2 DEF WaiterHasChild
<1>5. PauseHearsSignals'
  BY <1>1 DEF PauseHearsSignals
<1> QED
  BY <1>3, <1>4, <1>5

(* A wake of those asleep upon a pipe keeps the invariant.                 *)
LEMMA PipeWakeKeeps ==
    ASSUME ProcInv, NEW p \in Proc, PipeWake(p)
    PROVE  ProcInv'
<1>1. /\ TypeOK /\ Threads /\ Families /\ Alarms /\ StoppedIffAsleepStopped
  BY DEF ProcInv
<1>2. PICK q \in Proc :
        /\ current = p /\ thread[q] = "blocked" /\ at[q] = "call"
        /\ thread' = Admit({q})
        /\ at' = [at EXCEPT ![p] = WayOut(pending[p])]
        /\ UNCHANGED <<idVars, signalVars, stopVars, alarm, call, current>>
  BY DEF PipeWake, Makes, InUser, ToWayOut
<1>3. /\ UNCHANGED <<nextId, state, parent, group, pending, handlers, stopReported, alarm,
                     call, current>>
      /\ \A c \in Proc : thread'[c] = IF c = q THEN "ready" ELSE thread[c]
      /\ \A c \in Proc : c # p => at'[c] = at[c]
      /\ at'[p] \in {"user", "scan", "out"} /\ at' \in [Proc -> Places]
      /\ thread' \in [Proc -> {"none", "ready", "running", "blocked", "exited"}]
  BY <1>1, <1>2, WayOutIs DEF idVars, signalVars, stopVars, Admit, TypeOK
<1>4. thread[p] = "running" /\ state[q] = "READY" /\ state[p] = "READY"
  BY <1>1, <1>2, AliveIs DEF Threads, Asleep
<1>5. TypeOK' /\ Alarms' /\ Families'
  BY <1>1, <1>3 DEF TypeOK, Alarms, Families, Used, Alive
<1>6. Threads' /\ StoppedIffAsleepStopped'
  BY <1>1, <1>2, <1>3, <1>4 DEF Threads, StoppedIffAsleepStopped
<1>7. \A c \in Proc : Asleep(c)' => Asleep(c)
  BY <1>3, <1>4 DEF Asleep
<1>8. NoLostChild' /\ WaiterHasChild' /\ PauseHearsSignals'
  BY <1>3, <1>7, FewerAsleep DEF Used
<1> QED
  BY <1>5, <1>6, <1>8 DEF ProcInv

(* The switch to a ready process keeps the invariant.                      *)
LEMMA ResumeKeeps ==
    ASSUME ProcInv, NEW p \in Proc, Resume(p)
    PROVE  ProcInv'
<1>1. /\ TypeOK /\ Threads /\ Families /\ Alarms /\ StoppedIffAsleepStopped
  BY DEF ProcInv
<1> DEFINE place == CASE at[p] = "entry" -> "user"
                      [] at[p] = "call" /\ pending[p] = {} /\ call[p].op # "pause" -> "scan"
                      [] OTHER -> WayOut(pending[p])
           after == IF at[p] = "call" /\ call[p].op = "pause" /\ pending[p] = {}
                    THEN NoCall ELSE call[p]
<1>2. /\ current = NoProc /\ thread[p] = "ready" /\ current' = p
      /\ thread' = [thread EXCEPT ![p] = "running"]
      /\ at' = [at EXCEPT ![p] = place]
      /\ call' = [call EXCEPT ![p] = after]
      /\ UNCHANGED <<nextId, state, parent, group, pending, handlers, stopReported, alarm>>
  BY DEF Resume, idVars, signalVars, stopVars
<1>3. place \in {"user", "scan", "out"} /\ place \in Places
  <2>1. WayOut(pending[p]) \in {"user", "scan", "out"}
    BY WayOutIs
  <2>2. place \in {"user", "scan", "out"}
    BY <2>1
  <2> QED
    BY <2>2 DEF Places
<1>4. after \in Call
  BY <1>1, NoCallIs DEF TypeOK
<1> HIDE DEF place, after
<1>5. /\ \A c \in Proc : thread'[c] = IF c = p THEN "running" ELSE thread[c]
      /\ \A c \in Proc : c # p => at'[c] = at[c] /\ call'[c] = call[c]
      /\ at'[p] = place
      /\ at' \in [Proc -> Places] /\ call' \in [Proc -> Call]
      /\ thread' \in [Proc -> {"none", "ready", "running", "blocked", "exited"}]
  BY <1>1, <1>2, <1>3, <1>4 DEF TypeOK
<1>6. state[p] = "READY"
  <2>1. Alive(p)
    BY <1>2, AliveIs
  <2> QED
    BY <1>1, <1>2, <2>1 DEF Alive, StoppedIffAsleepStopped
<1>7. TypeOK' /\ Alarms' /\ Families'
  BY <1>1, <1>2, <1>5 DEF TypeOK, Alarms, Families, Used, Alive
<1>8. Threads' /\ StoppedIffAsleepStopped'
  BY <1>1, <1>2, <1>3, <1>5, <1>6, Numbers DEF Threads, StoppedIffAsleepStopped
<1>9. \A c \in Proc : Asleep(c)' => Asleep(c) /\ call'[c] = call[c]
  BY <1>5 DEF Asleep
<1>10. NoLostChild' /\ WaiterHasChild' /\ PauseHearsSignals'
  BY <1>2, <1>9, FewerAsleep DEF Used
<1> QED
  BY <1>7, <1>8, <1>10 DEF ProcInv

-----------------------------------------------------------------------------
(* What sending a signal does.                                             *)
LEMMA Sends ==
    ASSUME ProcInv, NEW T \in SUBSET Proc, NEW s \in Signals
    PROVE  /\ PendingAfter(T, s) \in [Proc -> SUBSET Signals]
           /\ Roused(T, s) \subseteq T
           /\ \A q \in Proc : q \in Roused(T, s) => thread[q] = "blocked"
           /\ \A q \in Proc : q \in Roused(T, s) /\ state[q] = "STOPPED" =>
                 Continues(q, s) /\ Accepts(q, s)
           /\ \A q \in T : Accepts(q, s) /\ Continues(q, s) => q \in Roused(T, s)
           /\ \A q \in Proc : Asleep(q) /\ q \notin Roused(T, s) /\ pending[q] = {} =>
                 PendingAfter(T, s)[q] = {}
<1>1. TypeOK /\ Threads /\ StoppedIffAsleepStopped
  BY DEF ProcInv
<1>2. ASSUME NEW q \in Proc PROVE PendingWith(q, s) \in SUBSET Signals
  <2>1. pending[q] \in SUBSET Signals
    BY <1>1 DEF TypeOK
  <2>2. CASE s = SIGCONT
    BY <2>1, <2>2 DEF PendingWith
  <2>3. CASE s # SIGCONT /\ s \in Stops
    BY <2>1, <2>3 DEF PendingWith
  <2>4. CASE s # SIGCONT /\ s \notin Stops
    BY <2>1, <2>4 DEF PendingWith
  <2> QED
    BY <2>2, <2>3, <2>4
<1>3. PendingAfter(T, s) \in [Proc -> SUBSET Signals]
  BY <1>1, <1>2 DEF PendingAfter, TypeOK
<1>4. \A q \in Proc : q \in Roused(T, s) => thread[q] = "blocked"
  BY DEF Roused, Rouses
<1>5. \A q \in Proc : q \in Roused(T, s) /\ state[q] = "STOPPED" =>
         Continues(q, s) /\ Accepts(q, s)
  BY DEF Roused, Rouses
<1>6. \A q \in T : Accepts(q, s) /\ Continues(q, s) => q \in Roused(T, s)
  BY <1>1 DEF Roused, Rouses, Continues, StoppedIffAsleepStopped
<1>7. ASSUME NEW q \in Proc, Asleep(q), q \notin Roused(T, s), pending[q] = {}
      PROVE  PendingAfter(T, s)[q] = {}
  <2>1. CASE q \in T /\ Accepts(q, s)
    <3>1. state[q] # "STOPPED" /\ thread[q] = "blocked"
      BY <1>7, AliveIs DEF Asleep
    <3>2. s = SIGCONT /\ handlers[q][s] = DEFAULT
      BY <1>7, <2>1, <3>1 DEF Roused, Rouses
    <3>3. PendingWith(q, s) = {}
      BY <1>7, <3>2 DEF PendingWith, Stops, SIGCONT, SIGSTOP, SIGTSTP, SIGTTIN, SIGTTOU
    <3> QED
      BY <2>1, <3>3 DEF PendingAfter
  <2>2. CASE ~(q \in T /\ Accepts(q, s))
    BY <1>7, <2>2 DEF PendingAfter
  <2> QED
    BY <2>1, <2>2
<1> QED
  BY <1>3, <1>4, <1>5, <1>6, <1>7 DEF Roused

(* A signal raised for a set of processes keeps the invariant.             *)
LEMMA KillKeeps ==
    ASSUME ProcInv, NEW p \in Proc, NEW T \in SUBSET Proc, NEW s \in Signals, Kill(p, T, s)
    PROVE  ProcInv'
<1>1. /\ TypeOK /\ Threads /\ Families /\ Alarms /\ StoppedIffAsleepStopped
  BY DEF ProcInv
<1>2. /\ current = p /\ pending' = PendingAfter(T, s)
      /\ \A q \in Proc : state'[q] = IF q \in T /\ Accepts(q, s) /\ Continues(q, s)
                                       THEN "READY" ELSE state[q]
      /\ \A q \in Proc : stopReported'[q] = IF q \in T /\ Accepts(q, s) /\ Continues(q, s)
                                              THEN FALSE ELSE stopReported[q]
      /\ \A q \in Proc : thread'[q] = IF q \in Roused(T, s) THEN "ready" ELSE thread[q]
      /\ \A q \in Proc : q # p => at'[q] = at[q]
      /\ at'[p] \in {"user", "scan", "out"} /\ at' \in [Proc -> Places]
      /\ UNCHANGED <<nextId, parent, group, handlers, alarm, call, current>>
  BY <1>1, WayOutIs DEF Kill, Makes, InUser, StateAfter, ReportedAfter, Admit, ToWayOut,
     TypeOK, idVars
<1>3. /\ PendingAfter(T, s) \in [Proc -> SUBSET Signals]
      /\ \A q \in Proc : q \in Roused(T, s) => thread[q] = "blocked"
      /\ \A q \in Proc : q \in Roused(T, s) /\ state[q] = "STOPPED" =>
            Continues(q, s) /\ Accepts(q, s)
      /\ \A q \in T : Accepts(q, s) /\ Continues(q, s) => q \in Roused(T, s)
      /\ \A q \in Proc : Asleep(q) /\ q \notin Roused(T, s) /\ pending[q] = {} =>
            PendingAfter(T, s)[q] = {}
      /\ Roused(T, s) \subseteq T
  BY Sends
<1>4. /\ state' \in [Proc -> {"UNUSED", "READY", "STOPPED", "EXITED"}]
      /\ stopReported' \in [Proc -> BOOLEAN]
      /\ thread' \in [Proc -> {"none", "ready", "running", "blocked", "exited"}]
  BY <1>1 DEF Kill, StateAfter, ReportedAfter, Admit, TypeOK
<1>5. TypeOK' /\ Alarms'
  BY <1>1, <1>2, <1>3, <1>4 DEF TypeOK, Alarms
<1>6. \A q \in Proc : /\ Continues(q, s) => state[q] = "STOPPED"
                      /\ state[q] = "STOPPED" <=> thread[q] = "blocked" /\ at[q] = "stop"
  BY <1>1 DEF Continues, StoppedIffAsleepStopped
<1>7. /\ state[p] = "READY" /\ thread[p] = "running"
  BY <1>1, <1>2, AliveIs DEF Threads
<1>8. \A q \in Proc : (Used(q)' <=> Used(q)) /\ (Alive(q)' <=> Alive(q))
  BY <1>2, <1>6 DEF Used, Alive
<1>9. Families'
  BY <1>1, <1>2, <1>8, Numbers DEF Families
<1>10. Threads'
  BY <1>1, <1>2, <1>3, <1>6, <1>7 DEF Threads
<1>11. StoppedIffAsleepStopped'
  BY <1>1, <1>2, <1>3, <1>6, <1>7 DEF StoppedIffAsleepStopped
<1>12. \A q \in Proc : Asleep(q)' =>
              /\ Asleep(q) /\ call'[q] = call[q]
              /\ call[q].op = "pause" /\ pending[q] = {} => pending'[q] = {}
  BY <1>2, <1>3, <1>7 DEF Asleep
<1>13. \A c \in Proc :
              /\ Used(c)' <=> Used(c)
              /\ state'[c] = "EXITED" => state[c] = "EXITED"
              /\ state'[c] = "STOPPED" /\ ~stopReported'[c] =>
                    state[c] = "STOPPED" /\ ~stopReported[c]
  BY <1>2, <1>8
<1>14. NoLostChild' /\ WaiterHasChild' /\ PauseHearsSignals'
  BY <1>2, <1>12, <1>13, FewerAsleep
<1> QED
  BY <1>5, <1>9, <1>10, <1>11, <1>14 DEF ProcInv

(* The kill call keeps the invariant whatever it names.                    *)
LEMMA SyscallDoKillKeeps ==
    ASSUME ProcInv, NEW p \in Proc, SyscallDoKill(p)
    PROVE  ProcInv'
<1>1. PICK s \in Signals :
        \/ \E q \in Targets : Kill(p, {q}, s)
        \/ \E g \in Targets \ {1} : Kill(p, Members(g), s)
  BY DEF SyscallDoKill
<1>2. \A q \in Targets : {q} \in SUBSET Proc /\ Members(q) \in SUBSET Proc
  BY TargetsAssumption DEF Members
<1> QED
  BY <1>1, <1>2, KillKeeps

(* The timer tick, with the alarms that fall due, keeps the invariant.     *)
LEMMA TickKeeps ==
    ASSUME ProcInv, Tick
    PROVE  ProcInv'
<1>1. /\ TypeOK /\ Threads /\ Families /\ Alarms /\ StoppedIffAsleepStopped
  BY DEF ProcInv
<1>2. PICK due \in SUBSET {q \in Proc : alarm[q]} :
        /\ alarm' = [q \in Proc |-> alarm[q] /\ q \notin due]
        /\ pending' = IF due = {} THEN pending ELSE PendingAfter(due, SIGALRM)
        /\ thread' = [q \in Proc |->
                        IF q = current THEN "ready"
                        ELSE IF due # {} /\ q \in Roused(due, SIGALRM) THEN "ready"
                        ELSE thread[q]]
        /\ at' = [q \in Proc |-> IF q = current THEN "trap" ELSE at[q]]
        /\ current' = NoProc
        /\ UNCHANGED <<idVars, handlers, stopVars, call>>
  BY DEF Tick
<1>3. UNCHANGED <<nextId, parent, group, handlers, state, stopReported, call>>
  BY <1>2 DEF idVars, stopVars
<1>4. PICK woken \in SUBSET Proc :
        /\ pending' \in [Proc -> SUBSET Signals]
        /\ \A q \in Proc : thread'[q] = IF q = current \/ q \in woken THEN "ready" ELSE thread[q]
        /\ \A q \in woken : thread[q] = "blocked" /\ state[q] # "STOPPED"
        /\ \A q \in Proc : Asleep(q) /\ q \notin woken /\ pending[q] = {} => pending'[q] = {}
  <2>1. CASE due = {}
    <3>1. /\ pending' \in [Proc -> SUBSET Signals] /\ pending' = pending
          /\ \A q \in Proc : thread'[q] = IF q = current THEN "ready" ELSE thread[q]
      BY <1>1, <1>2, <2>1 DEF TypeOK
    <3> WITNESS {} \in SUBSET Proc
    <3> QED
      BY <3>1
  <2>2. CASE due # {}
    <3>1. due \in SUBSET Proc /\ SIGALRM \in Signals
      BY <1>1, <1>2, <2>2 DEF Alarms
    <3>2. Roused(due, SIGALRM) \in SUBSET Proc
      BY <3>1 DEF Roused
    <3>3. \A q \in Proc : ~Continues(q, SIGALRM)
      BY DEF Continues, SIGALRM, SIGCONT, SIGKILL
    <3>4. /\ PendingAfter(due, SIGALRM) \in [Proc -> SUBSET Signals]
          /\ \A q \in Proc : q \in Roused(due, SIGALRM) => thread[q] = "blocked"
          /\ \A q \in Proc : q \in Roused(due, SIGALRM) /\ state[q] = "STOPPED" =>
                Continues(q, SIGALRM) /\ Accepts(q, SIGALRM)
          /\ \A q \in Proc : Asleep(q) /\ q \notin Roused(due, SIGALRM) /\ pending[q] = {} =>
                PendingAfter(due, SIGALRM)[q] = {}
      BY <3>1, Sends
    <3>5. /\ pending' = PendingAfter(due, SIGALRM)
          /\ \A q \in Proc : thread'[q] = IF q = current \/ q \in Roused(due, SIGALRM)
                                            THEN "ready" ELSE thread[q]
      BY <1>2, <2>2
    <3> WITNESS Roused(due, SIGALRM) \in SUBSET Proc
    <3> QED
      BY <3>2, <3>3, <3>4, <3>5
  <2> QED
    BY <2>1, <2>2
<1>5. /\ alarm' \in [Proc -> BOOLEAN] /\ \A q \in Proc : alarm'[q] => alarm[q]
      /\ thread' \in [Proc -> {"none", "ready", "running", "blocked", "exited"}]
      /\ at' \in [Proc -> Places]
      /\ \A q \in Proc : at'[q] = IF q = current THEN "trap" ELSE at[q]
  BY <1>1, <1>2 DEF TypeOK, Places
<1>6. TypeOK' /\ Alarms' /\ Families'
  BY <1>1, <1>2, <1>3, <1>4, <1>5 DEF TypeOK, Alarms, Families, Used, Alive
<1>7. Threads'
  BY <1>1, <1>2, <1>3, <1>4, <1>5, Numbers DEF Threads
<1>8. StoppedIffAsleepStopped'
  BY <1>1, <1>2, <1>3, <1>4, <1>5 DEF Threads, StoppedIffAsleepStopped
<1>9. \A q \in Proc : Asleep(q)' =>
              /\ Asleep(q) /\ call'[q] = call[q]
              /\ call[q].op = "pause" /\ pending[q] = {} => pending'[q] = {}
  BY <1>3, <1>4, <1>5 DEF Asleep
<1>10. NoLostChild' /\ WaiterHasChild' /\ PauseHearsSignals'
  BY <1>3, <1>9, FewerAsleep DEF Used
<1> QED
  BY <1>6, <1>7, <1>8, <1>10 DEF ProcInv

-----------------------------------------------------------------------------
(* What telling a parent does.                                             *)
LEMMA Tells ==
    ASSUME ProcInv, NEW T \in SUBSET Proc
    PROVE  /\ PendingAfter(T, SIGCHLD) \in [Proc -> SUBSET Signals]
           /\ Notified(T) \subseteq T
           /\ \A q \in Proc : q \in Notified(T) => thread[q] = "blocked" /\ state[q] # "STOPPED"
           /\ \A q \in T : Asleep(q) /\ call[q].op \in {"wait", "pause"} => q \in Notified(T)
           /\ \A q \in Proc : Asleep(q) /\ q \notin Notified(T) /\ pending[q] = {} =>
                 PendingAfter(T, SIGCHLD)[q] = {}
<1>1. SIGCHLD \in Signals
  BY Numbers
<1>2. \A q \in Proc : ~Continues(q, SIGCHLD)
  BY DEF Continues, SIGCHLD, SIGCONT, SIGKILL
<1>3. /\ PendingAfter(T, SIGCHLD) \in [Proc -> SUBSET Signals]
      /\ Roused(T, SIGCHLD) \subseteq T
      /\ \A q \in Proc : q \in Roused(T, SIGCHLD) => thread[q] = "blocked"
      /\ \A q \in Proc : q \in Roused(T, SIGCHLD) /\ state[q] = "STOPPED" =>
            Continues(q, SIGCHLD) /\ Accepts(q, SIGCHLD)
      /\ \A q \in Proc : Asleep(q) /\ q \notin Roused(T, SIGCHLD) /\ pending[q] = {} =>
            PendingAfter(T, SIGCHLD)[q] = {}
  BY <1>1, Sends
<1>4. \A q \in Proc : thread[q] = "blocked" /\ at[q] = "call" => state[q] # "STOPPED"
  BY DEF ProcInv, StoppedIffAsleepStopped
<1> QED
  BY <1>2, <1>3, <1>4 DEF Notified, Asleep

(* The end of a process keeps the invariant: its children go to init, and  *)
(* whoever waits for it is woken.                                          *)
LEMMA TerminateKeeps ==
    ASSUME ProcInv, NEW p \in Proc, current = p, Terminate(p)
    PROVE  ProcInv'
<1> DEFINE heard == ({parent[p]} \cap {q \in Proc : Used(q)})
                     \cup (IF \E c \in Orphans(p) : state[c] = "EXITED" THEN {Init1} ELSE {})
<1>1. /\ TypeOK /\ Threads /\ Families /\ Alarms /\ StoppedIffAsleepStopped
      /\ NoLostChild /\ WaiterHasChild /\ PauseHearsSignals
  BY DEF ProcInv
<1>2. /\ state' = [state EXCEPT ![p] = "EXITED"]
      /\ parent' = [c \in Proc |-> IF c \in Orphans(p) THEN Init1 ELSE parent[c]]
      /\ pending' = [PendingAfter(heard, SIGCHLD) EXCEPT ![p] = {}]
      /\ handlers' = [handlers EXCEPT ![p] = [s \in Signals |-> DEFAULT]]
      /\ thread' = [Admit(Notified(heard)) EXCEPT ![p] = "exited"]
      /\ at' = [at EXCEPT ![p] = "none"]
      /\ call' = [call EXCEPT ![p] = NoCall]
      /\ current' = NoProc
      /\ UNCHANGED <<nextId, group, stopReported, alarm>>
  BY DEF Terminate
<1>3. heard \in SUBSET Proc
  BY Numbers
<1>4. \A q \in Proc : Used(q) /\ q = parent[p] => q \in heard
  OBVIOUS
<1>5. (\E c \in Orphans(p) : state[c] = "EXITED") => Init1 \in heard
  OBVIOUS
<1> HIDE DEF heard
<1>6. /\ PendingAfter(heard, SIGCHLD) \in [Proc -> SUBSET Signals]
      /\ Notified(heard) \subseteq heard
      /\ \A q \in Proc : q \in Notified(heard) => thread[q] = "blocked" /\ state[q] # "STOPPED"
      /\ \A q \in heard : Asleep(q) /\ call[q].op \in {"wait", "pause"} => q \in Notified(heard)
      /\ \A q \in Proc : Asleep(q) /\ q \notin Notified(heard) /\ pending[q] = {} =>
            PendingAfter(heard, SIGCHLD)[q] = {}
  BY <1>3, Tells
<1>7. /\ state[p] = "READY" /\ thread[p] = "running"
  BY <1>1, AliveIs DEF Threads
<1>8. TypeOK'
  <2>1. /\ thread' \in [Proc -> {"none", "ready", "running", "blocked", "exited"}]
        /\ pending' \in [Proc -> SUBSET Signals]
    BY <1>1, <1>2, <1>6 DEF TypeOK, Admit
  <2>2. parent' \in [Proc -> Proc \cup {NoProc}]
    BY <1>1, <1>2, Numbers DEF TypeOK
  <2> QED
    BY <1>1, <1>2, <2>1, <2>2, NoCallIs DEF TypeOK, Places
<1>9. /\ \A q \in Proc : q # p => /\ state'[q] = state[q] /\ call'[q] = call[q]
                                  /\ at'[q] = at[q]
                                  /\ pending'[q] = PendingAfter(heard, SIGCHLD)[q]
      /\ \A q \in Proc : q # p => thread'[q] = IF q \in Notified(heard) THEN "ready" ELSE thread[q]
      /\ state'[p] = "EXITED" /\ thread'[p] = "exited" /\ at'[p] = "none"
      /\ \A c \in Proc : parent'[c] = IF c \in Orphans(p) THEN Init1 ELSE parent[c]
  BY <1>1, <1>2, <1>6 DEF TypeOK, Admit
<1>10. Threads'
  <2>1. ASSUME NEW q \in Proc, q # p
        PROVE  /\ thread'[q] # "running" /\ current' # q
               /\ state'[q] = "UNUSED" <=> thread'[q] = "none"
               /\ state'[q] = "EXITED" <=> thread'[q] = "exited"
               /\ thread'[q] = "blocked" => at'[q] \in {"call", "stop"}
    <3>1. /\ state'[q] = state[q] /\ at'[q] = at[q]
          /\ thread'[q] = IF q \in Notified(heard) THEN "ready" ELSE thread[q]
      BY <1>9, <2>1
    <3>2. /\ thread[q] = "running" <=> current = q
          /\ state[q] = "UNUSED" <=> thread[q] = "none"
          /\ state[q] = "EXITED" <=> thread[q] = "exited"
          /\ thread[q] = "blocked" => at[q] \in {"call", "stop"}
      BY <1>1 DEF Threads
    <3>3. q \in Notified(heard) => thread[q] = "blocked"
      BY <1>6
    <3>4. current' # q
      BY <1>2, Numbers
    <3> QED
      BY <2>1, <3>1, <3>2, <3>3, <3>4
  <2>2. /\ thread'[p] # "running" /\ current' # p
        /\ state'[p] = "UNUSED" <=> thread'[p] = "none"
        /\ state'[p] = "EXITED" <=> thread'[p] = "exited"
        /\ thread'[p] = "blocked" => at'[p] \in {"call", "stop"}
    BY <1>2, <1>9, Numbers
  <2> QED
    BY <2>1, <2>2 DEF Threads
<1>11. StoppedIffAsleepStopped'
  BY <1>1, <1>6, <1>9 DEF StoppedIffAsleepStopped
<1>12. /\ \A c \in Proc : Used(c)' <=> Used(c)
       /\ \A c \in Proc : Alive(c)' <=> Alive(c) /\ c # p
       /\ p < nextId /\ parent[p] < p
  BY <1>1, <1>7, <1>9 DEF Used, Alive, Families
<1>13. \A c \in Proc : c \in Orphans(p) <=>
          /\ p # Init1 /\ Alive(Init1) /\ Used(c) /\ parent[c] = p /\ c # Init1
  BY DEF Orphans
<1>14. \A c \in Proc : c \in Orphans(p) => c # p
  BY <1>1, <1>12, <1>13, Numbers DEF TypeOK
<1>15. Families'
  <2> SUFFICES ASSUME NEW c \in Proc, Used(c)'
               PROVE  /\ c < nextId /\ parent'[c] < c
                      /\ Alive(Init1)' /\ c # Init1 =>
                            parent'[c] \in Proc /\ state'[parent'[c]] \in {"READY", "STOPPED"}
    BY <1>2 DEF Families, Alive
  <2>1. /\ c < nextId /\ parent[c] < c
        /\ Alive(Init1) /\ c # Init1 => parent[c] \in Proc /\ Alive(parent[c])
    BY <1>1, <1>12 DEF Families
  <2>2. Init1 \in Proc /\ Init1 = 1 /\ c \in Nat /\ c >= 1
    BY Numbers DEF Init1
  <2>3. CASE c \in Orphans(p)
    <3>1. parent'[c] = Init1 /\ c # Init1
      BY <1>9, <1>13, <2>3
    <3>2. Init1 < c
      BY <2>2, <3>1
    <3>3. Alive(Init1)' => state'[Init1] \in {"READY", "STOPPED"}
      BY DEF Alive
    <3> QED
      BY <2>1, <2>2, <3>1, <3>2, <3>3
  <2>4. CASE c \notin Orphans(p)
    <3>1. parent'[c] = parent[c]
      BY <1>9, <2>4
    <3>2. ASSUME Alive(Init1)', c # Init1
          PROVE  parent[c] \in Proc /\ state'[parent[c]] \in {"READY", "STOPPED"}
      <4>1. Alive(Init1) /\ p # Init1
        BY <1>12, <2>2, <3>2
      <4>2. parent[c] \in Proc /\ Alive(parent[c]) /\ parent[c] # p
        BY <1>12, <1>13, <2>1, <2>4, <3>2, <4>1
      <4>3. state'[parent[c]] = state[parent[c]]
        BY <1>9, <4>2
      <4> QED
        BY <3>1, <4>2, <4>3 DEF Alive
    <3> QED
      BY <2>1, <3>1, <3>2
  <2> QED
    BY <2>3, <2>4
<1>16. ASSUME NEW q \in Proc, Asleep(q)'
       PROVE  /\ q # p /\ Asleep(q) /\ q \notin Notified(heard) /\ call'[q] = call[q]
              /\ Used(q)
              /\ call[q].op \in {"wait", "pause"} => q \notin heard
  <2>1. q # p /\ Asleep(q) /\ q \notin Notified(heard)
    BY <1>9, <1>16 DEF Asleep
  <2>2. state[q] = "READY"
    BY <2>1, AliveIs
  <2> QED
    BY <1>6, <1>9, <2>1, <2>2 DEF Used
<1>17. ASSUME NEW q \in Proc, Asleep(q)', call'[q].op = "wait"
       PROVE  /\ Ended(q)' = {} /\ (q # Init1 => StoppedAnew(q)' = {})
              /\ Selected(q) \subseteq Selected(q)'
  <2>1. /\ q # p /\ Asleep(q) /\ call'[q] = call[q] /\ q \notin heard /\ Used(q)
        /\ call[q].op = "wait"
    BY <1>16, <1>17
  <2>2. q # parent[p]
    BY <1>4, <2>1
  <2>3. Ended(q) = {} /\ (q # Init1 => StoppedAnew(q) = {})
    BY <1>1, <2>1 DEF NoLostChild
  <2>4. \A c \in Proc : c \in Selected(q)' /\ c \notin Orphans(p) => c \in Selected(q) /\ c # p
    BY <1>2, <1>9, <1>12, <2>1, <2>2 DEF Selected, Children
  <2>5. Selected(q)' \subseteq Proc
    BY DEF Selected, Children
  <2>6. Ended(q)' = {}
    <3> SUFFICES ASSUME NEW c \in Ended(q)' PROVE FALSE
      OBVIOUS
    <3>1. c \in Proc /\ c \in Selected(q)' /\ state'[c] = "EXITED"
      BY <2>5 DEF Ended
    <3>2. CASE c \in Orphans(p)
      <4>1. parent'[c] = q /\ parent'[c] = Init1
        BY <1>9, <3>1, <3>2 DEF Selected, Children
      <4>2. state[c] = "EXITED"
        BY <1>9, <1>14, <3>1, <3>2
      <4> QED
        BY <1>5, <2>1, <3>2, <4>1, <4>2
    <3>3. CASE c \notin Orphans(p)
      <4>1. c \in Selected(q) /\ c # p
        BY <2>4, <3>1, <3>3
      <4>2. c \in Ended(q)
        BY <1>9, <3>1, <4>1 DEF Ended
      <4> QED
        BY <2>3, <4>2
    <3> QED
      BY <3>2, <3>3
  <2>7. ASSUME q # Init1 PROVE StoppedAnew(q)' = {}
    <3> SUFFICES ASSUME NEW c \in StoppedAnew(q)' PROVE FALSE
      OBVIOUS
    <3>1. /\ c \in Proc /\ c \in Selected(q)' /\ "UNTRACED" \in call[q].options
          /\ state'[c] = "STOPPED" /\ ~stopReported[c]
      BY <1>2, <2>1, <2>5 DEF StoppedAnew
    <3>2. c \notin Orphans(p)
      BY <1>9, <2>7, <3>1 DEF Selected, Children
    <3>3. c \in Selected(q) /\ c # p
      BY <2>4, <3>1, <3>2
    <3>4. c \in StoppedAnew(q)
      BY <1>9, <3>1, <3>3 DEF StoppedAnew
    <3> QED
      BY <2>3, <2>7, <3>4
  <2>8. Selected(q) \subseteq Selected(q)'
    <3> SUFFICES ASSUME NEW c \in Selected(q) PROVE c \in Selected(q)'
      OBVIOUS
    <3>1. c \in Proc /\ Used(c) /\ parent[c] = q
      BY DEF Selected, Children
    <3>2. c \notin Orphans(p)
      BY <1>13, <2>1, <3>1
    <3>3. Used(c)' /\ parent'[c] = q
      BY <1>9, <1>12, <3>1, <3>2
    <3> QED
      BY <1>2, <2>1, <3>1, <3>3 DEF Selected, Children
  <2> QED
    BY <2>6, <2>7, <2>8
<1>18. NoLostChild'
  BY <1>17 DEF NoLostChild
<1>19. WaiterHasChild'
  <2> SUFFICES ASSUME NEW q \in Proc, Asleep(q)', call'[q].op = "wait", call'[q].pid >= -1
               PROVE  Selected(q)' # {}
    BY DEF WaiterHasChild
  <2>1. Asleep(q) /\ call'[q] = call[q]
    BY <1>16
  <2>2. Selected(q) # {}
    BY <1>1, <2>1 DEF WaiterHasChild
  <2> QED
    BY <1>17, <2>2
<1>20. PauseHearsSignals'
  <2> SUFFICES ASSUME NEW q \in Proc, Asleep(q)', call'[q].op = "pause"
               PROVE  pending'[q] = {}
    BY DEF PauseHearsSignals
  <2>1. q # p /\ Asleep(q) /\ q \notin Notified(heard) /\ call'[q] = call[q]
    BY <1>16
  <2> QED
    BY <1>1, <1>6, <1>9, <2>1 DEF PauseHearsSignals
<1>21. Alarms'
  BY <1>1, <1>2 DEF Alarms
<1> QED
  BY <1>8, <1>10, <1>11, <1>15, <1>18, <1>19, <1>20, <1>21 DEF ProcInv

(* Every way a process ends keeps the invariant.                           *)
LEMMA EndingsKeep ==
    ASSUME ProcInv, NEW p \in Proc,
           ProcessExit(p) \/ Fault(p) \/ DeliverTerminate(p) \/ DeliverNoStack(p)
    PROVE  ProcInv'
BY TerminateKeeps
DEF ProcessExit, Fault, DeliverTerminate, DeliverNoStack, Makes, InUser, OnWayOut

(* A delivery that stops the process, and tells its parent, keeps the      *)
(* invariant.                                                              *)
LEMMA DeliverStopKeeps ==
    ASSUME ProcInv, NEW p \in Proc, DeliverStop(p)
    PROVE  ProcInv'
<1> DEFINE heard == {parent[p]} \cap {q \in Proc : Used(q)}
<1>1. /\ TypeOK /\ Threads /\ Families /\ Alarms /\ StoppedIffAsleepStopped
      /\ NoLostChild /\ WaiterHasChild /\ PauseHearsSignals
  BY DEF ProcInv
<1>2. /\ current = p
      /\ pending' = [PendingAfter(heard, SIGCHLD) EXCEPT ![p] = pending[p] \ {Taken(p)}]
      /\ state' = [state EXCEPT ![p] = "STOPPED"]
      /\ stopReported' = [stopReported EXCEPT ![p] = FALSE]
      /\ thread' = [Admit(Notified(heard)) EXCEPT ![p] = "blocked"]
      /\ at' = [at EXCEPT ![p] = "stop"]
      /\ current' = NoProc
      /\ UNCHANGED <<nextId, parent, group, handlers, alarm, call>>
  BY DEF DeliverStop, OnWayOut, idVars
<1>3. heard \in SUBSET Proc
  OBVIOUS
<1>4. \A q \in Proc : Used(q) /\ q = parent[p] => q \in heard
  OBVIOUS
<1> HIDE DEF heard
<1>5. /\ PendingAfter(heard, SIGCHLD) \in [Proc -> SUBSET Signals]
      /\ \A q \in Proc : q \in Notified(heard) => thread[q] = "blocked" /\ state[q] # "STOPPED"
      /\ \A q \in heard : Asleep(q) /\ call[q].op \in {"wait", "pause"} => q \in Notified(heard)
      /\ \A q \in Proc : Asleep(q) /\ q \notin Notified(heard) /\ pending[q] = {} =>
            PendingAfter(heard, SIGCHLD)[q] = {}
  BY <1>3, Tells
<1>6. /\ state[p] = "READY" /\ thread[p] = "running"
  BY <1>1, <1>2, AliveIs DEF Threads
<1>7. TypeOK'
  <2>1. /\ thread' \in [Proc -> {"none", "ready", "running", "blocked", "exited"}]
        /\ pending' \in [Proc -> SUBSET Signals]
    BY <1>1, <1>2, <1>5 DEF TypeOK, Admit
  <2> QED
    BY <1>1, <1>2, <2>1 DEF TypeOK, Places
<1>8. /\ \A q \in Proc : q # p => /\ state'[q] = state[q] /\ at'[q] = at[q]
                                  /\ stopReported'[q] = stopReported[q]
                                  /\ pending'[q] = PendingAfter(heard, SIGCHLD)[q]
      /\ \A q \in Proc : q # p => thread'[q] = IF q \in Notified(heard) THEN "ready" ELSE thread[q]
      /\ state'[p] = "STOPPED" /\ thread'[p] = "blocked" /\ at'[p] = "stop"
  BY <1>1, <1>2, <1>5 DEF TypeOK, Admit
<1>9. Threads'
  BY <1>1, <1>2, <1>5, <1>6, <1>8, Numbers DEF Threads
<1>10. StoppedIffAsleepStopped'
  BY <1>1, <1>5, <1>8 DEF StoppedIffAsleepStopped
<1>11. \A c \in Proc : (Used(c)' <=> Used(c)) /\ (Alive(c)' <=> Alive(c))
  BY <1>6, <1>8 DEF Used, Alive
<1>12. Families' /\ Alarms'
  BY <1>1, <1>2, <1>11, Numbers DEF Families, Alarms
<1>13. ASSUME NEW q \in Proc, Asleep(q)'
       PROVE  /\ q # p /\ Asleep(q) /\ q \notin Notified(heard)
              /\ call[q].op = "wait" => q # parent[p]
  <2>1. q # p /\ Asleep(q) /\ q \notin Notified(heard)
    BY <1>8, <1>13 DEF Asleep
  <2>2. state[q] = "READY"
    BY <2>1, AliveIs
  <2> QED
    BY <1>4, <1>5, <2>1, <2>2 DEF Used
<1>14. ASSUME NEW q \in Proc, Asleep(q)', call[q].op = "wait"
       PROVE  /\ Ended(q)' \subseteq Ended(q) /\ StoppedAnew(q)' \subseteq StoppedAnew(q)
              /\ Selected(q)' = Selected(q)
  <2>1. Selected(q)' = Selected(q) /\ Selected(q) \subseteq Proc
    BY <1>2, <1>11 DEF Selected, Children
  <2>2. p \notin Selected(q)
    BY <1>13, <1>14 DEF Selected, Children
  <2> QED
    BY <1>2, <1>8, <2>1, <2>2 DEF Ended, StoppedAnew
<1>15. NoLostChild'
  BY <1>1, <1>2, <1>13, <1>14 DEF NoLostChild
<1>16. WaiterHasChild'
  BY <1>1, <1>2, <1>13, <1>14 DEF WaiterHasChild
<1>17. PauseHearsSignals'
  BY <1>1, <1>2, <1>5, <1>8, <1>13 DEF PauseHearsSignals
<1> QED
  BY <1>7, <1>9, <1>10, <1>12, <1>15, <1>16, <1>17 DEF ProcInv

-----------------------------------------------------------------------------
(* A child of the process that runs appears or disappears: what sleeps     *)
(* elsewhere has the children it had.                                      *)
LEMMA OneChildChanges ==
    ASSUME ProcInv, NEW p \in Proc, current = p, NEW c \in Proc, c # p,
           ~Asleep(c)', thread'[p] = thread[p],
           Used(c) => parent[c] = p, Used(c)' => parent'[c] = p,
           \A q \in Proc \ {c} : /\ state'[q] = state[q] /\ parent'[q] = parent[q]
                                 /\ group'[q] = group[q] /\ stopReported'[q] = stopReported[q]
                                 /\ thread'[q] = thread[q] /\ pending'[q] = pending[q],
           \A q \in Proc \ {c, p} : at'[q] = at[q] /\ call'[q] = call[q]
    PROVE  NoLostChild' /\ WaiterHasChild' /\ PauseHearsSignals'
<1>1. NoLostChild /\ WaiterHasChild /\ PauseHearsSignals /\ Threads
  BY DEF ProcInv
<1>2. ASSUME NEW q \in Proc, Asleep(q)'
      PROVE  /\ Asleep(q) /\ call'[q] = call[q] /\ pending'[q] = pending[q]
             /\ Selected(q)' = Selected(q) /\ Ended(q)' = Ended(q)
             /\ StoppedAnew(q)' = StoppedAnew(q)
  <2>1. thread[p] = "running"
    BY <1>1 DEF Threads
  <2>2. q # p /\ q # c
    BY <1>2, <2>1 DEF Asleep
  <2>3. Asleep(q) /\ call'[q] = call[q] /\ pending'[q] = pending[q]
    BY <1>2, <2>2 DEF Asleep
  <2>4. \A d \in Proc : d \in Children(q)' <=> d \in Children(q)
    BY <2>2 DEF Children, Used
  <2>5. Children(q)' = Children(q)
    BY <2>4 DEF Children
  <2>6. Children(q) \subseteq Proc \ {c}
    BY <2>2 DEF Children
  <2>7. Selected(q)' = Selected(q) /\ Selected(q) \subseteq Proc \ {c}
    BY <2>3, <2>5, <2>6 DEF Selected
  <2>8. Ended(q)' = Ended(q)
    BY <2>7 DEF Ended
  <2>9. StoppedAnew(q)' = StoppedAnew(q)
    BY <2>3, <2>7 DEF StoppedAnew
  <2> QED
    BY <2>3, <2>7, <2>8, <2>9
<1>3. NoLostChild'
  BY <1>1, <1>2 DEF NoLostChild
<1>4. WaiterHasChild'
  BY <1>1, <1>2 DEF WaiterHasChild
<1>5. PauseHearsSignals'
  BY <1>1, <1>2 DEF PauseHearsSignals
<1> QED
  BY <1>3, <1>4, <1>5

(* fork: the identifier of the child is younger than everybody's.          *)
LEMMA ProcessForkKeeps ==
    ASSUME ProcInv, NEW p \in Proc, ProcessFork(p)
    PROVE  ProcInv'
<1>0. PICK c : c = nextId
  OBVIOUS
<1>1. /\ TypeOK /\ Threads /\ Families /\ Alarms /\ StoppedIffAsleepStopped
  BY DEF ProcInv
<1>2. /\ current = p /\ nextId <= MaxId /\ nextId' = nextId + 1
      /\ state' = [state EXCEPT ![c] = "READY"]
      /\ parent' = [parent EXCEPT ![c] = p]
      /\ group' = [group EXCEPT ![c] = group[p]]
      /\ handlers' = [handlers EXCEPT ![c] = handlers[p]]
      /\ thread' = [thread EXCEPT ![c] = "ready"]
      /\ at' = [at EXCEPT ![c] = "entry", ![p] = WayOut(pending[p])]
      /\ UNCHANGED <<pending, stopReported, alarm, call, current>>
  BY <1>0 DEF ProcessFork, Makes, InUser, NextIdentifier
<1>3. /\ c \in Proc /\ c \in Nat /\ c > 1 /\ Init1 \in Proc /\ Init1 = 1
      /\ nextId' \in 2 .. MaxId + 1
  BY <1>0, <1>1, <1>2, Numbers DEF TypeOK, Init1
<1>4. ~Used(c)
  BY <1>0, <1>1, <1>3 DEF Families
<1>5. state[p] = "READY" /\ thread[p] = "running"
  BY <1>1, <1>2, AliveIs DEF Threads
<1>6. p # c /\ p < c /\ state[c] = "UNUSED" /\ thread[c] = "none"
  BY <1>0, <1>1, <1>3, <1>4, <1>5 DEF Used, Families, Threads
<1>7. WayOut(pending[p]) \in {"user", "scan", "out"} /\ WayOut(pending[p]) \in Places
  BY WayOutIs
<1>8. TypeOK'
  BY <1>1, <1>2, <1>3, <1>7 DEF TypeOK, Places
<1>9. /\ \A q \in Proc \ {c} : /\ state'[q] = state[q] /\ parent'[q] = parent[q]
                               /\ group'[q] = group[q] /\ stopReported'[q] = stopReported[q]
                               /\ thread'[q] = thread[q] /\ pending'[q] = pending[q]
      /\ \A q \in Proc \ {c, p} : at'[q] = at[q] /\ call'[q] = call[q]
      /\ state'[c] = "READY" /\ parent'[c] = p /\ thread'[c] = "ready" /\ at'[c] = "entry"
      /\ at'[p] \in {"user", "scan", "out"} /\ current' = p
      /\ stopReported' = stopReported /\ alarm' = alarm /\ nextId' = nextId + 1
  BY <1>1, <1>2, <1>3, <1>6, <1>7 DEF TypeOK
<1>10. Threads'
  BY <1>1, <1>5, <1>6, <1>9 DEF Threads
<1>11. StoppedIffAsleepStopped'
  BY <1>1, <1>5, <1>6, <1>9 DEF StoppedIffAsleepStopped
<1>12. Alarms'
  BY <1>1, <1>9 DEF Alarms
<1>13. Families'
  <2> SUFFICES ASSUME NEW d \in Proc, Used(d)'
               PROVE  /\ d < nextId' /\ parent'[d] < d
                      /\ Alive(Init1)' /\ d # Init1 =>
                            parent'[d] \in Proc /\ state'[parent'[d]] \in {"READY", "STOPPED"}
    BY DEF Families, Alive
  <2>1. CASE d = c
    <3>1. parent'[d] = p /\ p < d /\ state'[p] = "READY"
      BY <1>5, <1>6, <1>9, <2>1
    <3>2. d < nextId'
      BY <1>0, <1>3, <1>9, <2>1
    <3> QED
      BY <3>1, <3>2
  <2>2. CASE d # c
    <3>1. Used(d) /\ parent'[d] = parent[d]
      BY <1>9, <2>2 DEF Used
    <3>2. /\ d < nextId /\ parent[d] < d
          /\ Alive(Init1) /\ d # Init1 => parent[d] \in Proc /\ Alive(parent[d])
      BY <1>1, <3>1 DEF Families
    <3>3. d < nextId'
      BY <1>0, <1>3, <1>9, <3>2, Numbers
    <3>4. ASSUME Alive(Init1)', d # Init1
          PROVE  parent[d] \in Proc /\ state'[parent[d]] \in {"READY", "STOPPED"}
      <4>1. Init1 # c
        BY <1>3
      <4>2. Alive(Init1)
        BY <1>3, <1>9, <3>4, <4>1 DEF Alive
      <4>3. parent[d] \in Proc /\ Alive(parent[d])
        BY <3>2, <3>4, <4>2
      <4>4. parent[d] # c
        BY <1>6, <4>3 DEF Alive
      <4> QED
        BY <1>9, <4>3, <4>4 DEF Alive
    <3> QED
      BY <3>1, <3>2, <3>3, <3>4
  <2> QED
    BY <2>1, <2>2
<1>14. NoLostChild' /\ WaiterHasChild' /\ PauseHearsSignals'
  <2>1. ~Asleep(c)' /\ thread'[p] = thread[p]
    BY <1>6, <1>9 DEF Asleep
  <2>2. current = p
    BY <1>2
  <2> QED
    BY <1>3, <1>4, <1>6, <1>9, <2>1, <2>2, OneChildChanges
<1> QED
  BY <1>8, <1>10, <1>11, <1>12, <1>13, <1>14 DEF ProcInv

(* waitpid collects an ended child, which is nobody's living parent.       *)
LEMMA WaitCollectKeeps ==
    ASSUME ProcInv, NEW p \in Proc, WaitCollect(p)
    PROVE  ProcInv'
<1>1. /\ TypeOK /\ Threads /\ Families /\ Alarms /\ StoppedIffAsleepStopped
  BY DEF ProcInv
<1>2. PICK c \in Ended(p) :
        /\ InCall(p, "wait")
        /\ state' = [state EXCEPT ![c] = "UNUSED"]
        /\ thread' = [thread EXCEPT ![c] = "none"]
        /\ parent' = [parent EXCEPT ![c] = NoProc]
        /\ group' = [group EXCEPT ![c] = NoProc]
        /\ pending' = [pending EXCEPT ![c] = {}]
        /\ handlers' = [handlers EXCEPT ![c] = [s \in Signals |-> DEFAULT]]
        /\ stopReported' = [stopReported EXCEPT ![c] = FALSE]
        /\ alarm' = [alarm EXCEPT ![c] = FALSE]
        /\ Returns(p)
        /\ UNCHANGED <<nextId, current>>
  BY DEF WaitCollect
<1>3. current = p
  BY <1>2 DEF InCall
<1>4. c \in Proc /\ state[c] = "EXITED" /\ parent[c] = p /\ Used(c)
  BY DEF Ended, Selected, Children
<1>5. state[p] = "READY" /\ thread[p] = "running" /\ c # p /\ thread[c] = "exited"
  BY <1>1, <1>3, <1>4, AliveIs DEF Threads
<1>6. /\ call' = [call EXCEPT ![p] = NoCall] /\ at' = [at EXCEPT ![p] = WayOut(pending[p])]
  BY <1>2 DEF Returns, ToWayOut
<1>7. WayOut(pending[p]) \in {"user", "scan", "out"} /\ WayOut(pending[p]) \in Places
  BY WayOutIs
<1>8. TypeOK'
  BY <1>1, <1>2, <1>4, <1>6, <1>7, NoCallIs DEF TypeOK
<1>9. /\ \A q \in Proc \ {c} : /\ state'[q] = state[q] /\ parent'[q] = parent[q]
                               /\ group'[q] = group[q] /\ stopReported'[q] = stopReported[q]
                               /\ thread'[q] = thread[q] /\ pending'[q] = pending[q]
                               /\ alarm'[q] = alarm[q]
      /\ \A q \in Proc \ {c, p} : at'[q] = at[q] /\ call'[q] = call[q]
      /\ state'[c] = "UNUSED" /\ thread'[c] = "none" /\ ~alarm'[c]
      /\ at'[p] \in {"user", "scan", "out"} /\ current' = p /\ nextId' = nextId
  BY <1>1, <1>2, <1>3, <1>4, <1>5, <1>6, <1>7 DEF TypeOK
<1>10. Threads'
  BY <1>1, <1>3, <1>5, <1>9 DEF Threads
<1>11. StoppedIffAsleepStopped'
  BY <1>1, <1>5, <1>9 DEF StoppedIffAsleepStopped
<1>12. Alarms'
  BY <1>1, <1>9 DEF Alarms
<1>13. Families'
  <2> SUFFICES ASSUME NEW d \in Proc, Used(d)'
               PROVE  /\ d < nextId' /\ parent'[d] < d
                      /\ Alive(Init1)' /\ d # Init1 =>
                            parent'[d] \in Proc /\ state'[parent'[d]] \in {"READY", "STOPPED"}
    BY DEF Families, Alive
  <2>1. d # c /\ Used(d) /\ parent'[d] = parent[d]
    BY <1>9 DEF Used
  <2>2. /\ d < nextId /\ parent[d] < d
        /\ Alive(Init1) /\ d # Init1 => parent[d] \in Proc /\ Alive(parent[d])
    BY <1>1, <2>1 DEF Families
  <2>3. ASSUME Alive(Init1)', d # Init1
        PROVE  parent[d] \in Proc /\ state'[parent[d]] \in {"READY", "STOPPED"}
    <3>1. Alive(Init1)
      BY <1>9, <2>3, Numbers DEF Alive
    <3>2. parent[d] \in Proc /\ Alive(parent[d])
      BY <2>2, <2>3, <3>1
    <3>3. parent[d] # c
      BY <1>4, <3>2 DEF Alive
    <3> QED
      BY <1>9, <3>2, <3>3 DEF Alive
  <2> QED
    BY <1>9, <2>1, <2>2, <2>3
<1>14. NoLostChild' /\ WaiterHasChild' /\ PauseHearsSignals'
  <2>1. ~Asleep(c)' /\ ~Used(c)' /\ thread'[p] = thread[p]
    BY <1>5, <1>9 DEF Asleep, Used
  <2> QED
    BY <1>3, <1>4, <1>5, <1>9, <2>1, OneChildChanges
<1> QED
  BY <1>8, <1>10, <1>11, <1>12, <1>13, <1>14 DEF ProcInv

-----------------------------------------------------------------------------
(* The machine starts in the invariant.                                    *)
LEMMA InitProcesses == Init => ProcInv
<1> SUFFICES ASSUME Init PROVE ProcInv
  OBVIOUS
<1>1. TypeOK
  <2>1. nextId \in 2 .. MaxId + 1
    BY Numbers DEF Init
  <2> QED
    BY <2>1, Numbers, NoCallIs DEF Init, TypeOK, Places
<1>2. Threads /\ StoppedIffAsleepStopped /\ Alarms
  BY Numbers DEF Init, Threads, StoppedIffAsleepStopped, Alarms
<1>3. Families
  BY Numbers DEF Init, Families, Used, Init1, NoProc
<1>4. NoLostChild /\ WaiterHasChild /\ PauseHearsSignals
  BY Numbers DEF Init, NoLostChild, WaiterHasChild, PauseHearsSignals, Asleep
<1> QED
  BY <1>1, <1>2, <1>3, <1>4 DEF ProcInv

(* Every step of every process and every tick preserves the invariant,     *)
(* whatever the programs call and in whatever order the scheduler runs     *)
(* them.                                                                   *)
THEOREM ProcessesInductive == ProcInv /\ [Next]_vars => ProcInv'
<1> SUFFICES ASSUME ProcInv, [Next]_vars PROVE ProcInv'
  OBVIOUS
<1>1. ASSUME NEW p \in Proc, Program(p) PROVE ProcInv'
  BY <1>1, PlainCallsKeep, ProcessForkKeeps, EndingsKeep, SyscallDoKillKeeps,
     BeginningsKeep, PipeWakeKeeps DEF Program
<1>2. ASSUME NEW p \in Proc, Redo(p) PROVE ProcInv'
  BY <1>2, BeginningsKeep
<1>3. ASSUME NEW p \in Proc, Scan(p) PROVE ProcInv'
  BY <1>3, WaitCollectKeeps, ReturnsKeep, SleepsKeep DEF Scan
<1>4. ASSUME NEW p \in Proc, Deliver(p) PROVE ProcInv'
  BY <1>4, DeliveriesKeep, DeliverStopKeeps, EndingsKeep DEF Deliver
<1>5. ASSUME NEW p \in Proc, Resume(p) PROVE ProcInv'
  BY <1>5, ResumeKeeps
<1>6. ASSUME Tick PROVE ProcInv'
  BY <1>6, TickKeeps
<1>7. CASE UNCHANGED vars
  BY <1>7 DEF vars, ProcInv, TypeOK, Threads, Families, Alarms, StoppedIffAsleepStopped,
     NoLostChild, WaiterHasChild, PauseHearsSignals, Used, Alive, Asleep, Ended, StoppedAnew,
     Selected, Children
<1> QED
  BY <1>1, <1>2, <1>3, <1>4, <1>5, <1>6, <1>7 DEF Next

(* ProcInv holds in every state of every run.                              *)
LEMMA ProcessesAlways == Spec => []ProcInv
BY InitProcesses, ProcessesInductive, PTL DEF Spec

(* No wake is lost between the scan and the sleep of ProcessWaitFor,       *)
(* whoever ends, stops or is adopted meanwhile.                            *)
THEOREM NoChildSleptThrough == Spec => []NoLostChild
<1>1. ProcInv => NoLostChild
  BY DEF ProcInv
<1> QED
  BY <1>1, ProcessesAlways, PTL

(* Nobody sleeps in waitpid, for one child or for any, without having that *)
(* child.                                                                  *)
THEOREM NobodyWaitsInVain == Spec => []WaiterHasChild
<1>1. ProcInv => WaiterHasChild
  BY DEF ProcInv
<1> QED
  BY <1>1, ProcessesAlways, PTL

(* While init lives no ended process is left with a dead parent, in        *)
(* whatever order a family ends: ProcessAdoptOrphansOf reaches them all.   *)
THEOREM EndedAreCollectable == Spec => []EndedHaveCollector
<1>1. ProcInv => EndedHaveCollector
  <2> SUFFICES ASSUME ProcInv, Alive(Init1), NEW c \in Proc, state[c] = "EXITED"
               PROVE  parent[c] \in Proc /\ Alive(parent[c])
    BY DEF EndedHaveCollector
  <2>1. Used(c) /\ c # Init1
    BY DEF Used, Alive
  <2> QED
    BY <2>1 DEF ProcInv, Families
<1> QED
  BY <1>1, ProcessesAlways, PTL

(* A process is stopped exactly while its thread sleeps upon its own stop  *)
(* channel, across every race of stops, continues and kills.               *)
THEOREM StopIsSleep == Spec => []StoppedIffAsleepStopped
<1>1. ProcInv => StoppedIffAsleepStopped
  BY DEF ProcInv
<1> QED
  BY <1>1, ProcessesAlways, PTL

(* No signal is slept through in pause.                                    *)
THEOREM PauseIsHeard == Spec => []PauseHearsSignals
<1>1. ProcInv => PauseHearsSignals
  BY DEF ProcInv
<1> QED
  BY <1>1, ProcessesAlways, PTL

(***************************************************************************)
(* init, for any configuration of services, any restart limit and any      *)
(* number of requests and orphans: it never has two children of one        *)
(* service.                                                                *)
(***************************************************************************)

Uncollected == running \cup ended

(* A service is started again only by the collection of its last child.    *)
OneChild ==
    /\ running \cap ended = {}
    /\ \A c, d \in Uncollected : c[1] = d[1] => c = d
    /\ \A c \in Uncollected : c[2] <= starts[c[1]]
    /\ \A s \in Service : pid[s] > 0 => <<s, pid[s]>> \in Uncollected

(* Every start but the first follows a failure, and a service that has     *)
(* failed as often as the limit says has no child init knows of.           *)
Limited ==
    \A s \in Service :
        /\ starts[s] <= failures[s] + 1
        /\ pid[s] > 0 => failures[s] < RestartLimit

(* What the first loop has not come to was never started, and the shutdown *)
(* waits for a service that exists.                                        *)
Loops ==
    /\ pc = "start" =>
          \A s \in Service : s >= index => starts[s] = 0 /\ failures[s] = 0 /\ pid[s] = 0
    /\ pc = "collect" => index <= Services

Adopted == live + orphans <= adopted

SupervisorInv == SupervisorTypeOK /\ OneChild /\ Limited /\ Loops /\ Adopted

-----------------------------------------------------------------------------
(* The constants.                                                          *)
LEMMA Limits ==
    /\ Services \in Nat /\ RestartLimit \in Nat \ {0}
    /\ MaxRequests \in Nat /\ MaxOrphans \in Nat
    /\ Service = 1 .. Services /\ Child = Service \X (1 .. RestartLimit)
BY ServicesAssumption DEF Service, Child

(* What a member of Child is.                                              *)
LEMMA ChildIs ==
    /\ \A c \in Child : c[1] \in Service /\ c[2] \in 1 .. RestartLimit /\ c = <<c[1], c[2]>>
    /\ \A s \in Service, n \in 1 .. RestartLimit : <<s, n>> \in Child
BY DEF Child

(* InitStartService, for a service no child of which is left, and whose    *)
(* limit is not reached: it has one child or none afterwards.              *)
LEMMA StartKeeps ==
    ASSUME SupervisorTypeOK, Limited, NEW s \in Service, Started(s),
           NEW left, left \subseteq Child,
           running \cup left \subseteq Child, running \cap left = {},
           \A c \in running \cup left : c[1] # s,
           \A c, d \in running \cup left : c[1] = d[1] => c = d,
           \A c \in running \cup left : c[2] <= starts[c[1]],
           \A t \in Service : t # s /\ pid[t] > 0 => <<t, pid[t]>> \in running \cup left,
           starts[s] < RestartLimit
    PROVE  /\ pid' \in [Service -> 0 .. RestartLimit]
           /\ starts' \in [Service -> 0 .. RestartLimit] /\ running' \subseteq Child
           /\ fresh' \subseteq Child /\ running' \cap left = {}
           /\ \A c, d \in running' \cup left : c[1] = d[1] => c = d
           /\ \A c \in running' \cup left : c[2] <= starts'[c[1]]
           /\ \A t \in Service : pid'[t] > 0 => <<t, pid'[t]>> \in running' \cup left
           /\ \A t \in Service : t # s => pid'[t] = pid[t] /\ starts'[t] = starts[t]
           /\ starts'[s] <= starts[s] + 1
<1>1. /\ pid \in [Service -> 0 .. RestartLimit] /\ starts \in [Service -> 0 .. RestartLimit]
      /\ starts[s] + 1 \in 1 .. RestartLimit /\ RestartLimit \in Nat
  <2>1. pid \in [Service -> 0 .. RestartLimit] /\ starts \in [Service -> 0 .. RestartLimit]
    BY DEF SupervisorTypeOK
  <2>2. starts[s] \in 0 .. RestartLimit /\ starts[s] < RestartLimit /\ RestartLimit \in Nat
    BY <2>1, Limits
  <2> QED
    BY <2>1, <2>2
<1> fresh \subseteq Child
  BY DEF SupervisorTypeOK
<1>2. CASE /\ pid' = [pid EXCEPT ![s] = 0] /\ UNCHANGED <<starts, running, fresh>>
  <2>1. /\ pid'[s] = 0 /\ \A t \in Service : t # s => pid'[t] = pid[t]
        /\ pid' \in [Service -> 0 .. RestartLimit]
    BY <1>1, <1>2
  <2> QED
    BY <1>1, <1>2, <2>1
<1>3. CASE /\ pid' = [pid EXCEPT ![s] = starts[s] + 1]
           /\ starts' = [starts EXCEPT ![s] = starts[s] + 1]
           /\ running' = running \cup {<<s, starts[s] + 1>>}
           /\ fresh' = fresh \cup {<<s, starts[s] + 1>>}
  <2> DEFINE new == <<s, starts[s] + 1>>
  <2>1. new \in Child /\ new[1] = s /\ new[2] = starts[s] + 1
    BY <1>1, ChildIs
  <2>2. /\ pid'[s] = starts[s] + 1 /\ starts'[s] = starts[s] + 1
        /\ \A t \in Service : t # s => pid'[t] = pid[t] /\ starts'[t] = starts[t]
        /\ pid' \in [Service -> 0 .. RestartLimit] /\ starts' \in [Service -> 0 .. RestartLimit]
    BY <1>1, <1>3
  <2>3. running' = running \cup {new} /\ <<s, pid'[s]>> = new /\ fresh' = fresh \cup {new}
    BY <1>3, <2>2
  <2> HIDE DEF new
  <2>4. \A c \in running \cup left : c[1] \in Service
    BY ChildIs
  <2>5. \A c \in running' \cup left : c[2] <= starts'[c[1]]
    BY <1>1, <2>1, <2>2, <2>3, <2>4
  <2>6. \A t \in Service : pid'[t] > 0 => <<t, pid'[t]>> \in running' \cup left
    <3> SUFFICES ASSUME NEW t \in Service, pid'[t] > 0
                 PROVE  <<t, pid'[t]>> \in running' \cup left
      OBVIOUS
    <3>1. CASE t = s
      BY <2>3, <3>1
    <3>2. CASE t # s
      BY <2>2, <2>3, <3>2
    <3> QED
      BY <3>1, <3>2
  <2>7. starts'[s] <= starts[s] + 1
    BY <1>1, <2>2
  <2> QED
    BY <1>1, <2>1, <2>2, <2>3, <2>5, <2>6, <2>7
<1> QED
  BY <1>1, <1>2, <1>3 DEF Started

(* Starting the next service keeps the invariant.                          *)
LEMMA StartNextKeeps == SupervisorInv /\ StartNext => SupervisorInv'
<1> SUFFICES ASSUME SupervisorInv, StartNext PROVE SupervisorInv'
  OBVIOUS
<1>1. SupervisorTypeOK /\ OneChild /\ Limited /\ Loops /\ Adopted
  BY DEF SupervisorInv
<1>2. /\ pc = "start" /\ index \in Service /\ Started(index) /\ index' = index + 1
      /\ UNCHANGED <<failures, abandoned, ended, told, live, orphans, adopted, requests,
                     shutdown, pc>>
  BY <1>1, Limits DEF StartNext, others, SupervisorTypeOK
<1>3. starts[index] = 0 /\ failures[index] = 0
  BY <1>1, <1>2, Limits DEF Loops
<1>4. running \cup ended \subseteq Child
  BY <1>1 DEF SupervisorTypeOK
<1>5. \A c \in running \cup ended : c[1] # index
  <2> SUFFICES ASSUME NEW c \in running \cup ended, c[1] = index PROVE FALSE
    OBVIOUS
  <2>1. c[2] <= starts[index] /\ c[2] \in 1 .. RestartLimit
    BY <1>1, <1>4, ChildIs DEF OneChild, Uncollected
  <2> QED
    BY <1>3, <2>1, Limits
<1>6. PICK s \in Service : s = index
  BY <1>2
<1>7. /\ pid' \in [Service -> 0 .. RestartLimit]
      /\ starts' \in [Service -> 0 .. RestartLimit] /\ running' \subseteq Child
      /\ fresh' \subseteq Child /\ running' \cap ended = {}
      /\ \A c, d \in running' \cup ended : c[1] = d[1] => c = d
      /\ \A c \in running' \cup ended : c[2] <= starts'[c[1]]
      /\ \A t \in Service : pid'[t] > 0 => <<t, pid'[t]>> \in running' \cup ended
      /\ \A t \in Service : t # s => pid'[t] = pid[t] /\ starts'[t] = starts[t]
      /\ starts'[s] <= starts[s] + 1
  <2>1. starts[s] < RestartLimit
    BY <1>3, <1>6, Limits
  <2>2. /\ running \cap ended = {} /\ ended \subseteq Child
        /\ \A c \in running \cup ended : c[1] # s
        /\ \A c, d \in running \cup ended : c[1] = d[1] => c = d
        /\ \A c \in running \cup ended : c[2] <= starts[c[1]]
        /\ \A t \in Service : t # s /\ pid[t] > 0 => <<t, pid[t]>> \in running \cup ended
        /\ Started(s)
    BY <1>1, <1>2, <1>4, <1>5, <1>6 DEF OneChild, Uncollected
  <2> QED
    BY <1>1, <1>4, <2>1, <2>2, StartKeeps
<1>8. SupervisorTypeOK'
  <2>1. index' \in 1 .. Services + 1
    BY <1>2, Limits
  <2> QED
    BY <1>1, <1>2, <1>7, <2>1 DEF SupervisorTypeOK
<1>9. OneChild'
  BY <1>2, <1>7 DEF OneChild, Uncollected
<1>10. Limited'
  <2>1. \A t \in Service : t # s => /\ starts'[t] <= failures'[t] + 1
                                    /\ pid'[t] > 0 => failures'[t] < RestartLimit
    BY <1>1, <1>2, <1>7 DEF Limited
  <2>2. starts'[s] <= failures'[s] + 1 /\ failures'[s] < RestartLimit
    BY <1>2, <1>3, <1>6, <1>7, Limits
  <2> QED
    BY <2>1, <2>2 DEF Limited
<1>11. Loops'
  <2>1. \A t \in Service : t >= index' => t >= index /\ t # s
    BY <1>2, <1>6, Limits
  <2> QED
    BY <1>1, <1>2, <1>7, <2>1 DEF Loops
<1>12. Adopted'
  BY <1>1, <1>2 DEF Adopted
<1> QED
  BY <1>8, <1>9, <1>10, <1>11, <1>12 DEF SupervisorInv

-----------------------------------------------------------------------------
(* Steps that start, collect and forget nothing.                           *)
LEMMA QuietKeeps ==
    ASSUME SupervisorInv, UNCHANGED <<pid, failures, abandoned, starts, running, ended>>,
           SupervisorTypeOK', Adopted', pc' = "start" => pc = "start" /\ index' = index,
           pc' = "collect" => index' <= Services
    PROVE  SupervisorInv'
<1>1. OneChild /\ Limited /\ Loops
  BY DEF SupervisorInv
<1>2. OneChild' /\ Limited'
  BY <1>1 DEF OneChild, Uncollected, Limited
<1>3. Loops'
  BY <1>1 DEF Loops
<1> QED
  BY <1>2, <1>3 DEF SupervisorInv

(* The steps of init's loop that start and collect nothing keep the        *)
(* invariant.                                                              *)
LEMMA MainQuietKeeps ==
    ASSUME SupervisorInv,
           \/ StartDone \/ Check \/ StopService \/ Power \/ WaitNone \/ SleepInWait
           \/ Pause
    PROVE  SupervisorInv'
<1>1. SupervisorTypeOK /\ Adopted /\ index \in 1 .. Services + 1
  BY DEF SupervisorInv, SupervisorTypeOK
<1>2. /\ UNCHANGED <<pid, failures, abandoned, starts, running, ended, fresh, live, orphans,
                     adopted, requests, shutdown>>
      /\ pc' # "start"
      /\ pc' \in {"check", "stop", "collect", "wait", "waiting", "pause", "paused", "off"}
  BY DEF StartDone, Check, StopService, Power, WaitNone, SleepInWait, Pause,
     table, children, others
<1>3. index' = index \/ index' = 1 \/ (index <= Services /\ index' = index + 1)
  BY DEF StartDone, Check, StopService, Power, WaitNone, SleepInWait, Pause
<1>4. index' \in 1 .. Services + 1
  BY <1>1, <1>3, Limits
<1>5. told' \subseteq told \cup running
  BY DEF StartDone, Check, StopService, Power, WaitNone, SleepInWait, Pause,
     children
<1>6. SupervisorTypeOK'
  <2>1. told' \subseteq Child
    BY <1>1, <1>5 DEF SupervisorTypeOK
  <2> QED
    BY <1>1, <1>2, <1>4, <2>1 DEF SupervisorTypeOK
<1>7. Adopted'
  BY <1>1, <1>2 DEF Adopted
<1>8. pc' = "collect" => index' <= Services
  BY DEF StartDone, Check, StopService, Power, WaitNone, SleepInWait, Pause
<1> QED
  BY <1>2, <1>6, <1>7, <1>8, QuietKeeps

(* Orphans that come, end and are collected keep the invariant.            *)
LEMMA OrphansKeep ==
    ASSUME SupervisorInv, CollectOrphan \/ Orphaned \/ OrphanEnds
    PROVE  SupervisorInv'
<1>1. /\ SupervisorTypeOK /\ Adopted
      /\ live \in 0 .. MaxOrphans /\ orphans \in 0 .. MaxOrphans /\ adopted \in 0 .. MaxOrphans
  BY DEF SupervisorInv, SupervisorTypeOK
<1>2. /\ UNCHANGED <<pid, failures, abandoned, starts, running, ended, fresh, told,
                     requests, shutdown, index>>
      /\ pc' = pc \/ pc' = "check"
  BY DEF CollectOrphan, Orphaned, OrphanEnds, WakePause, table, children
<1>3. /\ live' \in 0 .. MaxOrphans /\ orphans' \in 0 .. MaxOrphans /\ adopted' \in 0 .. MaxOrphans
      /\ live' + orphans' <= adopted'
  <2>1. \/ orphans > 0 /\ orphans' = orphans - 1 /\ live' = live /\ adopted' = adopted
        \/ /\ adopted < MaxOrphans /\ adopted' = adopted + 1
           /\ \/ live' = live + 1 /\ orphans' = orphans
              \/ orphans' = orphans + 1 /\ live' = live
        \/ live > 0 /\ live' = live - 1 /\ orphans' = orphans + 1 /\ adopted' = adopted
    BY DEF CollectOrphan, Orphaned, OrphanEnds
  <2>2. live + orphans <= adopted /\ MaxOrphans \in Nat
    BY <1>1, Limits DEF Adopted
  <2> QED
    BY <1>1, <2>1, <2>2
<1>4. SupervisorTypeOK' /\ Adopted'
  BY <1>1, <1>2, <1>3 DEF SupervisorTypeOK, Adopted
<1>5. pc' = "collect" => index' <= Services
  BY <1>2 DEF SupervisorInv, Loops
<1> QED
  BY <1>2, <1>4, <1>5, QuietKeeps

(* A child executes its program.                                           *)
LEMMA ExecutesKeeps ==
    ASSUME SupervisorInv, NEW c \in Child, Executes(c)
    PROVE  SupervisorInv'
<1>1. SupervisorTypeOK /\ Loops /\ Adopted
  BY DEF SupervisorInv
<1>2. /\ fresh' = fresh \ {c}
      /\ UNCHANGED <<pid, failures, abandoned, starts, running, ended, told, live, orphans,
                     adopted, requests, shutdown, pc, index>>
  BY DEF Executes, table, others
<1>3. SupervisorTypeOK' /\ Adopted' /\ (pc' = "collect" => index' <= Services)
  BY <1>1, <1>2 DEF SupervisorTypeOK, Adopted, Loops
<1> QED
  BY <1>2, <1>3, QuietKeeps

(* A child ends.                                                           *)
LEMMA EndsItselfKeeps ==
    ASSUME SupervisorInv, NEW c \in Child, EndsItself(c)
    PROVE  SupervisorInv'
<1>1. SupervisorTypeOK /\ OneChild /\ Limited /\ Loops /\ Adopted
  BY DEF SupervisorInv
<1>2. /\ c \in running /\ running' = running \ {c} /\ ended' = ended \cup {c} /\ fresh' = fresh \ {c}
      /\ UNCHANGED <<pid, failures, abandoned, starts, told, live, orphans, adopted,
                     requests, shutdown, pc, index>>
  BY DEF EndsItself, table, others
<1>3. Uncollected' = Uncollected /\ running' \cap ended' = {}
  BY <1>1, <1>2 DEF Uncollected, OneChild
<1>4. OneChild'
  BY <1>1, <1>2, <1>3 DEF OneChild
<1>5. SupervisorTypeOK' /\ Limited' /\ Loops' /\ Adopted'
  BY <1>1, <1>2 DEF SupervisorTypeOK, Limited, Loops, Adopted
<1> QED
  BY <1>4, <1>5 DEF SupervisorInv

(* The shutdown, and a request that interrupts it: a child is collected,   *)
(* or left to itself, and its number is forgotten.                         *)
LEMMA ForgetKeeps ==
    ASSUME SupervisorInv, pc = "collect", index \in Service, Forget,
           UNCHANGED <<failures, abandoned, starts, running, fresh, told, live, orphans, adopted>>,
           requests' \in 0 .. MaxRequests, shutdown' \in {"none", "halt", "reboot"},
           ended' = ended \/ ended' = ended \ {<<index, pid[index]>>}
    PROVE  SupervisorInv'
<1>1. SupervisorTypeOK /\ OneChild /\ Limited /\ Loops /\ Adopted
  BY DEF SupervisorInv
<1>2. /\ pid' = [pid EXCEPT ![index] = 0] /\ index' = index + 1 /\ pc' = "stop"
  BY DEF Forget
<1>3. /\ pid'[index] = 0 /\ \A s \in Service : s # index => pid'[s] = pid[s]
      /\ pid' \in [Service -> 0 .. RestartLimit] /\ index' \in 1 .. Services + 1
      /\ ended' \subseteq ended
  BY <1>1, <1>2, Limits DEF SupervisorTypeOK
<1>4. SupervisorTypeOK'
  BY <1>1, <1>2, <1>3 DEF SupervisorTypeOK
<1>5. OneChild'
  <2>1. Uncollected' \subseteq Uncollected /\ running' \cap ended' = {}
    BY <1>1, <1>3 DEF Uncollected, OneChild
  <2>2. \A s \in Service : pid'[s] > 0 => <<s, pid'[s]>> \in Uncollected'
    <3> SUFFICES ASSUME NEW s \in Service, pid'[s] > 0
                 PROVE  <<s, pid'[s]>> \in Uncollected'
      OBVIOUS
    <3>1. s # index /\ pid'[s] = pid[s]
      BY <1>3
    <3>2. <<s, pid[s]>> \in Uncollected /\ <<s, pid[s]>> # <<index, pid[index]>>
      BY <1>1, <3>1 DEF OneChild
    <3> QED
      BY <3>1, <3>2 DEF Uncollected
  <2> QED
    BY <1>1, <2>1, <2>2 DEF OneChild
<1>6. Limited' /\ Loops' /\ Adopted'
  BY <1>1, <1>2, <1>3 DEF Limited, Loops, Adopted
<1> QED
  BY <1>4, <1>5, <1>6 DEF SupervisorInv

(* Collecting a service stopped at shutdown keeps the invariant.           *)
LEMMA CollectStoppedKeeps == SupervisorInv /\ CollectStopped => SupervisorInv'
<1> SUFFICES ASSUME SupervisorInv, CollectStopped PROVE SupervisorInv'
  OBVIOUS
<1>1. /\ pc = "collect" /\ Forget /\ ended' = ended \ {<<index, pid[index]>>}
      /\ UNCHANGED <<failures, abandoned, starts, running, fresh, told, live, orphans, adopted,
                     requests, shutdown>>
  BY DEF CollectStopped, others
<1>2. SupervisorTypeOK /\ Loops
  BY DEF SupervisorInv
<1>3. index \in Service /\ requests' \in 0 .. MaxRequests /\ shutdown' \in {"none", "halt", "reboot"}
  BY <1>1, <1>2, Limits DEF SupervisorTypeOK, Loops
<1> QED
  BY <1>1, <1>3, ForgetKeeps

(* A request to halt or reboot keeps the invariant.                        *)
LEMMA RequestKeeps ==
    ASSUME SupervisorInv, NEW action \in {"halt", "reboot"}, Request(action)
    PROVE  SupervisorInv'
<1>1. SupervisorTypeOK /\ OneChild /\ Limited /\ Loops /\ Adopted
  BY DEF SupervisorInv
<1>2. /\ requests < MaxRequests /\ requests' = requests + 1 /\ shutdown' = action
      /\ UNCHANGED <<failures, abandoned, starts, running, ended, fresh, told, live, orphans,
                     adopted>>
  BY DEF Request, children
<1>3. requests' \in 0 .. MaxRequests
  BY <1>1, <1>2, Limits DEF SupervisorTypeOK
<1>4. \/ pc = "collect" /\ Forget
      \/ UNCHANGED <<pid, index>> /\ (pc' = pc \/ pc' = "check")
  BY DEF Request
<1>5. CASE pc = "collect" /\ Forget
  <2>1. index \in Service
    BY <1>1, <1>5, Limits DEF SupervisorTypeOK, Loops
  <2> QED
    BY <1>2, <1>3, <1>5, <2>1, ForgetKeeps
<1>6. CASE UNCHANGED <<pid, index>> /\ (pc' = pc \/ pc' = "check")
  <2>1. SupervisorTypeOK' /\ Adopted'
    BY <1>1, <1>2, <1>3, <1>6 DEF SupervisorTypeOK, Adopted
  <2>2. pc' = "collect" => index' <= Services
    BY <1>1, <1>6 DEF Loops
  <2> QED
    BY <1>2, <1>6, <2>1, <2>2, QuietKeeps
<1> QED
  BY <1>4, <1>5, <1>6

(* The collection of a child: its service is restarted only where the      *)
(* child was the one init knew, and then it was the only one.              *)
LEMMA CollectChildKeeps ==
    ASSUME SupervisorInv, NEW c \in Child, CollectChild(c)
    PROVE  SupervisorInv'
<1>1. SupervisorTypeOK /\ OneChild /\ Limited /\ Loops /\ Adopted
  BY DEF SupervisorInv
<1>2. /\ pc \in {"wait", "waiting"} /\ c \in ended /\ ended' = ended \ {c} /\ pc' = "check"
      /\ UNCHANGED <<told, live, orphans, adopted, requests, shutdown, index>>
  BY DEF CollectChild, others
<1>3. PICK s \in Service : s = c[1] /\ c[2] \in 1 .. RestartLimit /\ c = <<s, c[2]>>
  BY ChildIs
<1>4. /\ running \cap ended = {}
      /\ \A a, b \in running \cup ended : a[1] = b[1] => a = b
      /\ \A a \in running \cup ended : a[2] <= starts[a[1]]
      /\ \A t \in Service : pid[t] > 0 => <<t, pid[t]>> \in running \cup ended
      /\ running \subseteq Child /\ ended \subseteq Child
  BY <1>1 DEF OneChild, Uncollected, SupervisorTypeOK
<1>5. c \notin running /\ \A a \in running \cup (ended \ {c}) : a[1] # s
  BY <1>2, <1>3, <1>4
<1>6. \A t \in Service : t # s /\ pid[t] > 0 => <<t, pid[t]>> \in running \cup (ended \ {c})
  <2> SUFFICES ASSUME NEW t \in Service, t # s, pid[t] > 0
               PROVE  <<t, pid[t]>> \in running \cup (ended \ {c})
    OBVIOUS
  <2>1. <<t, pid[t]>> # <<s, c[2]>>
    OBVIOUS
  <2> QED
    BY <1>3, <1>4, <2>1
<1>7. /\ pid \in [Service -> 0 .. RestartLimit] /\ failures \in [Service -> 0 .. RestartLimit]
      /\ starts \in [Service -> 0 .. RestartLimit] /\ abandoned \in [Service -> BOOLEAN]
      /\ starts[s] <= failures[s] + 1
      /\ RestartLimit \in Nat /\ fresh \subseteq Child
  BY <1>1, Limits DEF SupervisorTypeOK, Limited
<1>8. SUFFICES /\ pid' \in [Service -> 0 .. RestartLimit]
               /\ failures' \in [Service -> 0 .. RestartLimit]
               /\ starts' \in [Service -> 0 .. RestartLimit]
               /\ abandoned' \in [Service -> BOOLEAN]
               /\ running' \subseteq Child /\ fresh' \subseteq Child
               /\ running' \cap (ended \ {c}) = {}
               /\ \A a, b \in running' \cup (ended \ {c}) : a[1] = b[1] => a = b
               /\ \A a \in running' \cup (ended \ {c}) : a[2] <= starts'[a[1]]
               /\ \A t \in Service : pid'[t] > 0 => <<t, pid'[t]>> \in running' \cup (ended \ {c})
               /\ Limited'
  <2>1. SupervisorTypeOK'
    BY <1>1, <1>2, <1>4, <1>8 DEF SupervisorTypeOK
  <2>2. OneChild'
    BY <1>2, <1>8 DEF OneChild, Uncollected
  <2>3. Loops' /\ Adopted'
    BY <1>1, <1>2 DEF Loops, Adopted
  <2> QED
    BY <1>8, <2>1, <2>2, <2>3 DEF SupervisorInv
<1>9. CASE pid[s] # c[2]
  <2>1. UNCHANGED <<pid, failures, abandoned, starts, running, fresh>>
    BY <1>3, <1>9 DEF CollectChild, table
  <2>2. pid[s] > 0 => <<s, pid[s]>> \in running \cup (ended \ {c})
    BY <1>3, <1>4, <1>9
  <2>3. Limited'
    BY <1>1, <2>1 DEF Limited
  <2> QED
    BY <1>4, <1>6, <1>7, <2>1, <2>2, <2>3
<1>10. CASE pid[s] = c[2] /\ pid' = [pid EXCEPT ![s] = 0] /\ UNCHANGED <<starts, running, fresh>>
            /\ failures' \in [Service -> 0 .. RestartLimit] /\ abandoned' \in [Service -> BOOLEAN]
            /\ \A t \in Service : (t # s => failures'[t] = failures[t])
                                  /\ failures'[t] >= failures[t]
  <2>1. /\ pid' \in [Service -> 0 .. RestartLimit] /\ pid'[s] = 0
        /\ \A t \in Service : t # s => pid'[t] = pid[t]
    BY <1>7, <1>10
  <2>2. \A t \in Service : pid'[t] > 0 => t # s /\ pid'[t] = pid[t]
    BY <2>1
  <2>3. Limited'
    <3>1. \A t \in Service : starts'[t] <= failures'[t] + 1
      BY <1>1, <1>7, <1>10 DEF Limited
    <3>2. \A t \in Service : pid'[t] > 0 => failures'[t] < RestartLimit
      BY <1>1, <1>10, <2>2 DEF Limited
    <3> QED
      BY <3>1, <3>2 DEF Limited
  <2> QED
    BY <1>4, <1>6, <1>7, <1>10, <2>1, <2>2, <2>3
<1>11. CASE pid[s] = c[2]
  <2>1. Supervise(s)
    BY <1>3, <1>11 DEF CollectChild
  <2>2. pid[s] > 0 /\ failures[s] < RestartLimit
    BY <1>1, <1>3, <1>7, <1>11 DEF Limited
  <2>3. failures[s] + 1 \in 0 .. RestartLimit
    BY <1>7, <2>2
  <2>4. CASE s \in Once
    <3>1. pid' = [pid EXCEPT ![s] = 0] /\ UNCHANGED <<failures, abandoned, starts, running, fresh>>
      BY <2>1, <2>4 DEF Supervise
    <3> QED
      BY <1>7, <1>10, <1>11, <3>1
  <2>5. ASSUME s \notin Once
        PROVE  /\ failures' = [failures EXCEPT ![s] = @ + 1]
               /\ failures' \in [Service -> 0 .. RestartLimit] /\ failures'[s] = failures[s] + 1
               /\ \A t \in Service : t # s => failures'[t] = failures[t]
    BY <1>7, <2>1, <2>3, <2>5 DEF Supervise
  <2>6. CASE s \notin Once /\ KeepsEnding(s)
    <3>1. /\ pid' = [pid EXCEPT ![s] = 0] /\ UNCHANGED <<starts, running, fresh>>
          /\ abandoned' = [abandoned EXCEPT ![s] = TRUE]
      BY <2>1, <2>6 DEF Supervise
    <3>2. \A t \in Service : failures'[t] >= failures[t]
      BY <1>7, <2>5, <2>6
    <3> QED
      BY <1>7, <1>10, <1>11, <2>5, <2>6, <3>1, <3>2
  <2>7. CASE s \notin Once /\ ~KeepsEnding(s)
    <3>1. UNCHANGED abandoned /\ Started(s)
      BY <2>1, <2>7 DEF Supervise
    <3>2. failures[s] + 1 < RestartLimit /\ starts[s] < RestartLimit
      BY <1>7, <2>7 DEF KeepsEnding
    <3>3. PICK left : left = ended \ {c}
      OBVIOUS
    <3>4. /\ left \subseteq Child /\ running \cup left \subseteq Child /\ running \cap left = {}
          /\ \A a \in running \cup left : a[1] # s
          /\ \A a, b \in running \cup left : a[1] = b[1] => a = b
          /\ \A a \in running \cup left : a[2] <= starts[a[1]]
          /\ \A t \in Service : t # s /\ pid[t] > 0 => <<t, pid[t]>> \in running \cup left
      BY <1>4, <1>5, <1>6, <3>3
    <3>5. /\ pid' \in [Service -> 0 .. RestartLimit]
          /\ starts' \in [Service -> 0 .. RestartLimit] /\ running' \subseteq Child
          /\ fresh' \subseteq Child /\ running' \cap left = {}
          /\ \A a, b \in running' \cup left : a[1] = b[1] => a = b
          /\ \A a \in running' \cup left : a[2] <= starts'[a[1]]
          /\ \A t \in Service : pid'[t] > 0 => <<t, pid'[t]>> \in running' \cup left
          /\ \A t \in Service : t # s => pid'[t] = pid[t] /\ starts'[t] = starts[t]
          /\ starts'[s] <= starts[s] + 1
      BY <1>1, <3>1, <3>2, <3>4, StartKeeps
    <3>6. Limited'
      <4>1. \A t \in Service : t # s => /\ starts'[t] <= failures'[t] + 1
                                        /\ pid'[t] > 0 => failures'[t] < RestartLimit
        BY <1>1, <2>5, <2>7, <3>5 DEF Limited
      <4>2. starts'[s] <= failures'[s] + 1 /\ failures'[s] < RestartLimit
        BY <1>7, <2>5, <2>7, <3>2, <3>5
      <4> QED
        BY <4>1, <4>2 DEF Limited
    <3> QED
      BY <1>7, <2>5, <2>7, <3>1, <3>3, <3>5, <3>6
  <2> QED
    BY <2>4, <2>6, <2>7
<1> QED
  BY <1>9, <1>11

-----------------------------------------------------------------------------
(* init starts in the invariant.                                           *)
LEMMA InitSupervisor == SupervisorInit => SupervisorInv
<1> SUFFICES ASSUME SupervisorInit PROVE SupervisorInv
  OBVIOUS
<1>1. SupervisorTypeOK
  <2>1. 0 \in 0 .. RestartLimit /\ 0 \in 0 .. MaxOrphans /\ 0 \in 0 .. MaxRequests
        /\ 1 \in 1 .. Services + 1
    BY Limits
  <2> QED
    BY <2>1 DEF SupervisorInit, SupervisorTypeOK
<1>2. OneChild /\ Limited /\ Loops /\ Adopted
  BY Limits DEF SupervisorInit, OneChild, Uncollected, Limited, Loops, Adopted
<1> QED
  BY <1>1, <1>2 DEF SupervisorInv

(* Whatever init does, and whatever ends, is adopted or is asked for       *)
(* between any two of its steps, preserves the invariant.                  *)
THEOREM SupervisorInductive == SupervisorInv /\ [SupervisorNext]_supervisorVars => SupervisorInv'
<1> SUFFICES ASSUME SupervisorInv, [SupervisorNext]_supervisorVars PROVE SupervisorInv'
  OBVIOUS
<1>1. ASSUME Main PROVE SupervisorInv'
  BY <1>1, StartNextKeeps, MainQuietKeeps, CollectStoppedKeeps, OrphansKeep, CollectChildKeeps
  DEF Main
<1>2. ASSUME NEW action \in {"halt", "reboot"}, Request(action) PROVE SupervisorInv'
  BY <1>2, RequestKeeps
<1>3. ASSUME NEW c \in Child, Executes(c) \/ EndsItself(c) \/ EndsTold(c)
      PROVE  SupervisorInv'
  BY <1>3, ExecutesKeeps, EndsItselfKeeps DEF EndsTold
<1>4. CASE Orphaned \/ OrphanEnds
  BY <1>4, OrphansKeep
<1>5. CASE UNCHANGED supervisorVars
  BY <1>5 DEF supervisorVars, SupervisorInv, SupervisorTypeOK, OneChild, Uncollected, Limited,
     Loops, Adopted
<1>6. CASE Off
  BY <1>5, <1>6 DEF Off
<1> QED
  BY <1>1, <1>2, <1>3, <1>4, <1>5, <1>6 DEF SupervisorNext

(* Never two of one service, for any configuration: whatever ends, is      *)
(* collected, is restarted or is interrupted in whichever order, init has  *)
(* at most one child of a service, and a number it keeps is that child's.  *)
THEOREM NeverTwoOfOne == SupervisorSpec => []OneOfEach
<1>1. SupervisorInv => OneOfEach
  <2> SUFFICES ASSUME SupervisorInv, NEW s \in Service
               PROVE  /\ Cardinality({c \in running \cup ended : c[1] = s}) <= 1
                      /\ pid[s] > 0 => <<s, pid[s]>> \in running \cup ended
    BY DEF OneOfEach
  <2>1. OneChild
    BY DEF SupervisorInv
  <2>2. PICK own : own = {c \in running \cup ended : c[1] = s}
    OBVIOUS
  <2>3. \A c, d \in own : c = d
    BY <2>1, <2>2 DEF OneChild, Uncollected
  <2>4. Cardinality(own) <= 1
    <3>1. CASE own = {}
      BY <3>1, FS_EmptySet
    <3>2. CASE own # {}
      <4>1. PICK c : own = {c}
        BY <2>3, <3>2
      <4>2. Cardinality({c}) = 1
        BY FS_Singleton
      <4> QED
        BY <4>1, <4>2
    <3> QED
      BY <3>1, <3>2
  <2> QED
    BY <2>1, <2>2, <2>4 DEF OneChild, Uncollected
<1>2. SupervisorSpec => []SupervisorInv
  BY InitSupervisor, SupervisorInductive, PTL DEF SupervisorSpec
<1> QED
  BY <1>1, <1>2, PTL
=============================================================================
