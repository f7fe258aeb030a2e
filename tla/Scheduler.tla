----------------------------- MODULE Scheduler -----------------------------
(***************************************************************************)
(* The scheduler of kernel/proc/sched.c: one run queue per processor, each *)
(* under a lock of its own, a round-robin rotation driven by each          *)
(* processor's timer, affinity masks, and the wait channels threads sleep  *)
(* upon.                                                                   *)
(*                                                                         *)
(* Granularity.  A section under one queue lock is one step.  A reschedule *)
(* takes the lock twice, to dequeue and to put the outgoing thread back,   *)
(* and switches without it, so it is three steps between which the other   *)
(* processors run.  Interrupts are masked throughout: nothing else happens *)
(* on the same processor.                                                  *)
(*                                                                         *)
(* Who calls what.  A user thread has affinity for processor 0 alone       *)
(* (ThreadCreate), and only user threads sleep, wake, end and are          *)
(* destroyed.  A kernel thread made by ThreadCreateScheduled may run       *)
(* anywhere its mask permits, yields, is pre-empted, and blocks for good.  *)
(***************************************************************************)
EXTENDS Integers, Sequences

CONSTANTS
    LastCpu,     \* processors are numbered 0 .. LastCpu, all online
    User,        \* threads that belong to a process
    Kernel,      \* threads made by ThreadCreateScheduled
    Channel      \* the addresses threads sleep upon

CPU    == 0 .. LastCpu
Thread == User \cup Kernel
Idle   == "idle"     \* the idle thread of the processor in question
None   == "none"

ASSUME CpuAssumption == LastCpu \in Nat
ASSUME ThreadAssumption ==
    /\ User \cap Kernel = {}
    /\ Idle \notin Thread /\ None \notin Thread
ASSUME ChannelAssumption == None \notin Channel

VARIABLES
    queue,     \* SchedulerQueues: the list from head to tail
    queued,    \* Thread.queued
    tstate,    \* Thread.state
    channel,   \* Thread.wait_channel
    affinity,  \* Thread.affinity
    current,   \* ProcessCurrentThreads, the thread each processor executes
    next,      \* what a processor in a reschedule has dequeued
    phase,     \* where a processor stands: see Phases
    waking     \* the channel processor 0 is waking, while in SchedulerWake

vars == <<queue, queued, tstate, channel, affinity, current, next, phase, waking>>
threadVars == <<queued, tstate, channel, affinity>>

(* "run": executing its thread.  "wake": processor 0 inside SchedulerWake. *)
(* "resched", "place", "switch": in SchedulerRescheduleLocked, before the  *)
(* dequeue, before the outgoing thread is put back, before the switch.     *)
Phases == {"run", "wake", "resched", "place", "switch"}

TypeOK ==
    /\ queue \in [CPU -> Seq(Thread)]
    /\ queued \in [Thread -> BOOLEAN]
    /\ tstate \in [Thread -> {"UNUSED", "CREATED", "READY", "RUNNING", "BLOCKED", "EXITED"}]
    /\ channel \in [Thread -> Channel \cup {None}]
    /\ affinity \in [Thread -> SUBSET CPU]
    /\ current \in [CPU -> Thread \cup {Idle}]
    /\ next \in [CPU -> Thread \cup {Idle, None}]
    /\ phase \in [CPU -> Phases]
    /\ waking \in Channel \cup {None}

Init ==
    /\ queue = [c \in CPU |-> <<>>]
    /\ queued = [t \in Thread |-> FALSE]
    /\ tstate = [t \in Thread |-> "UNUSED"]
    /\ channel = [t \in Thread |-> None]
    /\ affinity = [t \in Thread |-> {}]
    /\ current = [c \in CPU |-> Idle]
    /\ next = [c \in CPU |-> None]
    /\ phase = [c \in CPU |-> "run"]
    /\ waking = None

----------------------------------------------------------------------------
(* Mutant: the head of the queue.                                          *)
EnqueueFirst(c, t) ==
    /\ queue' = [queue EXCEPT ![c] = <<t>> \o @]
    /\ queued' = [queued EXCEPT ![t] = TRUE]
    /\ tstate' = [tstate EXCEPT ![t] = "READY"]

(* SchedulerEnqueue: the tail of queue c.                                  *)
Enqueue(c, t) ==
    /\ queue' = [queue EXCEPT ![c] = Append(@, t)]
    /\ queued' = [queued EXCEPT ![t] = TRUE]
    /\ tstate' = [tstate EXCEPT ![t] = "READY"]

(* Mutant: the mask is not consulted.                                      *)
ChooseAnyProcessor(mask) == CPU

(* SchedulerChooseProcessor: one the mask permits.  Lengths are read       *)
(* without the locks and are a hint, so any permitted one may be chosen.   *)
ChooseProcessor(mask) == mask \cap CPU

(* SchedulerAdmit.                                                         *)
Admit(t) ==
    /\ ~queued[t] /\ tstate[t] \notin {"EXITED", "UNUSED"}
    /\ \E c \in ChooseProcessor(affinity[t]) : Enqueue(c, t)

(* The thread on processor 0 calls the kernel, or its tick does.           *)
Runs(c) == phase[c] = "run"
Reschedule(c) == phase' = [phase EXCEPT ![c] = "resched"]

----------------------------------------------------------------------------
(* SchedulerRescheduleLocked.                                              *)

(* SchedulerDequeue found a thread.                                        *)
Dequeue(c) ==
    /\ phase[c] = "resched" /\ queue[c] # <<>>
    /\ next' = [next EXCEPT ![c] = Head(queue[c])]
    /\ queue' = [queue EXCEPT ![c] = Tail(@)]
    /\ queued' = [queued EXCEPT ![Head(queue[c])] = FALSE]
    /\ phase' = [phase EXCEPT ![c] = "place"]
    /\ UNCHANGED <<tstate, channel, affinity, current, waking>>

StillRunsAnyway(c) == TRUE      \* mutant: a thread that sleeps keeps going
StillRuns(c) == current[c] # Idle => tstate[current[c]] = "RUNNING"

(* It found none and the running thread keeps the processor.               *)
KeepRunning(c) ==
    /\ phase[c] = "resched" /\ queue[c] = <<>> /\ StillRuns(c)
    /\ phase' = [phase EXCEPT ![c] = "run"]
    /\ UNCHANGED <<queue, threadVars, current, next, waking>>

(* It found none and the running thread has stopped being runnable.        *)
GoIdle(c) ==
    /\ phase[c] = "resched" /\ queue[c] = <<>> /\ ~StillRuns(c)
    /\ next' = [next EXCEPT ![c] = Idle]
    /\ phase' = [phase EXCEPT ![c] = "place"]
    /\ UNCHANGED <<queue, threadVars, current, waking>>

(* Mutant: the outgoing thread goes to whichever processor is free.        *)
PlaceAnywhere(c) ==
    /\ phase[c] = "place" /\ current[c] # Idle /\ tstate[current[c]] = "RUNNING"
    /\ \E d \in ChooseProcessor(affinity[current[c]]) : Enqueue(d, current[c])
    /\ phase' = [phase EXCEPT ![c] = "switch"]
    /\ UNCHANGED <<channel, affinity, current, next, waking>>

(* The outgoing thread goes back on this queue where it is still runnable. *)
PlaceBack(c) ==
    /\ phase[c] = "place" /\ current[c] # Idle /\ tstate[current[c]] = "RUNNING"
    /\ Enqueue(c, current[c])
    /\ phase' = [phase EXCEPT ![c] = "switch"]
    /\ UNCHANGED <<channel, affinity, current, next, waking>>

LeaveOff(c) ==
    /\ phase[c] = "place" /\ (current[c] # Idle => tstate[current[c]] # "RUNNING")
    /\ phase' = [phase EXCEPT ![c] = "switch"]
    /\ UNCHANGED <<queue, threadVars, current, next, waking>>

(* ThreadSwitchTo, and what SchedulerSleep does when it returns.           *)
Switch(c) ==
    /\ phase[c] = "switch"
    /\ current' = [current EXCEPT ![c] = next[c]]
    /\ next' = [next EXCEPT ![c] = None]
    /\ tstate' = [t \in Thread |-> IF t = next[c] THEN "RUNNING" ELSE tstate[t]]
    /\ channel' = [t \in Thread |-> IF t = next[c] THEN None ELSE channel[t]]
    /\ phase' = [phase EXCEPT ![c] = "run"]
    /\ UNCHANGED <<queue, queued, affinity, waking>>

----------------------------------------------------------------------------
(* What brings a processor to a reschedule.                                *)

(* SchedulerHandleTick, where it pre-empts: privilege level 3, a kernel    *)
(* thread, or idle.  The idle loop's own yield is the same step.           *)
Tick(c) ==
    /\ Runs(c) /\ Reschedule(c)
    /\ UNCHANGED <<queue, threadVars, current, next, waking>>

(* SchedulerYield by a thread of its own accord.                           *)
Yield(c) ==
    /\ Runs(c) /\ current[c] # Idle /\ Reschedule(c)
    /\ UNCHANGED <<queue, threadVars, current, next, waking>>

(* SchedulerSleep, up to the reschedule.                                   *)
Sleep(ch) ==
    /\ Runs(0) /\ current[0] \in User
    /\ channel' = [channel EXCEPT ![current[0]] = ch]
    /\ tstate' = [tstate EXCEPT ![current[0]] = "BLOCKED"]
    /\ Reschedule(0)
    /\ UNCHANGED <<queue, queued, affinity, current, next, waking>>

(* SchedulerBlockCurrent: out of the rotation for good.                    *)
BlockCurrent(c) ==
    /\ Runs(c) /\ current[c] \in Kernel
    /\ tstate' = [tstate EXCEPT ![current[c]] = "BLOCKED"]
    /\ Reschedule(c)
    /\ UNCHANGED <<queue, queued, channel, affinity, current, next, waking>>

(* ThreadTerminateCurrent and SchedulerExitCurrent.                        *)
ExitCurrent ==
    /\ Runs(0) /\ current[0] \in User
    /\ tstate' = [tstate EXCEPT ![current[0]] = "EXITED"]
    /\ Reschedule(0)
    /\ UNCHANGED <<queue, queued, channel, affinity, current, next, waking>>

----------------------------------------------------------------------------
(* What processor 0 does to other threads.                                 *)

(* ThreadCreate, for a process, or ThreadCreateScheduled.                  *)
Create(t) ==
    /\ Runs(0) /\ tstate[t] = "UNUSED"
    /\ tstate' = [tstate EXCEPT ![t] = "CREATED"]
    /\ affinity' = [affinity EXCEPT ![t] = IF t \in User THEN {0} ELSE CPU]
    /\ UNCHANGED <<queue, queued, channel, current, next, phase, waking>>

(* ProcessFork, ThreadLaunch: a thread that has not run is admitted.       *)
Launch(t) ==
    /\ Runs(0) /\ tstate[t] = "CREATED" /\ Admit(t)
    /\ UNCHANGED <<channel, affinity, current, next, phase, waking>>

(* SchedulerSetAffinity of a kernel thread; a queued one is not moved.     *)
SetAffinity(t, mask) ==
    /\ Runs(0) /\ t \in Kernel /\ tstate[t] # "UNUSED"
    /\ ChooseProcessor(mask) # {}
    /\ affinity' = [affinity EXCEPT ![t] = mask]
    /\ UNCHANGED <<queue, queued, tstate, channel, current, next, phase, waking>>

(* SchedulerWake: the table is walked, each sleeper upon the channel is    *)
(* taken off it and admitted.                                              *)
Wake(ch) ==
    /\ Runs(0)
    /\ waking' = ch
    /\ phase' = [phase EXCEPT ![0] = "wake"]
    /\ UNCHANGED <<queue, threadVars, current, next>>

Sleeper(t, ch) == tstate[t] = "BLOCKED" /\ channel[t] = ch

WakeSleeper(t) ==
    /\ phase[0] = "wake" /\ Sleeper(t, waking)
    /\ channel' = [channel EXCEPT ![t] = None]
    /\ Admit(t)
    /\ UNCHANGED <<affinity, current, next, phase, waking>>

WakeEnd ==
    /\ phase[0] = "wake" /\ \A t \in Thread : ~Sleeper(t, waking)
    /\ waking' = None
    /\ phase' = [phase EXCEPT ![0] = "run"]
    /\ UNCHANGED <<queue, threadVars, current, next>>

(* SchedulerWakeThread: a signal, whatever the channel.                    *)
WakeThread(t) ==
    /\ Runs(0) /\ tstate[t] = "BLOCKED" /\ channel[t] # None
    /\ channel' = [channel EXCEPT ![t] = None]
    /\ Admit(t)
    /\ UNCHANGED <<affinity, current, next, phase, waking>>

(* Mutants: the one after it is unlinked; none is.                         *)
WithoutNext(q, i) == [j \in 1 .. Len(q) - 1 |-> IF j <= i THEN q[j] ELSE q[j + 1]]
WithoutNone(q, i) == q

(* The queue q without its i-th thread.                                    *)
Without(q, i) == [j \in 1 .. Len(q) - 1 |-> IF j < i THEN q[j] ELSE q[j + 1]]

(* ThreadDestroy of a user thread that has ended or waits in the queue to  *)
(* run: SchedulerWithdraw, and the slot is given up.                       *)
Destroy(t) ==
    /\ Runs(0) /\ t \in User /\ current[0] # t
    /\ tstate[t] \in {"CREATED", "READY", "EXITED"}
    /\ IF queued[t]
         THEN \E i \in 1 .. Len(queue[0]) :
                 queue[0][i] = t /\ queue' = [queue EXCEPT ![0] = Without(@, i)]
         ELSE queue' = queue
    /\ queued' = [queued EXCEPT ![t] = FALSE]
    /\ tstate' = [tstate EXCEPT ![t] = "UNUSED"]
    /\ channel' = [channel EXCEPT ![t] = None]
    /\ affinity' = [affinity EXCEPT ![t] = {}]
    /\ UNCHANGED <<current, next, phase, waking>>

----------------------------------------------------------------------------
RescheduleStep(c) ==
    \/ Dequeue(c)
    \/ KeepRunning(c)
    \/ GoIdle(c)
    \/ PlaceBack(c)
    \/ LeaveOff(c)
    \/ Switch(c)

Next ==
    \/ \E c \in CPU : RescheduleStep(c) \/ Tick(c) \/ Yield(c) \/ BlockCurrent(c)
    \/ \E ch \in Channel : Sleep(ch) \/ Wake(ch)
    \/ \E t \in Thread :
          \/ Create(t)
          \/ Launch(t)
          \/ WakeSleeper(t)
          \/ WakeThread(t)
          \/ Destroy(t)
          \/ \E mask \in SUBSET CPU : SetAffinity(t, mask)
    \/ WakeEnd
    \/ ExitCurrent

(* A reschedule and a walk that have begun end, and every timer ticks: an  *)
(* interrupt raised while a processor masks it is taken when it unmasks,   *)
(* so a tick that can infinitely often be taken is taken.                  *)
Fairness ==
    /\ \A c \in CPU : WF_vars(RescheduleStep(c)) /\ SF_vars(Tick(c))
    /\ WF_vars(WakeEnd \/ \E t \in Thread : WakeSleeper(t))

Spec == Init /\ [][Next]_vars
FairSpec == Spec /\ Fairness

----------------------------------------------------------------------------
(* Properties.                                                             *)

(* The threads a processor holds: what it executes and, during a           *)
(* reschedule, what it has taken off its queue and not yet switched to.    *)
Holds(c) == {current[c], next[c]} \ {Idle, None}

(* A queue never holds a thread twice, no two queues hold the same thread, *)
(* and the flag every admission tests says exactly which are in a queue: a *)
(* thread admitted twice would make the list cyclic (SchedulerEnqueue,     *)
(* SchedulerDequeue, SchedulerWithdraw against the unlocked test in        *)
(* SchedulerAdmit).                                                        *)
QueuedOnce ==
    /\ \A c \in CPU : \A i \in 1 .. Len(queue[c]) : queued[queue[c][i]]
    /\ \A t \in Thread : queued[t] => \E c \in CPU : \E i \in 1 .. Len(queue[c]) : queue[c][i] = t
    /\ \A c, d \in CPU : \A i \in 1 .. Len(queue[c]), j \in 1 .. Len(queue[d]) :
          queue[c][i] = queue[d][j] => c = d /\ i = j

(* No thread is executed by, or about to be executed by, two processors:   *)
(* its one kernel stack is never live twice, though a reschedule drops the *)
(* queue lock before it switches.                                          *)
RunsOnce == \A c, d \in CPU : c # d => Holds(c) \cap Holds(d) = {}

(* What a processor executes exists: a destroyed thread, whose stack has   *)
(* been given back, is never current, never about to be, and never queued. *)
NeverReleased ==
    \A t \in Thread : tstate[t] = "UNUSED" => ~queued[t] /\ \A c \in CPU : t \notin Holds(c)

(* A runnable thread is never lost: it is in a queue, or a processor holds *)
(* it; and one in a queue is held only by the processor that is putting it *)
(* back.                                                                   *)
NeverLost ==
    \A t \in Thread :
        /\ tstate[t] = "READY" => queued[t] \/ \E c \in CPU : next[c] = t
        /\ tstate[t] = "RUNNING" => \E c \in CPU : current[c] = t
        /\ queued[t] => \A c \in CPU : t \in Holds(c) => current[c] = t /\ phase[c] = "switch"

(* "A thread never migrates", and a user thread never leaves the bootstrap *)
(* processor, upon which every structure the scheduler does not lock       *)
(* relies: a user thread is queued and run on processor 0 alone.           *)
UserStaysHome ==
    \A c \in CPU : c # 0 =>
        /\ Holds(c) \cap User = {}
        /\ \A i \in 1 .. Len(queue[c]) : queue[c][i] \notin User

(* Round robin starves nobody: a queued thread is run, or destroyed.       *)
NoStarvation == \A t \in Thread : queued[t] ~> (tstate[t] \in {"RUNNING", "UNUSED"})
=============================================================================
