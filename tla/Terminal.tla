------------------------------ MODULE Terminal ------------------------------
(***************************************************************************)
(* The terminal's input: kernel/terminal/terminal.c, the branch of         *)
(* SyscallDoRead that reads it, tcgroup, and the signals control-C and     *)
(* control-Z become.                                                       *)
(*                                                                         *)
(* Every reader runs upon the bootstrap processor.  A call runs with       *)
(* interrupts masked from its entry to its return, its yield or its halt,  *)
(* and a step here is one such stretch.  The rings of the keyboard and of  *)
(* the serial line are one ring, filled by interrupts.                     *)
(***************************************************************************)
EXTENDS Naturals, Sequences, FiniteSets

CONSTANTS
    Reader,         \* processes that read the terminal
    GroupOf,        \* the process group of each
    Refuses,        \* those that ignore or catch SIGTTIN
    QueueCapacity,  \* TERMINAL_QUEUE_CAPACITY
    RingCapacity,   \* of the drivers' rings
    Nobody          \* stands for no reader, and for no foreground group

ASSUME TerminalAssumption ==
    /\ Nobody \notin Reader /\ Refuses \subseteq Reader
    /\ \A r \in Reader : GroupOf[r] # Nobody
    /\ {QueueCapacity, RingCapacity} \subseteq Nat \ {0}

TerminalGroup == {GroupOf[r] : r \in Reader}
Signal == {"INT", "TSTP"}                    \* the bytes 0x03 and 0x1A
Byte == Signal \cup {"key"}

VARIABLES
    ring,           \* bytes the interrupt handlers have received
    input,          \* TerminalQueue
    foreground,     \* TerminalForeground
    at,             \* where each reader stands
    pending,        \* signals pending upon each
    running         \* who has the processor

terminalVars == <<ring, input, foreground, at, pending, running>>

(* user: runs its program.  yielded: within the wait, gave the processor   *)
(* up or was woken from the halt.  halted: within the wait, interrupts     *)
(* enabled.  background: stopped by SIGTTIN within the read.  continued:   *)
(* continued from there.  stopped: by control-Z.                           *)
Place == {"user", "yielded", "halted", "background", "continued", "stopped", "ended"}
Runnable(r) == at[r] \in {"user", "yielded", "halted", "continued"}

TerminalTypeOK ==
    /\ ring \in Seq(Byte) /\ Len(ring) <= RingCapacity
    /\ input \in Seq(Byte) /\ Len(input) <= QueueCapacity
    /\ foreground \in TerminalGroup \cup {Nobody}
    /\ at \in [Reader -> Place]
    /\ pending \in [Reader -> SUBSET Signal]
    /\ running \in Reader \cup {Nobody}

(***************************************************************************)
(* The queue.                                                              *)
(***************************************************************************)

(* TerminalPoll: what does not fit is discarded.                           *)
Polled == SubSeq(input \o ring, 1,
                 IF Len(input \o ring) < QueueCapacity THEN Len(input \o ring)
                                                       ELSE QueueCapacity)

(* How many bytes from the head on are of S.                               *)
Leading(q, S) ==
    CHOOSE n \in 0 .. Len(q) : /\ \A i \in 1 .. n : q[i] \in S
                               /\ n < Len(q) => q[n + 1] \notin S

(* TerminalInterceptHead after a poll: control bytes at the head become    *)
(* signals to the foreground group, and are lost where there is none.      *)
Remaining == SubSeq(Polled, Leading(Polled, Signal) + 1, Len(Polled))
Typed == {Polled[i] : i \in 1 .. Leading(Polled, Signal)}
Signalled ==
    [r \in Reader |-> IF GroupOf[r] = foreground /\ at[r] # "ended"
                      THEN pending[r] \cup Typed ELSE pending[r]]

Background(r) == foreground # Nobody /\ GroupOf[r] # foreground

(* Mutant: the foreground is judged before the wait, and not within it.    *)
WaitsOn(r) == TRUE

(* TerminalCallerMayWait.                                                  *)
MayWait(r) == ~Background(r)

(***************************************************************************)
(* The read.                                                               *)
(***************************************************************************)

(* The processor goes to another that can run, or to the idle thread.      *)
Dispatch(r) ==
    \/ \E x \in Reader \ {r} : Runnable(x) /\ running' = x
    \/ (\A x \in Reader \ {r} : ~Runnable(x)) /\ running' = Nobody

(* Return to the program: with bytes, with EINTR or with EIO.              *)
Returns(r) == at' = [at EXCEPT ![r] = "user"] /\ UNCHANGED running

(* A reader of the background is stopped by SIGTTIN, or refused.           *)
TurnedAway(r) ==
    \/ r \in Refuses /\ Returns(r)
    \/ r \notin Refuses /\ at' = [at EXCEPT ![r] = "background"] /\ Dispatch(r)

(* There is input, and no signal came before it.                           *)
HasInput(r) == Remaining # <<>> /\ Signalled[r] = {}

(* One turn of TerminalWaitForInput and what the read does of its answer.  *)
(* Whether the reader may wait is asked only where there is no input.      *)
Turn(r) ==
    LET keys == Leading(Remaining, {"key"})
    IN  /\ ring' = <<>> /\ pending' = Signalled
        /\ \/ /\ HasInput(r)                                 \* TerminalRead
              /\ \E n \in 1 .. keys : input' = SubSeq(Remaining, n + 1, Len(Remaining))
              /\ Returns(r)
           \/ /\ Signalled[r] # {}                           \* EINTR
              /\ input' = Remaining /\ Returns(r)
           \/ /\ Remaining = <<>> /\ Signalled[r] = {}
              /\ input' = Remaining
              /\ \/ ~MayWait(r) /\ TurnedAway(r)
                 \/ /\ MayWait(r)
                    /\ \/ /\ \E x \in Reader \ {r} : Runnable(x)
                          /\ at' = [at EXCEPT ![r] = "yielded"]
                          /\ Dispatch(r)
                       \/ /\ \A x \in Reader \ {r} : ~Runnable(x)
                          /\ at' = [at EXCEPT ![r] = "halted"]
                          /\ UNCHANGED running
        /\ UNCHANGED foreground

(* The head of the read's loop: the foreground is judged, and a signal     *)
(* already pending ends the wait before the queue is looked at.            *)
Top(r) ==
    \/ /\ Background(r) /\ TurnedAway(r)
       /\ UNCHANGED <<ring, input, foreground, pending>>
    \/ /\ ~Background(r) /\ pending[r] # {}
       /\ Returns(r)
       /\ UNCHANGED <<ring, input, foreground, pending>>
    \/ ~Background(r) /\ pending[r] = {} /\ Turn(r)

ReadCall(r) == running = r /\ at[r] = "user" /\ Top(r)

(* A reader back from its yield or its halt goes round the wait, not round *)
(* the loop of the read.                                                   *)
ReadResumes(r) == running = r /\ at[r] = "yielded" /\ Turn(r)

(* Continued while stopped for the background.                             *)
ReadContinues(r) ==
    /\ running = r /\ at[r] = "continued"
    /\ \/ /\ pending[r] # {}
          /\ Returns(r)
          /\ UNCHANGED <<ring, input, foreground, pending>>
       \/ pending[r] = {} /\ Top(r)

(***************************************************************************)
(* Interrupts, taken in user mode, in the halt and by the idle thread.     *)
(***************************************************************************)

Interruptible == running # Nobody => at[running] \in {"user", "halted"}

Arrives(b) ==
    /\ Interruptible /\ Len(ring) < RingCapacity
    /\ ring' = Append(ring, b)
    /\ UNCHANGED <<input, foreground, at, pending, running>>

(* The tick services the terminal; a halted reader goes round its wait,    *)
(* and a program in user mode may be preempted.                            *)
TerminalTick ==
    /\ Interruptible
    /\ ring' = <<>> /\ input' = Remaining /\ pending' = Signalled
    /\ \/ /\ running # Nobody /\ at[running] = "halted"
          /\ at' = [at EXCEPT ![running] = "yielded"] /\ UNCHANGED running
       \/ /\ running # Nobody /\ at[running] = "user"
          /\ UNCHANGED at /\ (UNCHANGED running \/ Dispatch(running))
       \/ /\ running = Nobody /\ UNCHANGED at /\ Dispatch(Nobody)
    /\ UNCHANGED foreground

(***************************************************************************)
(* What the programs do besides.                                           *)
(***************************************************************************)

(* Ending clears a foreground group whose last member it was.              *)
Ends(r) ==
    /\ at' = [at EXCEPT ![r] = "ended"]
    /\ foreground' = IF /\ foreground = GroupOf[r]
                        /\ \A x \in Reader \ {r} : GroupOf[x] = foreground => at[x] = "ended"
                     THEN Nobody ELSE foreground
    /\ Dispatch(r)

(* Signals are acted upon on the way out to the program: handled, ended by *)
(* or stopped by.                                                          *)
Delivered(r) ==
    /\ running = r /\ at[r] = "user" /\ pending[r] # {}
    /\ pending' = [pending EXCEPT ![r] = {}]
    /\ \/ UNCHANGED <<at, foreground, running>>
       \/ "INT" \in pending[r] /\ Ends(r)
       \/ /\ "TSTP" \in pending[r]
          /\ at' = [at EXCEPT ![r] = "stopped"] /\ Dispatch(r) /\ UNCHANGED foreground
    /\ UNCHANGED <<ring, input>>

Exits(r) ==
    /\ running = r /\ at[r] = "user" /\ Ends(r)
    /\ UNCHANGED <<ring, input, pending>>

(* tcgroup.                                                                *)
SetForegroundGroup(r, g) ==
    /\ running = r /\ at[r] = "user"
    /\ foreground' = g
    /\ UNCHANGED <<ring, input, at, pending, running>>

(* SIGCONT from another program: discards a pending stop.                  *)
Continue(r, x) ==
    /\ running = r /\ at[r] = "user" /\ at[x] \in {"background", "stopped"}
    /\ at' = [at EXCEPT ![x] = IF at[x] = "stopped" THEN "user" ELSE "continued"]
    /\ pending' = [pending EXCEPT ![x] = @ \ {"TSTP"}]
    /\ UNCHANGED <<ring, input, foreground, running>>

TerminalInit ==
    /\ ring = <<>> /\ input = <<>> /\ foreground = Nobody
    /\ at = [r \in Reader |-> "user"]
    /\ pending = [r \in Reader |-> {}]
    /\ running \in Reader

TerminalNext ==
    \/ \E r \in Reader :
          \/ ReadCall(r) \/ ReadResumes(r) \/ ReadContinues(r) \/ Delivered(r) \/ Exits(r)
          \/ \E g \in TerminalGroup : SetForegroundGroup(r, g)
          \/ \E x \in Reader : Continue(r, x)
    \/ \E b \in Byte : Arrives(b)
    \/ TerminalTick

TerminalSpec == TerminalInit /\ [][TerminalNext]_terminalVars

(* The processor runs on: whoever has it takes its next step, and the      *)
(* timer keeps ticking.                                                    *)
TerminalFairSpec == TerminalSpec /\ WF_terminalVars(TerminalNext)

(***************************************************************************)
(* Properties.                                                             *)
(***************************************************************************)

(* Where no two readers are of one group, the loop of the read and of the  *)
(* wait does keep the terminal to one: while there is a foreground group,  *)
(* the processor always takes interrupts again, however readers lose the   *)
(* terminal as they wait, are stopped, continued and claim it back.        *)
OneReaderProgresses == []<>(Interruptible \/ foreground = Nobody)

(* syscall.c, of the loop of the read: it "is the whole of what keeps one  *)
(* terminal to one reader", and of the livelock it ended: "One reader      *)
(* remains, and it makes progress".  So the processor always takes         *)
(* interrupts again, and with them the bytes a reader waits for.           *)
InterruptsReturn == []<>Interruptible
=============================================================================
