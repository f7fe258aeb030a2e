---------------------------- MODULE MCScheduler ----------------------------
(* How programs take turns: the scheduler with two processors, two user    *)
(* threads that sleep upon one channel, and two kernel threads, enough for *)
(* the second processor to rotate; and the terminal with two readers of a  *)
(* group each, which yield to one another within their waits.  The two     *)
(* share no state, so a behaviour is one of either, as `part` says, and    *)
(* the other stands still.                                                 *)
EXTENDS Scheduler, MCTerminal

VARIABLE part

TurnsInit ==
    /\ part \in {"threads", "readers"}
    /\ Init /\ TerminalInit
    /\ part = "threads" => running = 1
TurnsNext ==
    \/ part = "threads" /\ Next /\ UNCHANGED <<part, terminalVars>>
    \/ part = "readers" /\ TerminalNext /\ UNCHANGED <<part, vars>>

(* Fairness, and the processor that runs on, each where its part moves.    *)
TurnsSpec ==
    /\ TurnsInit /\ [][TurnsNext]_<<part, vars, terminalVars>>
    /\ \A c \in CPU : WF_vars(part = "threads" /\ RescheduleStep(c))
                    /\ SF_vars(part = "threads" /\ Tick(c))
    /\ WF_vars(part = "threads" /\ (WakeEnd \/ \E t \in Thread : WakeSleeper(t)))
    /\ WF_terminalVars(part = "readers" /\ TerminalNext)
=============================================================================
