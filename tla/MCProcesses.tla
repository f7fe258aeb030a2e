---------------------------- MODULE MCProcesses ----------------------------
(* Small instances of Processes: which program makes which calls, and with *)
(* which arguments.  Identifier 1 is init, which collects and starts.      *)
EXTENDS Processes

Everyone(calls) == [p \in Proc |-> calls]
Apart(initCalls, calls) == [p \in Proc |-> IF p = Init1 THEN initCalls ELSE calls]

(* Families that fork, end, fault, wait and pause in every order.          *)
FamilyCalls == Everyone({"fork", "exec", "exit", "fault", "wait", "pause", "sigaction"})
AnyOrOne    == {-1, 2, 3}
Plainly     == {{}}

(* A shell and a job under init: stops, continues, waits with UNTRACED.    *)
JobCalls == Apart({"fork", "wait"},
                  {"fork", "exec", "wait", "pause", "kill", "sigaction"})
AnyChild == {-1}
Untraced == {{"UNTRACED"}}
Jobs     == {2, 3}

(* A program that signals, and one that sleeps, ends, changes its group,   *)
(* sets handlers, is stopped and is alarmed; init waits.                   *)
SleeperCalls == [p \in Proc |->
    CASE p = 1 -> {"fork", "wait", "other"}
      [] p = 2 -> {"pipe", "kill"}
      [] OTHER -> {"pause", "alarm", "pipe", "exec", "exit", "fault", "sigaction", "setpgid"}]
HangOrNot == {{"UNTRACED"}, {"NO_HANG"}}
TheLast   == {3}

(* init as it governs one child that only ever reads a pipe.               *)
GovernorCalls == Apart({"fork", "kill", "wait"}, {"pipe", "sigaction"})
TheChild      == {2}
=============================================================================
