---------------------------- MODULE MCGovernors ----------------------------
(* Those that govern other programs: a shell with a job (three processes,  *)
(* stopped and continued), and init with three services, of which one is   *)
(* started once and one needs the display, an orphan and two requests;     *)
(* three endings in a row are the limit.  The two modules share no state,  *)
(* so a behaviour is one of either, as `part` says, and the other stands   *)
(* still.                                                                  *)
EXTENDS MCProcesses, Supervisor

VARIABLE part

GovernInit == part \in {"jobs", "init"} /\ Init /\ SupervisorInit
GovernNext ==
    \/ part = "jobs" /\ Next /\ UNCHANGED <<part, supervisorVars>>
    \/ part = "init" /\ SupervisorNext /\ UNCHANGED <<part, vars>>
GovernSpec ==
    /\ GovernInit /\ [][GovernNext]_<<part, vars, supervisorVars>>
    /\ part = "init" => SupervisorFairness
=============================================================================
