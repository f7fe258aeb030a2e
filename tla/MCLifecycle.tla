---------------------------- MODULE MCLifecycle ----------------------------
(* Families of four processes, and the tree of names of three volumes, in  *)
(* one run.  The two share no state here, so a behaviour is one of either, *)
(* as `part` says, and the other stands still.                             *)
EXTENDS MCProcesses, MCMounts

VARIABLE part

LifecycleInit == part \in {"families", "names"} /\ Init /\ MountsInit
LifecycleNext ==
    \/ part = "families" /\ Next /\ UNCHANGED <<part, treeVars>>
    \/ part = "names" /\ MountsNext /\ UNCHANGED <<part, vars>>
LifecycleSpec == LifecycleInit /\ [][LifecycleNext]_<<part, vars, treeVars>>
=============================================================================
