------------------------------- MODULE MCPipe -------------------------------
(* A pipe of two bytes among three processes, its indices of two bits, one *)
(* process using dup2; and the shell that makes pipelines, with two jobs   *)
(* of at most two commands.  They share no state, so a behaviour is one of *)
(* either, as `part` says, and the other stands still.                     *)
EXTENDS Pipe, Jobs

VARIABLE part

OneDuplicates == [p \in Proc |-> IF p = "p1" THEN 2 ELSE 1]
SmallBlocks == {<<1>>, <<2, 1>>}

PipelineInit ==
    /\ part \in {"pipe", "shell"}
    /\ Init /\ JobsInit
    /\ part = "pipe" => hasTerminal
PipelineNext ==
    \/ part = "pipe" /\ Next /\ UNCHANGED <<part, jobVars>>
    \/ part = "shell" /\ JobsNext /\ UNCHANGED <<part, vars>>
PipelineSpec == PipelineInit /\ [][PipelineNext]_<<part, vars, jobVars>>
=============================================================================
