------------------------------- MODULE Jobs -------------------------------
(***************************************************************************)
(* The shell's jobs: userland/sh/jobs.c, and the forks of                  *)
(* userland/sh/run.c, against the children, groups and terminal the kernel *)
(* keeps.  A step of the shell, or of a child on its way to its program,   *)
(* is one system call with what is done to memory of its own before the    *)
(* next; between two such steps the others run.                            *)
(*                                                                         *)
(* A shell without a terminal (a shell in a window) puts nothing in a      *)
(* group.  Programs change neither their group nor the terminal's, and do  *)
(* not ignore SIGCONT.  The table's `reported` and the texts are left out; *)
(* the pids of children that nothing names any more are used again.        *)
(***************************************************************************)
EXTENDS Integers, FiniteSetsExt

CONSTANTS
    Pid,          \* identifiers of children
    Own,          \* the shell's group
    Jobs,         \* slots of the table
    Commands      \* SHELL_COMMAND_MAXIMUM, commands of one pipeline

ASSUME JobsAssumption ==
    /\ Pid \subseteq Nat \ {0} /\ Own \in Nat \ (Pid \cup {0})
    /\ Jobs \in Nat \ {0} /\ Commands \in Nat \ {0}

Slot == 1 .. Jobs

VARIABLES
    child,        \* the kernel's record of each child
    foreground,   \* the terminal's group, 0 for none
    table,        \* ShellJobs
    shell,        \* where the shell stands, upon which job and child
    hasTerminal,  \* ShellHasTerminal
    early         \* a child was stopped before it reached its program

jobVars == <<child, foreground, table, shell, hasTerminal, early>>

NoChild == [state |-> "none", group |-> 0, told |-> FALSE, stands |-> "program", aim |-> 0,
            takes |-> FALSE]
NoJob == [used |-> FALSE, group |-> 0, live |-> {}, stopped |-> {}, state |-> "running"]

JobsTypeOK ==
    /\ child \in [Pid -> [state : {"none", "runs", "stopped", "ended"},
                          group : Pid \cup {0, Own}, told : BOOLEAN,
                          stands : {"sets", "gives", "program"}, aim : Pid \cup {0},
                          takes : BOOLEAN]]
    /\ foreground \in Pid \cup {0, Own}
    /\ table \in [Slot -> [used : BOOLEAN, group : Pid \cup {0}, live : SUBSET Pid,
                           stopped : SUBSET Pid, state : {"running", "stopped", "done"}]]
    /\ shell \in [at : {"ready", "next", "forked", "joined", "fg", "waits", "notify"},
                  job : Slot, pid : Pid \cup {0}, background : BOOLEAN]
    /\ hasTerminal \in BOOLEAN /\ early \in BOOLEAN

Live(p) == child[p].state \in {"runs", "stopped"}
AtPrompt == [at |-> "ready", job |-> 1, pid |-> 0, background |-> FALSE]
Goes(place) == shell' = IF place = "ready" THEN AtPrompt ELSE [shell EXCEPT !.at = place]
Job == table[shell.job]

(***************************************************************************)
(* The table.                                                              *)
(***************************************************************************)

Owners(p) == {j \in Slot : table[j].used /\ p \in table[j].live}

(* ShellJobRecord, of an ending or of a stop of p.                         *)
Record(p, kind) ==
    LET After(job) ==
            LET live == IF kind = "ended" THEN job.live \ {p} ELSE job.live
                stopped == IF kind = "ended" THEN job.stopped \ {p} ELSE job.stopped \cup {p}
            IN  [job EXCEPT !.live = live, !.stopped = stopped,
                            !.state = CASE live = {} -> "done"
                                        [] live # {} /\ live \subseteq stopped -> "stopped"
                                        [] OTHER -> "running"]
    IN  [j \in Slot |-> IF Owners(p) # {} /\ j = Min(Owners(p)) THEN After(table[j]) ELSE table[j]]

(* ShellJobContinued.                                                      *)
Continued(job) == [job EXCEPT !.stopped = {}, !.state = "running"]

(* SIGCONT, to the processes `of`.                                         *)
Signalled(of) ==
    [p \in Pid |-> IF p \in of /\ child[p].state = "stopped"
                   THEN [child[p] EXCEPT !.state = "runs", !.told = FALSE] ELSE child[p]]
Members(group) == {p \in Pid : Live(p) /\ child[p].group = group}

(***************************************************************************)
(* A pipeline: ShellRunProgram, ShellRunPipeline.                          *)
(***************************************************************************)

(* ShellJobBegin.                                                          *)
Begin(background) ==
    LET free == {j \in Slot : ~table[j].used}
    IN  /\ shell.at = "ready" /\ free # {}
        /\ table' = [table EXCEPT ![Min(free)] = [NoJob EXCEPT !.used = TRUE]]
        /\ shell' = [at |-> "next", job |-> Min(free), pid |-> 0, background |-> background]
        /\ UNCHANGED <<child, foreground, hasTerminal, early>>

(* The numbers that name nothing.                                          *)
Fresh ==
    {p \in Pid : /\ child[p].state = "none" /\ foreground # p
                 /\ \A j \in Slot : table[j].used => table[j].group # p}

(* The child has the shell's group, and the table as it is now.            *)
ForkMember(p) ==
    /\ shell.at = "next" /\ Cardinality(Job.live) < Commands
    /\ Fresh # {} /\ p = Min(Fresh)
    /\ child' = [child EXCEPT ![p] =
          [state |-> "runs", group |-> Own, told |-> FALSE,
           stands |-> IF hasTerminal THEN "sets" ELSE "program",
           aim |-> IF ~hasTerminal THEN 0 ELSE IF Job.group = 0 THEN p ELSE Job.group,
           takes |-> hasTerminal /\ ~shell.background]]
    /\ shell' = [shell EXCEPT !.at = "forked", !.pid = p]
    /\ UNCHANGED <<foreground, table, hasTerminal, early>>

(* Mutant: the group is left to the child to set.                          *)
LeftToChild(p, group) == child
PutIntoGroup(p, group) ==
    IF hasTerminal THEN [child EXCEPT ![p].group = group] ELSE child

(* ShellJobAddMember, to the terminal's group.                             *)
Join ==
    /\ shell.at = "forked"
    /\ LET group == IF Job.group = 0 THEN shell.pid ELSE Job.group
       IN  /\ table' = [table EXCEPT ![shell.job].group = group,
                                     ![shell.job].live = @ \cup {shell.pid}]
           /\ child' = PutIntoGroup(shell.pid, group)
    /\ shell' = [shell EXCEPT !.at = IF hasTerminal /\ ~shell.background THEN "joined" ELSE "next",
                              !.pid = 0]
    /\ UNCHANGED <<foreground, hasTerminal, early>>

Give ==
    /\ shell.at = "joined"
    /\ foreground' = Job.group
    /\ Goes("next")
    /\ UNCHANGED <<child, table, hasTerminal, early>>

(* The end of the pipeline, or a pipe or a fork that failed: without any   *)
(* child the job stays in the table as it is.                              *)
Finish ==
    /\ shell.at = "next"
    /\ Goes(IF Job.live = {} \/ shell.background THEN "ready" ELSE "waits")
    /\ UNCHANGED <<child, foreground, table, hasTerminal, early>>

(***************************************************************************)
(* ShellJobPrepareChild: the child joins, and takes the terminal.          *)
(***************************************************************************)

(* From here on it is at its program, and hears control-C and control-Z.   *)
AtProgram(record) == [record EXCEPT !.stands = "program", !.aim = 0, !.takes = FALSE]

ChildSets(p) ==
    /\ child[p].state = "runs" /\ child[p].stands = "sets"
    /\ LET joined == [child[p] EXCEPT !.group = child[p].aim, !.stands = "gives"]
       IN  child' = [child EXCEPT ![p] = IF child[p].takes THEN joined ELSE AtProgram(joined)]
    /\ UNCHANGED <<foreground, table, shell, hasTerminal, early>>

ChildGives(p) ==
    /\ child[p].state = "runs" /\ child[p].stands = "gives"
    /\ foreground' = child[p].aim
    /\ child' = [child EXCEPT ![p] = AtProgram(child[p])]
    /\ UNCHANGED <<table, shell, hasTerminal, early>>

(***************************************************************************)
(* What the kernel does to a child, at anybody's asking.                   *)
(***************************************************************************)

(* Before its program a child ignores what the terminal sends; SIGSTOP     *)
(* stops it all the same.                                                  *)
Stops(p) ==
    /\ child[p].state = "runs"
    /\ child' = [child EXCEPT ![p].state = "stopped", ![p].told = FALSE]
    /\ early' = (early \/ child[p].stands # "program")
    /\ UNCHANGED <<foreground, table, shell, hasTerminal>>

Continues(p) ==
    /\ child[p].state = "stopped"
    /\ child' = Signalled({p})
    /\ UNCHANGED <<foreground, table, shell, hasTerminal, early>>

(* A group that ends with its last process gives the terminal to nobody.   *)
Ends(p) ==
    /\ Live(p)
    /\ child' = [child EXCEPT ![p] = AtProgram([@ EXCEPT !.state = "ended", !.told = FALSE])]
    /\ foreground' = IF foreground = child[p].group /\ Members(foreground) = {p}
                        /\ foreground # Own
                     THEN 0 ELSE foreground
    /\ UNCHANGED <<table, shell, hasTerminal, early>>

(***************************************************************************)
(* ShellJobWaitForeground, and ShellJobsNotify before each prompt.         *)
(***************************************************************************)

(* ShellJobWaitTarget; the kernel takes 0, the group of a job without a    *)
(* child, for any child.                                                   *)
Target == IF hasTerminal THEN Job.group ELSE Own
Selected ==
    {p \in Pid : /\ child[p].state # "none"
                 /\ shell.at = "notify" \/ Target = 0 \/ child[p].group = Target}
Asks == shell.at = "notify" \/ (shell.at = "waits" /\ Job.state = "running")

Ended(p) == child[p].state = "ended"
StoppedAnew(p) == child[p].state = "stopped" /\ ~child[p].told

CollectEnded(p) ==
    /\ Asks /\ p \in Selected /\ Ended(p)
    /\ child' = [child EXCEPT ![p] = NoChild]
    /\ table' = Record(p, "ended")
    /\ UNCHANGED <<foreground, shell, hasTerminal, early>>

CollectStopped(p) ==
    /\ Asks /\ p \in Selected /\ StoppedAnew(p)
    /\ \A q \in Selected : ~Ended(q)
    /\ child' = [child EXCEPT ![p].told = TRUE]
    /\ table' = Record(p, "stopped")
    /\ UNCHANGED <<foreground, shell, hasTerminal, early>>

(* No child to collect: the job is given up.                               *)
WaitNone ==
    /\ shell.at = "waits" /\ Job.state = "running" /\ Selected = {}
    /\ table' = [table EXCEPT ![shell.job].state = "done"]
    /\ UNCHANGED <<child, foreground, shell, hasTerminal, early>>

(* Mutant: only an ended job gives the terminal back.                      *)
ReclaimedAtEnd == IF hasTerminal /\ Job.state = "done" THEN Own ELSE foreground
Reclaimed == IF hasTerminal THEN Own ELSE foreground

(* The end of the wait; a stopped job stays in the table.                  *)
Returns ==
    /\ shell.at = "waits" /\ Job.state # "running"
    /\ foreground' = Reclaimed
    /\ table' = IF Job.state = "stopped" THEN table ELSE [table EXCEPT ![shell.job] = NoJob]
    /\ Goes("ready")
    /\ UNCHANGED <<child, hasTerminal, early>>

Notify ==
    /\ shell.at = "ready"
    /\ Goes("notify")
    /\ UNCHANGED <<child, foreground, table, hasTerminal, early>>

Notified ==
    /\ shell.at = "notify"
    /\ \A p \in Pid : ~Ended(p) /\ ~StoppedAnew(p)
    /\ table' = [j \in Slot |-> IF table[j].state = "done" THEN NoJob ELSE table[j]]
    /\ Goes("ready")
    /\ UNCHANGED <<child, foreground, hasTerminal, early>>

(***************************************************************************)
(* fg, bg and kill.                                                        *)
(***************************************************************************)

Foreground(j) ==
    /\ shell.at = "ready" /\ hasTerminal /\ table[j].used
    /\ foreground' = IF table[j].group = 0 THEN foreground ELSE table[j].group
    /\ shell' = [at |-> "fg", job |-> j, pid |-> 0, background |-> FALSE]
    /\ UNCHANGED <<child, table, hasTerminal, early>>

ForegroundContinues ==
    /\ shell.at = "fg"
    /\ child' = Signalled(Members(Job.group))
    /\ table' = [table EXCEPT ![shell.job] = Continued(@)]
    /\ Goes("waits")
    /\ UNCHANGED <<foreground, hasTerminal, early>>

Background(j) ==
    /\ shell.at = "ready" /\ hasTerminal /\ table[j].used
    /\ child' = Signalled(Members(table[j].group))
    /\ table' = [table EXCEPT ![j] = Continued(@)]
    /\ UNCHANGED <<foreground, shell, hasTerminal, early>>

(* kill of a job, or of the process whose number is that of its group,     *)
(* with SIGCONT, or with another signal to a stopped job, which the shell  *)
(* follows by SIGCONT.  What the other signals do a child may do anyway.   *)
Kill(j) ==
    /\ shell.at = "ready" /\ table[j].used
    /\ \E of \in {Members(table[j].group), {p \in Pid : Live(p) /\ p = table[j].group}} \ {{}} :
          /\ hasTerminal \/ of = {table[j].group}
          /\ child' = Signalled(of)
    /\ table' = [table EXCEPT ![j] = Continued(@)]
    /\ UNCHANGED <<foreground, shell, hasTerminal, early>>

(* ShellJobsInitialise.                                                    *)
JobsInit ==
    /\ child = [p \in Pid |-> NoChild]
    /\ hasTerminal \in BOOLEAN
    /\ foreground = IF hasTerminal THEN Own ELSE 0
    /\ table = [j \in Slot |-> NoJob]
    /\ shell = AtPrompt
    /\ early = FALSE

JobsNext ==
    \/ \E background \in BOOLEAN : Begin(background)
    \/ \E p \in Pid :
          \/ ForkMember(p) \/ ChildSets(p) \/ ChildGives(p)
          \/ Stops(p) \/ Continues(p) \/ Ends(p)
          \/ CollectEnded(p) \/ CollectStopped(p)
    \/ Join \/ Give \/ Finish
    \/ WaitNone \/ Returns \/ Notify \/ Notified \/ ForegroundContinues
    \/ \E j \in Slot : Foreground(j) \/ Background(j) \/ Kill(j)

JobsSpec == JobsInit /\ [][JobsNext]_jobVars

(***************************************************************************)
(* Properties.                                                             *)
(***************************************************************************)

(* The table agrees with the kernel, however endings and stops fall among  *)
(* the forks and the two settings of each child's group: no child is       *)
(* forgotten, whether it lives or has ended, and the shell never waits for *)
(* a job all of which is stopped and was reported so.                      *)
JobsAreKnown ==
    /\ \A p \in Pid : child[p].state # "none" =>
          p = shell.pid \/ \E j \in Slot : table[j].used /\ p \in table[j].live
    /\ shell.at = "waits" /\ Job.state = "running" /\ Job.live # {} =>
          \E p \in Job.live : ~(child[p].state = "stopped" /\ child[p].told)

(* Back at its prompt the shell has the terminal, whatever became of the   *)
(* job it waited for and in whatever order the shell and the job's         *)
(* processes gave the terminal away; or it would be stopped by its own     *)
(* next read.  (A child that SIGSTOP reached before its program takes the  *)
(* terminal when it is continued.)                                         *)
TerminalComesBack ==
    shell.at \in {"ready", "notify"} /\ hasTerminal /\ ~early => foreground = Own
=============================================================================
