----------------------------- MODULE Supervisor -----------------------------
(***************************************************************************)
(* /bin/init, userland/init/main.c: it starts the services the             *)
(* configuration names, starts one again when it ends, gives up upon one   *)
(* that keeps ending, collects orphans, and stops the services and the     *)
(* machine when SIGTERM or SIGINT asks for it.                             *)
(*                                                                         *)
(* Granularity.  init has one thread.  A signal handler of its own runs    *)
(* between any two of its instructions and only records the request; its   *)
(* children end, and orphans come, at any time.  waitpid and pause are     *)
(* those of module Processes: a call that slept is interrupted by a signal *)
(* with a handler, a call entered after the handler ran is not.            *)
(***************************************************************************)
EXTENDS Integers, FiniteSets

CONSTANTS
    Services,      \* how many services the configuration names
    Once,          \* the services with restart = never
    NeedDisplay,   \* the services with needs = display
    Display,       \* whether the window manager has the screen
    Stubborn,      \* the services whose program may outlive SIGTERM: it
                   \* ignores it, or handles it or a signal below it
    RestartLimit,  \* INIT_RESTART_LIMIT
    MaxRequests,   \* bound on the shutdown requests sent
    MaxOrphans     \* bound on the orphans handed over

Service == 1 .. Services

ASSUME ServicesAssumption ==
    /\ Services \in Nat /\ RestartLimit \in Nat \ {0}
    /\ MaxRequests \in Nat /\ MaxOrphans \in Nat
    /\ Once \cup NeedDisplay \cup Stubborn \subseteq Service
    /\ Display \in BOOLEAN

VARIABLES
    pid,        \* InitService.pid: which start of the service, 0 for -1
    failures,   \* InitService.failures
    abandoned,  \* InitService.abandoned
    starts,     \* how often the service has been started
    running,    \* the children of init, <<service, start>>, that run
    ended,      \* and those that have ended and are not collected
    fresh,      \* those running that have not executed their program
    told,       \* those SIGTERM was sent to while they ran it
    live,       \* how many adopted orphans run
    orphans,    \* how many have ended and are not collected
    adopted,    \* how many there have been
    shutdown,   \* InitShutdown
    requests,   \* how many requests there have been
    pc, index   \* where main stands

supervisorVars == <<pid, failures, abandoned, starts, running, ended, fresh, told, live,
                    orphans, adopted, shutdown, requests, pc, index>>
table    == <<pid, failures, abandoned>>
children == <<starts, running, ended, fresh, told>>
others   == <<live, orphans, adopted, requests>>

Child == Service \X (1 .. RestartLimit)

(* "start": the loop that starts the services.  "check": the top of the    *)
(* loop.  "stop", "collect": the two halves of an iteration of the         *)
(* shutdown.  "wait": about to call waitpid(-1).  "waiting": asleep in it. *)
(* "pause", "paused": the same of pause.  "off": power did not return.     *)
SupervisorTypeOK ==
    /\ pid \in [Service -> 0 .. RestartLimit]
    /\ failures \in [Service -> 0 .. RestartLimit]
    /\ abandoned \in [Service -> BOOLEAN]
    /\ starts \in [Service -> 0 .. RestartLimit]
    /\ running \subseteq Child /\ ended \subseteq Child
    /\ fresh \subseteq Child /\ told \subseteq Child
    /\ {live, orphans, adopted} \subseteq 0 .. MaxOrphans
    /\ shutdown \in {"none", "halt", "reboot"}
    /\ requests \in 0 .. MaxRequests
    /\ pc \in {"start", "check", "stop", "collect", "wait", "waiting", "pause", "paused", "off"}
    /\ index \in 1 .. Services + 1

SupervisorInit ==
    /\ pid = [s \in Service |-> 0]
    /\ failures = [s \in Service |-> 0]
    /\ abandoned = [s \in Service |-> FALSE]
    /\ starts = [s \in Service |-> 0]
    /\ running = {} /\ ended = {} /\ fresh = {} /\ told = {}
    /\ live = 0 /\ orphans = 0 /\ adopted = 0
    /\ shutdown = "none" /\ requests = 0
    /\ pc = "start" /\ index = 1

----------------------------------------------------------------------------
(* InitStartService of s: skipped, forked, or refused by fork, after which *)
(* nothing starts the service again.                                       *)
Startable(s) == ~abandoned[s] /\ (s \in NeedDisplay => Display)

Started(s) ==
    \/ /\ Startable(s)
       /\ pid' = [pid EXCEPT ![s] = starts[s] + 1]
       /\ starts' = [starts EXCEPT ![s] = @ + 1]
       /\ running' = running \cup {<<s, starts[s] + 1>>}
       /\ fresh' = fresh \cup {<<s, starts[s] + 1>>}
    \/ /\ pid' = [pid EXCEPT ![s] = 0]
       /\ UNCHANGED <<starts, running, fresh>>

StartNext ==
    /\ pc = "start" /\ index <= Services
    /\ Started(index)
    /\ index' = index + 1
    /\ UNCHANGED <<failures, abandoned, ended, told, others, shutdown, pc>>

StartDone ==
    /\ pc = "start" /\ index > Services
    /\ pc' = "check"
    /\ UNCHANGED <<table, children, others, shutdown, index>>

----------------------------------------------------------------------------
(* The loop of main.                                                       *)

(* Mutant: the wait comes first.                                           *)
CheckAfterWait ==
    /\ pc = "check"
    /\ pc' = "wait" /\ index' = 1
    /\ UNCHANGED <<table, children, others, shutdown>>

Check ==
    /\ pc = "check"
    /\ pc' = IF shutdown # "none" THEN "stop" ELSE "wait"
    /\ index' = 1
    /\ UNCHANGED <<table, children, others, shutdown>>

(* One service is told to stop; what has ended already is not disturbed.   *)
(* A child that is still init's image has init's handler of SIGTERM, which *)
(* may take the signal before its program is executed.                     *)
StopService ==
    /\ pc = "stop" /\ index <= Services
    /\ IF pid[index] > 0
         THEN /\ told' = told \cup ({<<index, pid[index]>>} \cap (running \ fresh))
              /\ pc' = "collect" /\ UNCHANGED index
         ELSE index' = index + 1 /\ UNCHANGED <<told, pc>>
    /\ UNCHANGED <<table, starts, running, ended, fresh, others, shutdown>>

(* Mutant: the number of the collected child stays.                        *)
ForgetNothing ==
    /\ index' = index + 1
    /\ pc' = "stop"
    /\ UNCHANGED pid

Forget ==
    /\ pid' = [pid EXCEPT ![index] = 0]
    /\ index' = index + 1
    /\ pc' = "stop"

(* waitpid upon that service, without a bound.                             *)
CollectStopped ==
    /\ pc = "collect" /\ <<index, pid[index]>> \in ended
    /\ ended' = ended \ {<<index, pid[index]>>}
    /\ Forget
    /\ UNCHANGED <<failures, abandoned, starts, running, fresh, told, others, shutdown>>

Power ==
    /\ pc = "stop" /\ index > Services
    /\ pc' = "off"
    /\ UNCHANGED <<table, children, others, shutdown, index>>

(* Mutant: ECHILD although one has ended.                                  *)
WaitNoneRunning ==
    /\ pc = "wait" /\ running = {} /\ live = 0 /\ orphans = 0
    /\ pc' = "pause"
    /\ UNCHANGED <<table, children, others, shutdown, index>>

(* waitpid(-1): ECHILD, a child, or sleep.                                 *)
WaitNone ==
    /\ pc = "wait" /\ running = {} /\ ended = {} /\ live = 0 /\ orphans = 0
    /\ pc' = "pause"
    /\ UNCHANGED <<table, children, others, shutdown, index>>

SleepInWait ==
    /\ pc = "wait" /\ ended = {} /\ orphans = 0
    /\ running # {} \/ live > 0
    /\ pc' = "waiting"
    /\ UNCHANGED <<table, children, others, shutdown, index>>

(* INIT_RESTART_LIMIT.                                                     *)
KeepsEnding(s) == failures[s] + 1 >= RestartLimit

(* InitServiceOf and InitSupervise.                                        *)
Supervise(s) ==
    IF s \in Once
      THEN pid' = [pid EXCEPT ![s] = 0] /\ UNCHANGED <<failures, abandoned, starts, running, fresh>>
      ELSE /\ failures' = [failures EXCEPT ![s] = @ + 1]
           /\ IF KeepsEnding(s)
                THEN /\ abandoned' = [abandoned EXCEPT ![s] = TRUE]
                     /\ pid' = [pid EXCEPT ![s] = 0]
                     /\ UNCHANGED <<starts, running, fresh>>
                ELSE UNCHANGED abandoned /\ Started(s)

CollectChild(c) ==
    /\ pc \in {"wait", "waiting"} /\ c \in ended
    /\ ended' = ended \ {c}
    /\ IF pid[c[1]] = c[2]
         THEN Supervise(c[1])
         ELSE UNCHANGED <<table, starts, running, fresh>>
    /\ pc' = "check"
    /\ UNCHANGED <<told, others, shutdown, index>>

CollectOrphan ==
    /\ pc \in {"wait", "waiting"} /\ orphans > 0
    /\ orphans' = orphans - 1
    /\ pc' = "check"
    /\ UNCHANGED <<table, children, live, adopted, requests, shutdown, index>>

(* pause: asleep until a signal with a handler, or until it is woken for   *)
(* an orphan.  A wake sent before it is asleep is not kept.                *)
Pause ==
    /\ pc = "pause"
    /\ pc' = "paused"
    /\ UNCHANGED <<table, children, others, shutdown, index>>

----------------------------------------------------------------------------
(* What happens to init.                                                   *)

(* InitHalt and InitReboot.  A sleep it finds init in ends with EINTR.     *)
Request(action) ==
    /\ pc # "off" /\ requests < MaxRequests
    /\ requests' = requests + 1
    /\ shutdown' = action
    /\ CASE pc \in {"waiting", "paused"} -> pc' = "check" /\ UNCHANGED <<pid, index>>
         [] pc = "collect" /\ <<index, pid[index]>> \notin ended -> Forget
         [] OTHER -> UNCHANGED <<pc, pid, index>>
    /\ UNCHANGED <<failures, abandoned, children, live, orphans, adopted>>

(* InitSpawn: the child executes its program.                              *)
Executes(c) ==
    /\ pc # "off" /\ c \in fresh
    /\ fresh' = fresh \ {c}
    /\ UNCHANGED <<table, starts, running, ended, told, others, shutdown, pc, index>>

(* A child ends: of itself, the program refused among the cases, or        *)
(* because it was told to.                                                 *)
EndsItself(c) ==
    /\ pc # "off" /\ c \in running
    /\ running' = running \ {c} /\ ended' = ended \cup {c} /\ fresh' = fresh \ {c}
    /\ UNCHANGED <<table, starts, told, others, shutdown, pc, index>>

EndsTold(c) ==
    /\ c \in told /\ c[1] \notin Stubborn
    /\ EndsItself(c)

(* SchedulerWake of init, where it sleeps in pause.  A wait it sleeps in   *)
(* finds what has ended.                                                   *)
WakePause == pc' = IF pc = "paused" THEN "check" ELSE pc

(* A process whose parent has ended becomes init's, which is woken at once *)
(* only where it has itself ended.                                         *)
Orphaned ==
    /\ pc # "off" /\ adopted < MaxOrphans
    /\ adopted' = adopted + 1
    /\ \/ live' = live + 1 /\ UNCHANGED <<orphans, pc>>
       \/ orphans' = orphans + 1 /\ UNCHANGED live /\ WakePause
    /\ UNCHANGED <<table, children, shutdown, requests, index>>

OrphanEnds ==
    /\ pc # "off" /\ live > 0
    /\ live' = live - 1 /\ orphans' = orphans + 1
    /\ WakePause
    /\ UNCHANGED <<table, children, adopted, shutdown, requests, index>>

Off == pc = "off" /\ UNCHANGED supervisorVars

Main ==
    \/ StartNext \/ StartDone \/ Check \/ StopService \/ CollectStopped \/ Power
    \/ WaitNone \/ SleepInWait \/ CollectOrphan \/ Pause
    \/ \E c \in Child : CollectChild(c)

SupervisorNext ==
    \/ Main
    \/ \E action \in {"halt", "reboot"} : Request(action)
    \/ \E c \in Child : Executes(c) \/ EndsItself(c) \/ EndsTold(c)
    \/ Orphaned
    \/ OrphanEnds
    \/ Off

(* init is run in its turn, and a program that SIGTERM ends, and was sent  *)
(* to while it ran, does end: nobody stops it.  No service need end of     *)
(* itself or come to execute its program, and nobody need ask for anything.*)
SupervisorFairness ==
    WF_supervisorVars(Main) /\ \A c \in Child : WF_supervisorVars(EndsTold(c))

SupervisorSpec == SupervisorInit /\ [][SupervisorNext]_supervisorVars
SupervisorFairSpec == SupervisorSpec /\ SupervisorFairness

----------------------------------------------------------------------------
(* Properties.                                                             *)

(* Never two of one service: whatever ends, is collected or is interrupted *)
(* in whichever order, init has at most one child of a service that is     *)
(* running or uncollected, and a number it keeps is that child's           *)
(* (InitStartService, InitSupervise, the shutdown loop).                   *)
OneOfEach ==
    \A s \in Service :
        /\ Cardinality({c \in running \cup ended : c[1] = s}) <= 1
        /\ pid[s] > 0 => <<s, pid[s]>> \in running \cup ended

(* The shutdown waits for a child that may never have heard of it: SIGTERM *)
(* was sent to it before its program was executed.                         *)
Unheard == pc = "collect" /\ <<index, pid[index]>> \in running \ told

(* A request that reaches init at the top of its loop, or in a wait or a   *)
(* pause it sleeps in, stops the machine, whatever the services do         *)
(* meanwhile and however often the request is repeated, or finds a service *)
(* that was forked and has not executed its program.                       *)
RequestHeard == (shutdown # "none" /\ pc = "check") ~> (pc = "off" \/ Unheard)

(* Every service that ends is collected, as long as the machine runs: no   *)
(* ending is lost between the wait and the restart.                        *)
EndedCollected == \A c \in Child : c \in ended ~> (c \notin ended \/ pc = "off" \/ Unheard)

(* "A service that will not stop is not waited upon for ever": a shutdown  *)
(* that waits for a service goes on to the next.                           *)
StopEnds == pc = "collect" ~> pc # "collect"
=============================================================================
