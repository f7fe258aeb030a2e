----------------------------- MODULE Processors -----------------------------
(***************************************************************************)
(* The start of the application processors by the bootstrap processor      *)
(* (kernel/arch/x86_64/smp/smp.c, boot/trampoline.asm, PerCpuInitialise)   *)
(* and the shootdown by which a change of a kernel mapping reaches them    *)
(* (mm/shootdown.c, smp/ipi.c, PagingInvalidate).  The bootstrap processor *)
(* alone changes mappings: the others run no thread that does.             *)
(*                                                                         *)
(* A processor given up is not stopped: it may answer, and go on, while    *)
(* its successor is started with the same index and the same stack.        *)
(***************************************************************************)
EXTENDS Integers, FiniteSets

CONSTANTS
    Applications,   \* how many processors the firmware declares besides
    AreaLimit,      \* PER_CPU_MAXIMUM
    Mapping         \* pages of the kernel mapped and unmapped

ASSUME ProcessorsAssumption ==
    /\ Applications \in Nat /\ AreaLimit \in Nat \ {0}
    /\ "trampoline" \notin Mapping

Application == 1 .. Applications
Bootstrap == 0
Machine == Application \cup {Bootstrap}

VARIABLES
    boot,           \* where the bootstrap processor stands
    entry,          \* the declaration SmpInitialise is at
    parameter,      \* the index, and with it the stack, of the parameter block
    acknowledged,   \* of the parameter block
    established,    \* PerCpuEstablishedCount
    stage,          \* how far each application processor has come
    stack,          \* the stack it runs upon, 0 before it has one
    expected,       \* the index it read as its argument, 0 before
    interrupts,     \* those at whose controller a shootdown is pending
    address,        \* ShootdownAddress
    unanswered,     \* ShootdownPending
    mapped,         \* pages mapped
    cached          \* pages each processor has a translation of

(* History: a processor that was given up has gone on, or had answered     *)
(* when it was given up.                                                   *)
VARIABLE late

processorVars == <<boot, entry, parameter, acknowledged, established, stage, stack, expected,
                   interrupts, address, unanswered, mapped, cached, late>>

(* sent: the startup interrupt was sent.  answered: wrote `acknowledged`.  *)
(* stacked: runs upon its stack.  entered: left the trampoline with its    *)
(* argument.  claimed: has an area, the one expected.  listens: enabled    *)
(* its controller.  idle: and its interrupts.  reads, invalidated: within  *)
(* ShootdownHandle, after that.  parked: halted, no area being left.       *)
Listening == {"listens", "idle", "reads", "invalidated"}
Joined == {"claimed"} \cup Listening
Kernel64 == {"entered"} \cup Joined
Stage == {"off", "sent", "answered", "stacked", "parked"} \cup Kernel64

ProcessorsTypeOK ==
    /\ boot \in {"starts", "answer", "online", "sends", "waits", "up", "panic"}
    /\ entry \in 1 .. Applications + 1
    /\ parameter \in 0 .. AreaLimit /\ acknowledged \in BOOLEAN
    /\ established \in Nat \ {0}
    /\ stage \in [Application -> Stage]
    /\ stack \in [Application -> 0 .. AreaLimit]
    /\ expected \in [Application -> 0 .. AreaLimit]
    /\ interrupts \subseteq Application
    /\ address \in Mapping \cup {"trampoline"} /\ unanswered \in Int
    /\ mapped \subseteq Mapping \cup {"trampoline"}
    /\ cached \in [Machine -> SUBSET (Mapping \cup {"trampoline"})]
    /\ late \in BOOLEAN

(* PerCpuOnlineCount: the claims made beyond the areas do not count.       *)
Online == IF established < AreaLimit THEN established ELSE AreaLimit

(* KernelPanic, and the reset of a triple fault: no processor goes on.     *)
Halted ==
    /\ boot' = "panic"
    /\ stage' = [p \in Application |-> "off"]

(***************************************************************************)
(* The bootstrap processor starts the others, one after the other.         *)
(***************************************************************************)

(* No area is left, no stack could be had, or nothing could be sent.       *)
Refuse ==
    /\ boot = "starts" /\ entry \in Application
    /\ entry' = entry + 1
    /\ UNCHANGED <<boot, parameter, acknowledged, established, stage, stack, expected,
                   interrupts, address, unanswered, mapped, cached, late>>

(* The parameter block is written and the sequence sent.                   *)
StartProcessor ==
    /\ boot = "starts" /\ entry \in Application
    /\ Online < AreaLimit
    /\ parameter' = Online /\ acknowledged' = FALSE
    /\ stage' = [stage EXCEPT ![entry] = "sent"]
    /\ boot' = "answer"
    /\ UNCHANGED <<entry, established, stack, expected, interrupts, address, unanswered,
                   mapped, cached, late>>

(* The end of a wait of SmpStartProcessor or of SmpWaitForOnline in vain.  *)
GiveUp ==
    /\ \/ boot = "answer" /\ ~acknowledged
       \/ boot = "online" /\ Online <= parameter
    /\ boot' = "starts" /\ entry' = entry + 1
    /\ late' = (late \/ stage[entry] # "sent")
    /\ UNCHANGED <<parameter, acknowledged, established, stage, stack, expected, interrupts,
                   address, unanswered, mapped, cached>>

Answered ==
    /\ boot = "answer" /\ acknowledged
    /\ boot' = "online"
    /\ UNCHANGED <<entry, parameter, acknowledged, established, stage, stack, expected,
                   interrupts, address, unanswered, mapped, cached, late>>

WaitForOnline ==
    /\ boot = "online" /\ Online > parameter
    /\ boot' = "starts" /\ entry' = entry + 1
    /\ UNCHANGED <<parameter, acknowledged, established, stage, stack, expected,
                   interrupts, address, unanswered, mapped, cached, late>>

(***************************************************************************)
(* An application processor, from the trampoline to its idle loop.         *)
(***************************************************************************)

(* `acknowledged` is written, by whichever processor.                      *)
Trampoline(p) ==
    /\ stage[p] = "sent" /\ "trampoline" \in mapped
    /\ acknowledged' = TRUE
    /\ cached' = [cached EXCEPT ![p] = {"trampoline"}]
    /\ stage' = [stage EXCEPT ![p] = "answered"]
    /\ late' = (late \/ p # entry \/ boot # "answer")
    /\ UNCHANGED <<boot, entry, parameter, established, stack, expected, interrupts, address,
                   unanswered, mapped>>

(* The stack, then the argument, of whatever the block holds by then.      *)
LoadStack(p) ==
    /\ stage[p] = "answered"
    /\ stack' = [stack EXCEPT ![p] = parameter]
    /\ stage' = [stage EXCEPT ![p] = "stacked"]
    /\ UNCHANGED <<boot, entry, parameter, acknowledged, established, expected, interrupts,
                   address, unanswered, mapped, cached, late>>

Enter(p) ==
    /\ stage[p] = "stacked"
    /\ expected' = [expected EXCEPT ![p] = parameter]
    /\ stage' = [stage EXCEPT ![p] = "entered"]
    /\ UNCHANGED <<boot, entry, parameter, acknowledged, established, stack, interrupts,
                   address, unanswered, mapped, cached, late>>

(* A processor at the trampoline when its page is no longer mapped.        *)
GroundLost(p) ==
    /\ stage[p] \in {"sent", "answered", "stacked"} /\ "trampoline" \notin mapped
    /\ Halted
    /\ UNCHANGED <<entry, parameter, acknowledged, established, stack, expected, interrupts,
                   address, unanswered, mapped, cached, late>>

(* Mutant: the index claimed is not compared with the one prepared.        *)
AgreesUnseen(p) == p \in Application
Agrees(p) == expected[p] = established

(* PerCpuInitialise, and the comparison of the index claimed with the one  *)
(* whose stacks, segment and record this processor is about to use.        *)
ClaimArea(p) ==
    /\ stage[p] = "entered"
    /\ established' = established + 1
    /\ \/ /\ established >= AreaLimit
          /\ stage' = [stage EXCEPT ![p] = "parked"] /\ UNCHANGED boot
       \/ /\ established < AreaLimit /\ Agrees(p)
          /\ stage' = [stage EXCEPT ![p] = "claimed"] /\ UNCHANGED boot
       \/ established < AreaLimit /\ ~Agrees(p) /\ Halted
    /\ UNCHANGED <<entry, parameter, acknowledged, stack, expected, interrupts, address,
                   unanswered, mapped, cached, late>>

(* LocalApicInitialiseThisProcessor, then the halt with interrupts on.     *)
Ready(p) ==
    /\ \/ stage[p] = "claimed" /\ stage' = [stage EXCEPT ![p] = "listens"]
       \/ stage[p] = "listens" /\ stage' = [stage EXCEPT ![p] = "idle"]
    /\ UNCHANGED <<boot, entry, parameter, acknowledged, established, stack, expected,
                   interrupts, address, unanswered, mapped, cached, late>>

Access(p, page) ==
    /\ page \in mapped \ cached[p]
    /\ p # Bootstrap => stage[p] \in Kernel64
    /\ boot # "panic"
    /\ cached' = [cached EXCEPT ![p] = @ \cup {page}]
    /\ UNCHANGED <<boot, entry, parameter, acknowledged, established, stage, stack,
                   expected, interrupts, address, unanswered, mapped, late>>

(***************************************************************************)
(* Shootdowns.                                                             *)
(***************************************************************************)

(* Where the bootstrap processor stands when no request is under way.      *)
Resting == IF "trampoline" \in mapped' THEN "starts" ELSE "up"

(* The entry is changed and invalidated here; with another processor       *)
(* online the request is published.  The stacks of SmpPrepareProcessor are *)
(* mapped between two starts; the trampoline is unmapped after the last.   *)
ChangePage(page) ==
    /\ boot \in {"starts", "up"}
    /\ page = "trampoline" => boot = "starts" /\ entry > Applications
    /\ mapped' = IF page \in mapped THEN mapped \ {page} ELSE mapped \cup {page}
    /\ cached' = [cached EXCEPT ![Bootstrap] = @ \ {page}]
    /\ IF Online = 1
       THEN boot' = Resting /\ UNCHANGED <<address, unanswered>>
       ELSE boot' = "sends" /\ address' = page /\ unanswered' = Online - 1
    /\ UNCHANGED <<entry, parameter, acknowledged, established, stage, stack, expected,
                   interrupts, late>>

(* To all but this one; a controller that is not enabled drops it.         *)
SendToOthers ==
    /\ boot = "sends"
    /\ interrupts' = interrupts \cup {p \in Application : stage[p] \in Listening}
    /\ boot' = "waits"
    /\ UNCHANGED <<entry, parameter, acknowledged, established, stage, stack, expected,
                   address, unanswered, mapped, cached, late>>

(* Mutant: the acknowledgement is made on entry to the handler.            *)
AcknowledgesFirst(p) == stage[p] = "idle"
Acknowledges(p) == stage[p] = "invalidated"

(* ShootdownHandle: the address is read, the page invalidated, the request *)
(* acknowledged.                                                           *)
Handle(p) ==
    /\ \/ /\ stage[p] = "idle" /\ p \in interrupts
          /\ interrupts' = interrupts \ {p}
          /\ stage' = [stage EXCEPT ![p] = "reads"] /\ UNCHANGED cached
       \/ /\ stage[p] = "reads"
          /\ cached' = [cached EXCEPT ![p] = @ \ {address}]
          /\ stage' = [stage EXCEPT ![p] = "invalidated"] /\ UNCHANGED interrupts
       \/ /\ stage[p] = "invalidated"
          /\ stage' = [stage EXCEPT ![p] = "idle"] /\ UNCHANGED <<interrupts, cached>>
    /\ unanswered' = IF Acknowledges(p) THEN unanswered - 1 ELSE unanswered
    /\ UNCHANGED <<boot, entry, parameter, acknowledged, established, stack, expected,
                   address, mapped, late>>

Acknowledged ==
    /\ boot = "waits" /\ unanswered = 0
    /\ UNCHANGED <<entry, parameter, acknowledged, established, stage, stack, expected,
                   interrupts, address, unanswered, mapped, cached, late>>
    /\ boot' = Resting

(* KernelPanic: nothing could be sent, or nobody is left who will answer,  *)
(* one answer too many having taken the count below zero among the cases.  *)
Unacknowledged ==
    /\ \/ boot = "sends"
       \/ /\ boot = "waits" /\ unanswered # 0 /\ interrupts = {}
          /\ \A p \in Application : stage[p] \notin {"reads", "invalidated"}
    /\ Halted
    /\ UNCHANGED <<entry, parameter, acknowledged, established, stack, expected,
                   interrupts, address, unanswered, mapped, cached, late>>

Stopped == boot = "panic" /\ UNCHANGED processorVars

ProcessorsInit ==
    /\ boot = "starts" /\ entry = 1
    /\ parameter = 0 /\ acknowledged = FALSE /\ established = 1
    /\ stage = [p \in Application |-> "off"]
    /\ stack = [p \in Application |-> 0] /\ expected = stack
    /\ interrupts = {} /\ address = "trampoline" /\ unanswered = 0
    /\ mapped = {"trampoline"} \cup Mapping
    /\ cached = [p \in Machine |-> {}] /\ late = FALSE

ProcessorsNext ==
    \/ Refuse \/ StartProcessor \/ GiveUp \/ Answered \/ WaitForOnline
    \/ \E p \in Application :
          \/ Trampoline(p) \/ LoadStack(p) \/ Enter(p) \/ GroundLost(p)
          \/ ClaimArea(p) \/ Ready(p) \/ Handle(p)
    \/ \E p \in Machine, page \in Mapping \cup {"trampoline"} : Access(p, page)
    \/ \E page \in Mapping \cup {"trampoline"} : ChangePage(page)
    \/ SendToOthers \/ Acknowledged \/ Unacknowledged \/ Stopped

ProcessorsSpec == ProcessorsInit /\ [][ProcessorsNext]_processorVars

(***************************************************************************)
(* Properties.                                                             *)
(***************************************************************************)

(* The index prepared before a processor is started, and the one it claims *)
(* when it comes, are two counts: whichever answer late, are given up, or  *)
(* find the areas gone, no two that pass the comparison use one area, one  *)
(* segment, one double-fault stack or one record.  Up to the comparison a  *)
(* late one and its successor may be upon one stack.                       *)
AreasApart ==
    \A p, q \in Application :
        stage[p] \in Joined /\ stage[q] \in Joined /\ expected[p] = expected[q] => p = q

(* When the change of a mapping returns to its caller, who may then give   *)
(* the frame away, no processor has a translation of what is not mapped,   *)
(* whatever stage of its start it had reached when the request was sent.   *)
(* Of a processor that goes on after it was given up this is not so: it is *)
(* counted when it comes online, and not before, and its answer to a       *)
(* request sent without it is taken for another's.                         *)
TranslationsGone ==
    ~late /\ boot \in {"starts", "answer", "online", "up"} =>
        \A p \in Machine : cached[p] \subseteq mapped
=============================================================================
