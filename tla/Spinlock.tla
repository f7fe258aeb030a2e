------------------------------ MODULE Spinlock ------------------------------
(***************************************************************************)
(* One ticket lock of kernel/arch/x86_64/cpu/spinlock.c and the masking of *)
(* interrupts of kernel/arch/x86_64/cpu/percpu.c, at the grain of the      *)
(* accesses other processors can see.  A release is two stores, and an     *)
(* attempt reads the two counters one after the other and then exchanges.  *)
(***************************************************************************)
EXTENDS Integers, FiniteSets

CONSTANTS
    Cpu,        \* the processors
    Tickets,    \* how many values a counter of the lock has: 2^16
    NoOwner,    \* SPINLOCK_NO_OWNER
    Nesting     \* bound on the critical sections entered besides

ASSUME SpinlockAssumption ==
    /\ IsFiniteSet(Cpu) /\ NoOwner \notin Cpu
    /\ Tickets \in Nat /\ Cardinality(Cpu) < Tickets
    /\ Nesting \in Nat

VARIABLES
    ticket,     \* the next number to be issued
    serving,    \* the number that has the lock
    owner,      \* who has it, for the diagnostics
    stands,     \* where each processor is
    mine,       \* the number issued to it, while it holds it
    seen,       \* the serving number its attempt has read, during it
    enabled,    \* whether it takes interrupts
    depth,      \* critical_depth
    were        \* interrupts_were_enabled, within a section

lockVars == <<ticket, serving, owner, stands, mine, seen, enabled, depth, were>>

Counter == 0 .. Tickets - 1
Following(n) == IF n = Tickets - 1 THEN 0 ELSE n + 1

(* waits: holds a number.  served: its number came up.  in: owns the lock. *)
(* left: is no longer the owner, and the next is not yet admitted.  tries, *)
(* claims: within SpinlockClaimIfFree, after its first and second read.    *)
Inside == {"served", "in", "left"}
Holding == Inside \cup {"waits"}
Trying == {"tries", "claims"}
Stand == {"out"} \cup Holding \cup Trying

SpinlockTypeOK ==
    /\ ticket \in Counter /\ serving \in Counter
    /\ owner \in Cpu \cup {NoOwner}
    /\ stands \in [Cpu -> Stand]
    /\ mine \in [Cpu -> Counter] /\ seen \in [Cpu -> Counter]
    /\ enabled \in [Cpu -> BOOLEAN] /\ were \in [Cpu -> BOOLEAN]
    /\ depth \in [Cpu -> Nat]

(***************************************************************************)
(* Critical sections.                                                      *)
(***************************************************************************)

(* Mutant: the flag is saved and left as it was.                           *)
PushUnmasked(p) ==
    /\ enabled' = enabled
    /\ were' = [were EXCEPT ![p] = IF depth[p] = 0 THEN enabled[p] ELSE @]
    /\ depth' = [depth EXCEPT ![p] = @ + 1]

PushInterruptState(p) ==
    /\ enabled' = [enabled EXCEPT ![p] = FALSE]
    /\ were' = [were EXCEPT ![p] = IF depth[p] = 0 THEN enabled[p] ELSE @]
    /\ depth' = [depth EXCEPT ![p] = @ + 1]

PopInterruptState(p) ==
    /\ depth' = [depth EXCEPT ![p] = @ - 1]
    /\ enabled' = [enabled EXCEPT ![p] = depth[p] = 1 /\ were[p]]
    /\ were' = [were EXCEPT ![p] = depth[p] > 1 /\ @]

(* A section without the lock, around which or within which it is taken.   *)
Section(p) ==
    /\ stands[p] = "out"
    /\ \/ depth[p] < Nesting /\ PushInterruptState(p)
       \/ depth[p] > 0 /\ PopInterruptState(p)
    /\ UNCHANGED <<ticket, serving, owner, stands, mine, seen>>

(***************************************************************************)
(* The lock.                                                               *)
(***************************************************************************)

(* While an attempt stands between its reads the counter does not go all   *)
(* the way round, which is 2^16 acquisitions within a few instructions.    *)
NotLapped(p) ==
    \A q \in Cpu \ {p} : stands[q] \in Trying => Following(ticket) # seen[q]

Issue(p, number) ==
    /\ NotLapped(p)
    /\ mine' = [mine EXCEPT ![p] = number]
    /\ ticket' = Following(ticket)

(* SpinlockAcquire to its number, and the end of its spinning.             *)
Acquire(p) ==
    /\ stands[p] = "out"
    /\ PushInterruptState(p)
    /\ Issue(p, ticket)
    /\ stands' = [stands EXCEPT ![p] = "waits"]
    /\ UNCHANGED <<serving, owner, seen>>

Serve(p) ==
    /\ stands[p] = "waits" /\ serving = mine[p]
    /\ stands' = [stands EXCEPT ![p] = "served"]
    /\ UNCHANGED <<ticket, serving, owner, mine, seen, enabled, depth, were>>

NoteAcquired(p) ==
    /\ stands[p] = "served"
    /\ owner' = p
    /\ stands' = [stands EXCEPT ![p] = "in"]
    /\ UNCHANGED <<ticket, serving, mine, seen, enabled, depth, were>>

(* SpinlockTryAcquire: the serving number, then the counter, then the      *)
(* exchange, which fails where the counter has moved.                      *)
TryAcquire(p) ==
    /\ stands[p] = "out"
    /\ PushInterruptState(p)
    /\ seen' = [seen EXCEPT ![p] = serving]
    /\ stands' = [stands EXCEPT ![p] = "tries"]
    /\ UNCHANGED <<ticket, serving, owner, mine>>

TryFails(p) ==
    /\ stands[p] \in Trying /\ ticket # seen[p]
    /\ PopInterruptState(p)
    /\ stands' = [stands EXCEPT ![p] = "out"]
    /\ seen' = [seen EXCEPT ![p] = 0]
    /\ UNCHANGED <<ticket, serving, owner, mine>>

TryFindsFree(p) ==
    /\ stands[p] = "tries" /\ ticket = seen[p]
    /\ stands' = [stands EXCEPT ![p] = "claims"]
    /\ UNCHANGED <<ticket, serving, owner, mine, seen, enabled, depth, were>>

(* Mutant: the two counters are compared and the ticket then simply taken. *)
ClaimCompared(p) ==
    /\ stands[p] = "claims"
    /\ Issue(p, ticket)
    /\ stands' = [stands EXCEPT ![p] = "served"]
    /\ seen' = [seen EXCEPT ![p] = 0]
    /\ UNCHANGED <<serving, owner, enabled, depth, were>>

Claim(p) ==
    /\ stands[p] = "claims" /\ ticket = seen[p]
    /\ Issue(p, ticket)
    /\ stands' = [stands EXCEPT ![p] = "served"]
    /\ seen' = [seen EXCEPT ![p] = 0]
    /\ UNCHANGED <<serving, owner, enabled, depth, were>>

(* SpinlockRelease: the owner is cleared, then the next is admitted.       *)
Release(p) ==
    /\ stands[p] = "in"
    /\ owner' = NoOwner
    /\ stands' = [stands EXCEPT ![p] = "left"]
    /\ UNCHANGED <<ticket, serving, mine, seen, enabled, depth, were>>

AdmitNext(p) ==
    /\ stands[p] = "left"
    /\ serving' = Following(serving)
    /\ PopInterruptState(p)
    /\ stands' = [stands EXCEPT ![p] = "out"]
    /\ mine' = [mine EXCEPT ![p] = 0]
    /\ UNCHANGED <<ticket, owner, seen>>

SpinlockInit ==
    /\ ticket = 0 /\ serving = 0 /\ owner = NoOwner
    /\ stands = [p \in Cpu |-> "out"]
    /\ mine = [p \in Cpu |-> 0] /\ seen = [p \in Cpu |-> 0]
    /\ enabled = [p \in Cpu |-> TRUE] /\ were = [p \in Cpu |-> FALSE]
    /\ depth = [p \in Cpu |-> 0]

SpinlockNext ==
    \E p \in Cpu :
        \/ Section(p) \/ Acquire(p) \/ Serve(p) \/ NoteAcquired(p)
        \/ TryAcquire(p) \/ TryFails(p) \/ TryFindsFree(p) \/ Claim(p)
        \/ Release(p) \/ AdmitNext(p)

SpinlockSpec == SpinlockInit /\ [][SpinlockNext]_lockVars

(***************************************************************************)
(* Properties.                                                             *)
(***************************************************************************)

(* However acquisitions, attempts and the two stores of a release fall,    *)
(* also where the counters wrap: one processor is inside, the owner is who *)
(* is in (so neither panic of SpinlockAcquire and SpinlockRelease is       *)
(* raised), and who is inside or waits to be takes no interrupt, whose     *)
(* handler would wait for the lock beneath it.                             *)
LockExcludes ==
    /\ \A p, q \in Cpu : stands[p] \in Inside /\ stands[q] \in Inside => p = q
    /\ \A p \in Cpu : owner = p <=> stands[p] = "in"
    /\ \A p \in Cpu : stands[p] # "out" => ~enabled[p]
=============================================================================
