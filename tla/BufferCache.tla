---------------------------- MODULE BufferCache ----------------------------
(***************************************************************************)
(* The buffer cache of kernel/block/buffer.c over the devices of           *)
(* kernel/block/block.c, and the machine stopping at any moment.           *)
(*                                                                         *)
(* Nothing in the block layer sleeps, so a call is one step; what may fall *)
(* between two calls of one client is the calls of another that holds a    *)
(* buffer further up the same path.  A transfer may always fail.  The hash *)
(* buckets only make BufferFind quick and are left out.                    *)
(***************************************************************************)
EXTENDS Integers, FiniteSets, FiniteSetsExt, SequencesExt

CONSTANTS
    Client,       \* who may hold buffers at once
    Block,        \* the blocks of all devices, each with its device first
    Value,        \* what a block may hold
    Capacity,     \* BUFFER_CAPACITY
    Nothing       \* a block or value that is none

Device == {b[1] : b \in Block}
Entry == 1 .. Capacity

ASSUME CacheAssumption ==
    /\ Capacity \in Nat \ {0}
    /\ Nothing \notin Block /\ Nothing \notin Value
    /\ IsFiniteSet(Client)

VARIABLES
    holds,        \* device and block of each buffer, Nothing while not valid
    data,         \* its contents
    dirty,        \* the buffers marked dirty
    references,   \* as in Buffer
    recency,      \* the recency list, least recently used first
    medium,       \* what is on the devices
    registered,   \* the devices the block layer knows
    hold,         \* the buffer each client holds, 0 when none
    asked,        \* the block it asked for
    reply         \* the answer to the last call

tableVars == <<holds, data, dirty, references, recency>>
cacheVars == <<holds, data, dirty, references, recency, medium, registered, hold, asked, reply>>

CacheTypeOK ==
    /\ holds \in [Entry -> Block \cup {Nothing}]
    /\ data \in [Entry -> Value \cup {Nothing}]
    /\ dirty \subseteq Entry
    /\ references \in [Entry -> Nat]
    /\ recency \in Seq(Entry)
    /\ medium \in [Block -> Value]
    /\ registered \subseteq Device
    /\ hold \in [Client -> Entry \cup {0}]
    /\ asked \in [Client -> Block \cup {Nothing}]
    /\ reply \in {"none", "given", "failed", "synced", "discarded"}

(* BufferInitialise: every entry unused, and in the list from the outset.  *)
Initialised ==
    /\ holds = [e \in Entry |-> Nothing]
    /\ data = [e \in Entry |-> Nothing]
    /\ dirty = {}
    /\ references = [e \in Entry |-> 0]
    /\ recency = [e \in Entry |-> e]

CacheInit ==
    /\ Initialised
    /\ medium \in [Block -> Value]
    /\ registered = Device
    /\ hold = [c \in Client |-> 0]
    /\ asked = [c \in Client |-> Nothing]
    /\ reply = "none"

----------------------------------------------------------------------------
(* BufferDetach: an entry that is not in the list is left alone.           *)
Listings(list, e) == {i \in DOMAIN list : list[i] = e}
Detached(list, e) ==
    IF Listings(list, e) = {} THEN list ELSE RemoveAt(list, Min(Listings(list, e)))

(* Mutant: the entry is not detached first.                                *)
TouchUndetached(e) == Append(recency, e)

(* BufferTouch.                                                            *)
Touch(e) == Append(Detached(recency, e), e)

(* BufferFind.                                                             *)
Cached(b) == \E e \in Entry : holds[e] = b

(* BlockTransfer reaches only a device that is registered.                 *)
Reaches(b) == b[1] \in registered

(* The entry BufferClaim comes to: the least recently used not held.       *)
OldestOfAll(e) == \E i \in 1 .. Len(recency) : recency[i] = e /\ i = 1   \* mutant
Victim(e) ==
    \E i \in 1 .. Len(recency) :
        /\ recency[i] = e /\ references[e] = 0
        /\ \A j \in 1 .. i - 1 : references[recency[j]] # 0

(* Write-backs of the dirty buffers of s.                                  *)
WrittenBack(s) ==
    [b \in Block |-> IF \E e \in s \cap dirty : holds[e] = b
                     THEN data[CHOOSE e \in s \cap dirty : holds[e] = b]
                     ELSE medium[b]]
MayWriteBack(e) == e \in dirty => Reaches(holds[e])

(* BufferGet of a block that is cached.                                    *)
GetHit(c, b) ==
    /\ hold[c] = 0
    /\ \E e \in Entry :
          /\ holds[e] = b
          /\ recency' = Touch(e)
          /\ references' = [references EXCEPT ![e] = @ + 1]
          /\ hold' = [hold EXCEPT ![c] = e]
    /\ asked' = [asked EXCEPT ![c] = b]
    /\ reply' = "given"
    /\ UNCHANGED <<holds, data, dirty, medium, registered>>

(* BufferGet of one that is not: BufferClaim, then the read.               *)
DropUnwritten(e) == medium                 \* mutant: an eviction that forgets the write-back
EvictTo(e) == WrittenBack({e})
GetMiss(c, b) ==
    /\ hold[c] = 0 /\ ~Cached(b) /\ Reaches(b)
    /\ \E e \in Entry :
          /\ Victim(e) /\ MayWriteBack(e)
          /\ medium' = EvictTo(e)
          /\ dirty' = dirty \ {e}
          /\ holds' = [holds EXCEPT ![e] = b]
          /\ data' = [data EXCEPT ![e] = medium'[b]]
          /\ references' = [references EXCEPT ![e] = 1]
          /\ recency' = Touch(e)
          /\ hold' = [hold EXCEPT ![c] = e]
    /\ asked' = [asked EXCEPT ![c] = b]
    /\ reply' = "given"
    /\ UNCHANGED registered

(* The read failed: the entry is left unused, and where it was in the list.*)
GetUnread(c, b) ==
    /\ hold[c] = 0 /\ ~Cached(b)
    /\ \E e \in Entry :
          /\ Victim(e) /\ MayWriteBack(e)
          /\ medium' = EvictTo(e)
          /\ dirty' = dirty \ {e}
          /\ holds' = [holds EXCEPT ![e] = Nothing]
          /\ data' = [data EXCEPT ![e] = Nothing]
    /\ reply' = "failed"
    /\ UNCHANGED <<references, recency, hold, asked, registered>>

(* Every buffer is held, or the one to be evicted could not be written.    *)
GetRefused(c, b) ==
    /\ hold[c] = 0 /\ ~Cached(b)
    /\ \A e \in Entry : Victim(e) => e \in dirty
    /\ reply' = "failed"
    /\ UNCHANGED <<tableVars, medium, registered, hold, asked>>

(* A client alters its buffer's contents, with BufferMarkDirty.            *)
MarkDirty(e) == dirty \cup {e}
Alter(c, v) ==
    /\ hold[c] # 0
    /\ data' = [data EXCEPT ![hold[c]] = v]
    /\ dirty' = MarkDirty(hold[c])
    /\ UNCHANGED <<holds, references, recency, medium, registered, hold, asked, reply>>

(* BufferRelease.                                                          *)
Release(c) ==
    /\ hold[c] # 0
    /\ references' = [references EXCEPT ![hold[c]] = @ - 1]
    /\ hold' = [hold EXCEPT ![c] = 0]
    /\ asked' = [asked EXCEPT ![c] = Nothing]
    /\ UNCHANGED <<holds, data, dirty, recency, medium, registered, reply>>

(* BufferFlush of a buffer that could be written.                          *)
Flush(c) ==
    /\ hold[c] # 0
    /\ MayWriteBack(hold[c])
    /\ medium' = WrittenBack({hold[c]})
    /\ dirty' = dirty \ {hold[c]}
    /\ UNCHANGED <<holds, data, references, recency, registered, hold, asked, reply>>

(* BufferSync: all are attempted; those that fail remain dirty.            *)
Sync(fails) ==
    /\ fails \subseteq dirty
    /\ \A e \in dirty \ fails : Reaches(holds[e])
    /\ medium' = WrittenBack(Entry \ fails)
    /\ dirty' = fails
    /\ reply' = IF fails = {} THEN "synced" ELSE "failed"
    /\ UNCHANGED <<holds, data, references, recency, registered, hold, asked>>

(* BufferInvalidateDevice.  The entries emptied go to the oldest end one   *)
(* after another, in the order of the table.                               *)
OnDevice(e, d) == holds[e] # Nothing /\ holds[e][1] = d
HeldOn(d) == \E e \in Entry : OnDevice(e, d) /\ references[e] # 0

PutOldest(list, gone, e) == IF e \in gone THEN Cons(e, Detached(list, e)) ELSE list
Discarded(gone) ==
    LET after[e \in 0 .. Capacity] == IF e = 0 THEN recency ELSE PutOldest(after[e - 1], gone, e)
    IN  after[Capacity]

Invalidate(d, fails) ==
    /\ ~HeldOn(d)
    /\ fails \subseteq {e \in dirty : OnDevice(e, d)}
    /\ LET gone == {e \in Entry \ fails : OnDevice(e, d)}
       IN  /\ \A e \in gone : MayWriteBack(e)
           /\ medium' = WrittenBack(gone)
           /\ dirty' = dirty \ gone
           /\ holds' = [e \in Entry |-> IF e \in gone THEN Nothing ELSE holds[e]]
           /\ data' = [e \in Entry |-> IF e \in gone THEN Nothing ELSE data[e]]
           /\ recency' = Discarded(gone)
    /\ reply' = IF fails = {} THEN "discarded" ELSE "failed"
    /\ UNCHANGED <<references, registered, hold, asked>>

InvalidateRefused(d) ==
    /\ HeldOn(d)
    /\ reply' = "failed"
    /\ UNCHANGED <<tableVars, medium, registered, hold, asked>>

(* BlockUnregister, as its callers use it: once the device's buffers were  *)
(* discarded.  BlockRegister puts another medium in its place.             *)
Unregister(d) ==
    /\ d \in registered
    /\ \A e \in Entry : ~OnDevice(e, d)
    /\ registered' = registered \ {d}
    /\ UNCHANGED <<tableVars, medium, hold, asked, reply>>

Register(d) ==
    /\ d \notin registered
    /\ registered' = registered \cup {d}
    /\ medium' \in [Block -> Value]
    /\ \A b \in Block : b[1] # d => medium'[b] = medium[b]
    /\ UNCHANGED <<tableVars, hold, asked, reply>>

(* The machine stops, and starts with an empty cache.                      *)
MachineStops ==
    /\ holds' = [e \in Entry |-> Nothing]
    /\ data' = [e \in Entry |-> Nothing]
    /\ dirty' = {}
    /\ references' = [e \in Entry |-> 0]
    /\ recency' = [e \in Entry |-> e]
    /\ hold' = [c \in Client |-> 0]
    /\ asked' = [c \in Client |-> Nothing]
    /\ reply' = "none"
    /\ UNCHANGED <<medium, registered>>

CacheNext ==
    \/ \E c \in Client, b \in Block :
          \/ GetHit(c, b)
          \/ GetMiss(c, b)
          \/ GetUnread(c, b)
          \/ GetRefused(c, b)
    \/ \E c \in Client, v \in Value : Alter(c, v)
    \/ \E c \in Client : Release(c)
    \/ \E c \in Client : Flush(c)
    \/ \E fails \in SUBSET Entry : Sync(fails)
    \/ \E d \in Device : \E fails \in SUBSET Entry : Invalidate(d, fails)
    \/ \E d \in Device : InvalidateRefused(d)
    \/ \E d \in Device : Unregister(d)
    \/ \E d \in Device : Register(d)
    \/ MachineStops

CacheSpec == CacheInit /\ [][CacheNext]_cacheVars

----------------------------------------------------------------------------
(* BuffersSound: a buffer somebody holds keeps the block it was asked for, *)
(* through every eviction, invalidation and failed read of others          *)
(* (BufferClaim passes over held buffers, BufferInvalidateDevice refuses,  *)
(* and no count is lost); a block stands in one buffer at most; and a      *)
(* buffer not marked dirty has the contents of its device, also after a    *)
(* write-back that failed and after the device was replaced by another.    *)
BuffersSound ==
    /\ \A c \in Client : hold[c] # 0 =>
          /\ holds[hold[c]] = asked[c]
          /\ references[hold[c]] = Cardinality({d \in Client : hold[d] = hold[c]})
    /\ \A e, f \in Entry : holds[e] = holds[f] /\ holds[e] # Nothing => e = f
    /\ \A e \in Entry : holds[e] # Nothing /\ e \notin dirty => data[e] = medium[holds[e]]

(* Every buffer is in the recency list, and once, whatever was touched,    *)
(* claimed or discarded: each can be found and used again (BufferTouch,    *)
(* BufferDetach, BufferInvalidateDevice).                                  *)
EachListedOnce ==
    \A e \in Entry : Cardinality({i \in 1 .. Len(recency) : recency[i] = e}) = 1

(* The cache is invisible: whoever asks for a block finds what was last    *)
(* put in it, the medium only ever holds values the block had, and after a *)
(* BufferSync that succeeded it holds all of them.                         *)
Contents == [b \in Block |-> IF Cached(b) THEN data[CHOOSE e \in Entry : holds[e] = b] ELSE medium[b]]
TheStore == INSTANCE Store WITH
    contents <- Contents,
    durable <- medium,
    held <- asked,
    seen <- [c \in Client |-> IF hold[c] = 0 THEN Nothing ELSE data[hold[c]]],
    On <- LAMBDA b : b[1]
IsStore == TheStore!StoreSpec
=============================================================================
