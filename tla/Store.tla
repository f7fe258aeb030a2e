------------------------------- MODULE Store -------------------------------
(***************************************************************************)
(* What the buffer cache promises the filesystem above it: blocks that     *)
(* hold what was last put in them, whoever holds, evicts or writes back    *)
(* what; a part that survives the machine, which is never anything but a   *)
(* value the block had; and a successful synchronisation after which that  *)
(* part is everything.  Module BufferCache is shown to implement it.       *)
(***************************************************************************)
CONSTANTS
    Client,     \* who holds blocks
    Block,      \* the blocks of every device
    Value,      \* what a block may hold
    Nothing,    \* no block, no value
    On(_)       \* the device a block is on

VARIABLES
    contents,   \* what a reader of each block finds
    durable,    \* what would be found after the machine stopped
    held,       \* the block each client holds
    seen,       \* what that client finds in it
    reply       \* what the last call answered

storeVars == <<contents, durable, held, seen, reply>>

Empty ==
    /\ contents \in [Block -> Value]
    /\ durable = contents
    /\ held = [c \in Client |-> Nothing]
    /\ seen = [c \in Client |-> Nothing]
    /\ reply = "none"

(* A client is given a block, with what was last put in it.                *)
Take(c, b) ==
    /\ held[c] = Nothing
    /\ held' = [held EXCEPT ![c] = b]
    /\ seen' = [seen EXCEPT ![c] = contents[b]]
    /\ reply' = "given"
    /\ UNCHANGED contents

(* It changes what the block holds, for everybody who holds it.            *)
Change(c, v) ==
    /\ held[c] # Nothing
    /\ contents' = [contents EXCEPT ![held[c]] = v]
    /\ seen' = [d \in Client |-> IF held[d] = held[c] THEN v ELSE seen[d]]
    /\ UNCHANGED <<held, reply, durable>>

Give(c) ==
    /\ held[c] # Nothing
    /\ held' = [held EXCEPT ![c] = Nothing]
    /\ seen' = [seen EXCEPT ![c] = Nothing]
    /\ UNCHANGED <<contents, reply, durable>>

(* Some blocks become durable, as they are, at any time.                   *)
Settle == \E s \in SUBSET Block : durable' = [b \in Block |-> IF b \in s THEN contents[b] ELSE durable[b]]

(* A call is answered "failed", and takes and changes nothing.             *)
Fail == reply' = "failed" /\ UNCHANGED <<contents, held, seen>>

(* A synchronisation that succeeds leaves nothing to lose.                 *)
Synchronise ==
    /\ durable' = contents
    /\ reply' = "synced"
    /\ UNCHANGED <<contents, held, seen>>

(* So does the discarding of one device's blocks, for that device.         *)
Discard ==
    /\ \E b \in Block :
          /\ \A c \in Client : held[c] # Nothing => On(held[c]) # On(b)
          /\ \A a \in Block : On(a) = On(b) => durable'[a] = contents[a]
    /\ reply' = "discarded"
    /\ UNCHANGED <<contents, held, seen>>

(* Another medium takes the place of one whose blocks nobody holds.        *)
Replace(b) ==
    /\ \A c \in Client : held[c] # Nothing => On(held[c]) # On(b)
    /\ \A a \in Block : On(a) = On(b) => contents[a] = durable[a]
    /\ contents' \in [Block -> Value]
    /\ durable' = [a \in Block |-> IF On(a) = On(b) THEN contents'[a] ELSE durable[a]]
    /\ \A a \in Block : On(a) # On(b) => contents'[a] = contents[a]
    /\ UNCHANGED <<held, seen, reply>>

Stop ==
    /\ contents' = durable
    /\ held' = [c \in Client |-> Nothing]
    /\ seen' = [c \in Client |-> Nothing]
    /\ reply' = "none"
    /\ UNCHANGED durable

StoreNext ==
    \/ \E c \in Client, b \in Block : Take(c, b) /\ Settle
    \/ \E c \in Client, v \in Value : Change(c, v)
    \/ \E c \in Client : Give(c)
    \/ Fail /\ Settle
    \/ Settle /\ UNCHANGED <<contents, held, seen, reply>>
    \/ Synchronise
    \/ Discard /\ Settle
    \/ \E b \in Block : Replace(b)
    \/ Stop

StoreSpec == Empty /\ [][StoreNext]_storeVars
=============================================================================
