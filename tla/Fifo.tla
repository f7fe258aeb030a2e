-------------------------------- MODULE Fifo --------------------------------
(***************************************************************************)
(* What a pipe promises the programs at its two ends: a bounded queue of   *)
(* bytes that loses, repeats and reorders nothing, in which the bytes of   *)
(* one write stand together, and whose reader is told the end of the file  *)
(* only when the last byte is out and nobody can write another.  It is the *)
(* abstract specification module Pipe is shown to implement.               *)
(***************************************************************************)
EXTENDS Integers, Sequences

CONSTANTS
    Capacity,   \* the bytes it holds at most
    Blocks,     \* what one write may carry
    Lengths     \* what one read may ask for

VARIABLES
    content,    \* the bytes written and not yet read, oldest first
    delivered,  \* what the last read returned; <<>> is the end of the file
    open        \* which ends are open

fifoVars == <<content, delivered, open>>

Start ==
    /\ content = <<>>
    /\ delivered = <<>>
    /\ open = {}

(* Both ends are opened at once, upon an empty queue.                      *)
Open ==
    /\ open = {}
    /\ open' = {"r", "w"}
    /\ content' = <<>> /\ UNCHANGED delivered

(* Ends are closed; bytes are given up only with the second of them.       *)
Shut(ends) ==
    /\ ends \subseteq open /\ ends # {}
    /\ open' = open \ ends
    /\ content' = IF open' = {} THEN <<>> ELSE content
    /\ UNCHANGED delivered

(* A write puts the whole of its block, or nothing.                        *)
Put(block) ==
    /\ open = {"r", "w"}
    /\ Len(content) + Len(block) <= Capacity
    /\ content' = content \o block
    /\ UNCHANGED <<delivered, open>>

(* A read returns the oldest bytes, as many as there are up to its length. *)
Get(length) ==
    /\ "r" \in open /\ content # <<>>
    /\ LET n == IF Len(content) < length THEN Len(content) ELSE length
       IN  /\ delivered' = SubSeq(content, 1, n)
           /\ content' = SubSeq(content, n + 1, Len(content))
    /\ UNCHANGED open

(* The end of the file: drained, and closed to writing.                    *)
GetEnd ==
    /\ open = {"r"} /\ content = <<>>
    /\ delivered' = <<>>
    /\ UNCHANGED <<content, open>>

FifoNext ==
    \/ Open
    \/ \E ends \in SUBSET {"r", "w"} : Shut(ends)
    \/ \E block \in Blocks : Put(block)
    \/ \E length \in Lengths : Get(length)
    \/ GetEnd

FifoSpec == Start /\ [][FifoNext]_fifoVars
=============================================================================
