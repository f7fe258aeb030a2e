-------------------------------- MODULE Pipe --------------------------------
(***************************************************************************)
(* One slot of the pipe table of kernel/fs/vfs/pipe.c, its two open files  *)
(* (kernel/fs/vfs/file.c), and the processes that hold descriptors of      *)
(* them: pipe, read, write, poll, dup2, close, fork and exit.              *)
(*                                                                         *)
(* A system call is atomic between two sleeps (see module Processes), so a *)
(* call is one step that returns, or that puts the caller to sleep; a      *)
(* woken caller tests its condition again in a later step, after anybody   *)
(* else has had the processor.                                             *)
(*                                                                         *)
(* A transfer made for a program is clamped to SYSCALL_TRANSFER_MAXIMUM,   *)
(* which is the size of the buffer, so a write always needs room for all   *)
(* that remains of it and the loop of VfsPipeWrite transfers once.         *)
(***************************************************************************)
EXTENDS Integers, Sequences

CONSTANTS
    Proc,            \* the processes
    BufferSize,      \* VFS_PIPE_BUFFER_SIZE
    IndexModulus,    \* the indices are uint64_t: 2^64, or a small multiple
    Byte,            \* what a byte may be, 0 among them
    Blocks,          \* what a program writes at once
    Lengths,         \* what a program asks to read at once
    Watched,         \* the sets of ends a program polls at once
    MaxDescriptors   \* descriptors of one end each process holds at most

End == {"r", "w"}

ASSUME SizeAssumption ==
    /\ BufferSize \in Nat \ {0} /\ IndexModulus \in Nat
    /\ IndexModulus > BufferSize /\ IndexModulus % BufferSize = 0
ASSUME TransferAssumption ==
    /\ 0 \in Byte
    /\ Blocks \subseteq Seq(Byte)
    /\ \A b \in Blocks : Len(b) \in 1 .. BufferSize
    /\ Lengths \subseteq 1 .. BufferSize
ASSUME WatchedAssumption == Watched \subseteq (SUBSET End) \ {{}}
ASSUME DescriptorAssumption == MaxDescriptors \in [Proc -> Nat \ {0}]

VARIABLES
    buffer, read_index, write_index,  \* as in VfsPipe
    files,        \* readers and writers: the open files of each end
    in_use,       \* as in VfsPipe
    holders,      \* VfsFile.holders of the open file of each end
    descriptors,  \* how many descriptors of each end a process holds
    status,       \* a process is "idle", or in a call: "asleep" or "woken"
    call,         \* that call
    delivered     \* what the last read returned

pipeVars == <<buffer, read_index, write_index>>
endVars  == <<files, in_use, holders, descriptors>>
vars == <<buffer, read_index, write_index, files, in_use, holders, descriptors,
          status, call, delivered>>

Requests ==
    [op : {"read"}, length : Lengths]
      \cup [op : {"write"}, block : Blocks]
      \cup [op : {"poll"}, ends : Watched]
NoCall == [op |-> "none"]

TypeOK ==
    /\ buffer \in [0 .. BufferSize - 1 -> Byte]
    /\ read_index \in 0 .. IndexModulus - 1
    /\ write_index \in 0 .. IndexModulus - 1
    /\ files \in [End -> 0 .. 1]
    /\ in_use \in BOOLEAN
    /\ holders \in [End -> Nat]
    /\ descriptors \in [Proc -> [End -> Nat]]
    /\ status \in [Proc -> {"idle", "asleep", "woken"}]
    /\ call \in [Proc -> Requests \cup {NoCall}]
    /\ delivered \in Seq(Byte)

Init ==
    /\ buffer = [i \in 0 .. BufferSize - 1 |-> 0]
    /\ read_index = 0 /\ write_index = 0
    /\ files = [e \in End |-> 0]
    /\ in_use = FALSE
    /\ holders = [e \in End |-> 0]
    /\ descriptors = [p \in Proc |-> [e \in End |-> 0]]
    /\ status = [p \in Proc |-> "idle"]
    /\ call = [p \in Proc |-> NoCall]
    /\ delivered = <<>>

----------------------------------------------------------------------------
(* VfsPipeHeld, VfsPipeRoom and VfsPipeIsReadable.                         *)
Held == (write_index - read_index) % IndexModulus
Room == BufferSize - Held
Readable == Held > 0 \/ files["w"] = 0

(* SchedulerWake upon the pipe, and SchedulerWakePollers.                  *)
Wake(ops) ==
    [p \in Proc |-> IF status[p] = "asleep" /\ call[p].op \in ops THEN "woken" ELSE status[p]]
OnPipe == {"read", "write"}
NoPollers == {}     \* mutant: SchedulerWakePollers is forgotten
Pollers == {"poll"}

(* VfsPipeCreate, and the placing of both ends in the caller's table.      *)
Create(p) ==
    /\ status[p] = "idle" /\ ~in_use
    /\ buffer' = [i \in 0 .. BufferSize - 1 |-> 0]
    /\ read_index' = 0 /\ write_index' = 0
    /\ files' = [e \in End |-> 1]
    /\ in_use' = TRUE
    /\ holders' = [e \in End |-> 1]
    /\ descriptors' = [descriptors EXCEPT ![p] = [e \in End |-> 1]]
    /\ UNCHANGED <<status, call, delivered>>

(* The holders become h.  An open file whose last holder went is closed:   *)
(* VfsClose calls VfsPipeReleaseEnd, which wakes every sleeper and poller, *)
(* and frees the slot with the second end.                                 *)
Rehold(h) ==
    LET released == {e \in End : holders[e] > 0 /\ h[e] = 0}
    IN  /\ holders' = h
        /\ files' = [e \in End |-> IF e \in released THEN files[e] - 1 ELSE files[e]]
        /\ in_use' = (in_use /\ (released # {} => \E e \in End : files'[e] # 0))
        /\ status' = IF released # {} THEN Wake(OnPipe \cup Pollers) ELSE status

(* close.                                                                  *)
Close(p, e) ==
    /\ status[p] = "idle" /\ descriptors[p][e] > 0
    /\ descriptors' = [descriptors EXCEPT ![p][e] = @ - 1]
    /\ Rehold([holders EXCEPT ![e] = @ - 1])
    /\ UNCHANGED <<pipeVars, call, delivered>>

(* Mutant: the number is placed and the file gains no holder.              *)
DuplicateUnheld(p, e) ==
    /\ status[p] = "idle" /\ descriptors[p][e] \in 1 .. MaxDescriptors[p] - 1
    /\ descriptors' = [descriptors EXCEPT ![p][e] = @ + 1]
    /\ UNCHANGED <<pipeVars, files, in_use, holders, status, call, delivered>>

(* dup2 of an end onto a free number.                                      *)
Duplicate(p, e) ==
    /\ status[p] = "idle" /\ descriptors[p][e] \in 1 .. MaxDescriptors[p] - 1
    /\ descriptors' = [descriptors EXCEPT ![p][e] = @ + 1]
    /\ Rehold([holders EXCEPT ![e] = @ + 1])
    /\ UNCHANGED <<pipeVars, call, delivered>>

(* dup2 of an end onto a number that names the other end, which is closed  *)
(* after the first has gained its holder.                                  *)
DuplicateOver(p, e, f) ==
    /\ status[p] = "idle" /\ e # f
    /\ descriptors[p][e] \in 1 .. MaxDescriptors[p] - 1 /\ descriptors[p][f] > 0
    /\ descriptors' = [descriptors EXCEPT ![p][e] = @ + 1, ![p][f] = @ - 1]
    /\ Rehold([holders EXCEPT ![e] = @ + 1, ![f] = @ - 1])
    /\ UNCHANGED <<pipeVars, call, delivered>>

(* fork: q is the child, which gains a holder for every descriptor.        *)
Fork(p, q) ==
    /\ status[p] = "idle" /\ status[q] = "idle"
    /\ descriptors[p] # [e \in End |-> 0] /\ descriptors[q] = [e \in End |-> 0]
    /\ \A e \in End : descriptors[p][e] <= MaxDescriptors[q]
    /\ descriptors' = [descriptors EXCEPT ![q] = descriptors[p]]
    /\ Rehold([e \in End |-> holders[e] + descriptors[p][e]])
    /\ UNCHANGED <<pipeVars, call, delivered>>

(* ProcessCloseDescriptors, at the end of a process.                       *)
Exit(p) ==
    /\ status[p] = "idle" /\ descriptors[p] # [e \in End |-> 0]
    /\ descriptors' = [descriptors EXCEPT ![p] = [e \in End |-> 0]]
    /\ Rehold([e \in End |-> holders[e] - descriptors[p][e]])
    /\ UNCHANGED <<pipeVars, call, delivered>>

----------------------------------------------------------------------------
(* The transfers.  A call tests its condition when it is made and again    *)
(* each time it is woken.                                                  *)
Attempts(p, c) ==
    \/ status[p] = "idle" /\ c \in Requests
    \/ status[p] = "woken" /\ c = call[p]

Has(p, e) == descriptors[p][e] > 0

(* The caller returns, having woken those of `woken`.                      *)
Return(p, woken) ==
    /\ status' = [woken EXCEPT ![p] = "idle"]
    /\ call' = [call EXCEPT ![p] = NoCall]
    /\ UNCHANGED endVars

GoesToSleep(p, c) ==
    /\ status' = [status EXCEPT ![p] = "asleep"]
    /\ call' = [call EXCEPT ![p] = c]
    /\ UNCHANGED <<pipeVars, endVars, delivered>>

ReadCount(c) == IF Held < c.length THEN Held ELSE c.length

(* VfsPipeRead: what is held, up to the length asked for.                  *)
ReadSome(p, c) ==
    /\ c.op = "read" /\ Has(p, "r") /\ Held > 0
    /\ delivered' = [i \in 1 .. ReadCount(c) |-> buffer[(read_index + i - 1) % BufferSize]]
    /\ read_index' = (read_index + ReadCount(c)) % IndexModulus
    /\ Return(p, Wake(OnPipe))
    /\ UNCHANGED <<buffer, write_index>>

ReadEnd(p, c) ==
    /\ c.op = "read" /\ Has(p, "r") /\ Held = 0 /\ files["w"] = 0
    /\ delivered' = <<>>
    /\ Return(p, status)
    /\ UNCHANGED pipeVars

ReadSleep(p, c) ==
    /\ c.op = "read" /\ Has(p, "r") /\ Held = 0 /\ files["w"] # 0
    /\ GoesToSleep(p, c)

(* VfsPipeWrite: EPIPE, and SIGPIPE on the way out.                        *)
WriteBroken(p, c) ==
    /\ c.op = "write" /\ Has(p, "w") /\ files["r"] = 0
    /\ Return(p, status)
    /\ UNCHANGED <<pipeVars, delivered>>

(* The subscript the mask gives byte i of a block, and the block's place.  *)
SubscriptPast(i) == (write_index + i) % BufferSize   \* mutant
Subscript(i) == (write_index + i - 1) % BufferSize
WithBlock(b) ==
    [s \in 0 .. BufferSize - 1 |->
        IF \E i \in 1 .. Len(b) : Subscript(i) = s
          THEN b[CHOOSE i \in 1 .. Len(b) : Subscript(i) = s] ELSE buffer[s]]

WriteAll(p, c) ==
    /\ c.op = "write" /\ Has(p, "w") /\ files["r"] # 0 /\ Room >= Len(c.block)
    /\ buffer' = WithBlock(c.block)
    /\ write_index' = (write_index + Len(c.block)) % IndexModulus
    /\ Return(p, Wake(OnPipe \cup Pollers))
    /\ UNCHANGED <<read_index, delivered>>

WriteSleep(p, c) ==
    /\ c.op = "write" /\ Has(p, "w") /\ files["r"] # 0 /\ Room < Len(c.block)
    /\ GoesToSleep(p, c)

(* SyscallDoPoll: the end that writes is never ready.                      *)
PollReady(p, c) ==
    /\ c.op = "poll" /\ \A e \in c.ends : Has(p, e)
    /\ "r" \in c.ends /\ Readable
    /\ Return(p, status)
    /\ UNCHANGED <<pipeVars, delivered>>

PollSleep(p, c) ==
    /\ c.op = "poll" /\ \A e \in c.ends : Has(p, e)
    /\ ~("r" \in c.ends /\ Readable)
    /\ GoesToSleep(p, c)

Attempt(p, c) ==
    /\ Attempts(p, c)
    /\ \/ ReadSome(p, c) \/ ReadEnd(p, c) \/ ReadSleep(p, c)
       \/ WriteBroken(p, c) \/ WriteAll(p, c) \/ WriteSleep(p, c)
       \/ PollReady(p, c) \/ PollSleep(p, c)

(* A signal is pending when a sleeper has the processor again: the call    *)
(* ends with EINTR and nothing transferred.                                *)
Interrupted(p) ==
    /\ status[p] \in {"asleep", "woken"}
    /\ Return(p, status)
    /\ UNCHANGED <<pipeVars, delivered>>

(* Pollers share one channel with every other source of events.            *)
PollersWoken ==
    /\ \E p \in Proc : status[p] = "asleep" /\ call[p].op = "poll"
    /\ status' = Wake(Pollers)
    /\ UNCHANGED <<pipeVars, endVars, call, delivered>>

----------------------------------------------------------------------------
Next ==
    \/ \E p \in Proc :
          \/ Create(p)
          \/ \E e \in End : Close(p, e) \/ Duplicate(p, e)
          \/ \E e, f \in End : DuplicateOver(p, e, f)
          \/ \E q \in Proc : Fork(p, q)
          \/ Exit(p)
          \/ \E c \in Requests : Attempt(p, c)
          \/ Interrupted(p)
    \/ PollersWoken

Spec == Init /\ [][Next]_vars

----------------------------------------------------------------------------
(* Properties.                                                             *)

(* No wake is lost: whoever sleeps upon the pipe, or polls it, has nothing *)
(* to be told.  A reader sleeps only while the pipe is empty and a writer  *)
(* is left, a writer only while its block does not fit and a reader is     *)
(* left, a poller only while a read would sleep (the test and the sleep of *)
(* VfsPipeRead, VfsPipeWrite and SyscallDoPoll against every transfer and  *)
(* every close of the others).                                             *)
SleepersHaveCause ==
    \A p \in Proc : status[p] = "asleep" =>
        CASE call[p].op = "read"  -> Held = 0 /\ files["w"] > 0
          [] call[p].op = "write" -> Room < Len(call[p].block) /\ files["r"] > 0
          [] OTHER                -> "r" \in call[p].ends => ~Readable

(* An end is open exactly as long as some process holds a descriptor of    *)
(* it, and the slot is taken exactly as long as an end is open: no fork,   *)
(* dup2, close or exit, in any order, leaves a reader waiting for a writer *)
(* nobody is, or frees a pipe somebody can still name.                     *)
OpenWhileHeld ==
    /\ \A e \in End : files[e] = 1 <=> \E p \in Proc : descriptors[p][e] > 0
    /\ in_use <=> \E e \in End : files[e] = 1

(* The pipe is a bounded queue of whole blocks: nothing lost, repeated,    *)
(* reordered or interleaved, and an end of file only when drained.         *)
HeldBytes == [i \in 1 .. Held |-> buffer[(read_index + i - 1) % BufferSize]]
Queue == INSTANCE Fifo WITH
            Capacity  <- BufferSize,
            content   <- IF in_use THEN HeldBytes ELSE <<>>,
            open      <- {e \in End : files[e] = 1}
IsFifo == Queue!FifoSpec
=============================================================================
