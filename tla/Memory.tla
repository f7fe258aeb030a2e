------------------------------- MODULE Memory -------------------------------
(***************************************************************************)
(* Frames, address spaces and copy on write: kernel/mm/pmm.c,              *)
(* kernel/arch/x86_64/mm/addrspace.c and paging.c, and the operations of   *)
(* kernel/proc/process.c that fork, replace, grow and release the memory   *)
(* of a process.                                                           *)
(*                                                                         *)
(* An address space is named by the slot of its process.  A hierarchy of   *)
(* paging structures is abstracted to the one frame of its root and a      *)
(* function from pages to leaf entries.  Every user thread is pinned to    *)
(* the bootstrap processor, so there is one CR3, one set of cached         *)
(* translations, and PagingActiveTable always names what CR3 holds.        *)
(* `memory` is what each process wrote, kept beside the machine to say     *)
(* what it must read back.                                                 *)
(***************************************************************************)
EXTENDS Naturals, FiniteSets

CONSTANTS
    Space,          \* slots of the process table; each holds at most one space
    First,          \* the slot of the first program
    Kernel,         \* stands for the kernel's own hierarchy
    Frames,         \* how many frames the allocator has
    ImagePages,     \* pages a program's file fills, by number
    ReadOnly,       \* those of them in a segment without write permission
    StackPages,     \* pages of the user stack
    BreakPages,     \* pages the break may grow over
    Word,           \* what a page may hold; 0 is a page of zeros
    Scrap           \* whatever the last holder of a free frame left there

ASSUME MemoryAssumption ==
    /\ IsFiniteSet(Space) /\ First \in Space /\ Kernel \notin Space
    /\ IsFiniteSet(ImagePages \cup StackPages \cup BreakPages)
    /\ Frames \in Nat /\ Frames > Cardinality(ImagePages \cup StackPages)
    /\ ImagePages \cup StackPages \cup BreakPages \subseteq Nat \ {0}
    /\ ImagePages \cap StackPages = {} /\ ReadOnly \subseteq ImagePages
    /\ BreakPages \cap (ImagePages \cup StackPages) = {}
    /\ 0 \in Word /\ Scrap \notin Word

Page == ImagePages \cup StackPages \cup BreakPages
Frame == 1 .. Frames

(* A leaf entry; frame 0 is an entry without the present bit.              *)
Leaf == [frame : 0 .. Frames, writable : BOOLEAN, cow : BOOLEAN]
Absent == [frame |-> 0, writable |-> FALSE, cow |-> FALSE]
Empty == [p \in Page |-> Absent]

VARIABLES
    counts,     \* FrameReferenceTable; a frame with none is free in the bitmap
    content,        \* what each frame holds
    root,           \* Process.space.root; 0 where the slot holds no space
    table,          \* the leaf entries of each space
    active,         \* CR3 and PagingActiveTable: a space, or the kernel's
    tlb,            \* translations the processor has cached for `active`
    state,          \* unused, alive or ended
    approved,       \* the page a sleeping call has found writable; 0 for none
    memory,         \* what each process is entitled to read
    halted          \* KernelPanic was called

memoryVars == <<counts, content, root, table, active, tlb, state, approved,
                memory, halted>>

(***************************************************************************)
(* The frame allocator.                                                    *)
(***************************************************************************)

(* FrameAllocate takes the first free frame: no frame below the search     *)
(* hint is ever free.  N allocations for the pages of P, in the order of   *)
(* their addresses, therefore take the N lowest.                           *)
Free(refs) == {f \in Frame : refs[f] = 0}
Rank(n, S) == Cardinality({m \in S : m < n})
Lowest(F) == CHOOSE f \in F : \A g \in F : f <= g
FrameAllocate(P, F) == [p \in P |-> CHOOSE f \in F : Rank(f, F) = Rank(p, P)]
Taken(fs, P) == {fs[p] : p \in P}

(* AddressSpaceReleaseStructure: FrameFree for every leaf and the root.    *)
FrameFree(refs, rt, leaves) ==
    [f \in Frame |-> refs[f] - Cardinality({p \in Page : leaves[p].frame = f})
                             - (IF f = rt THEN 1 ELSE 0)]

(* What the frames hold once some were freed and those of F were taken and *)
(* cleared, as PagingAllocateTable, ElfLoadSegment, ProcessCreateUserStack *)
(* and ProcessMapBreakPage clear them.                                     *)
Cleared(refs, F) ==
    [f \in Frame |-> CASE f \in F -> 0
                      [] f \notin F /\ refs[f] = 0 -> Scrap
                      [] OTHER -> content[f]]

Raised(refs, F) == [f \in Frame |-> IF f \in F THEN 1 ELSE refs[f]]

(***************************************************************************)
(* Translations.                                                           *)
(***************************************************************************)

(* What the processor uses: a cached translation, or a walk of the tables. *)
Translation(p) == IF tlb[p] # Absent THEN tlb[p] ELSE table[active][p]
Flushed == Empty                                     \* a load of CR3
Invalidated(P) == [p \in Page |-> IF p \in P THEN Absent ELSE tlb[p]]

Running(s) == active = s /\ s \in Space /\ state[s] = "alive" /\ ~halted
InUserMode(s) == Running(s) /\ approved[s] = 0

(* PagingResolveCopyOnWriteFault upon the active hierarchy.                *)
Resolvable(e) ==
    /\ e.frame # 0 /\ e.cow /\ ~e.writable
    /\ counts[e.frame] <= 1 \/ Free(counts) # {}

OwnedAlone(e) == counts[e.frame] <= 1

Resolve(s, p) ==
    LET e == table[s][p]
        fresh == IF OwnedAlone(e) THEN e.frame ELSE Lowest(Free(counts))
    IN  /\ table' = [table EXCEPT ![s][p] =
                        [frame |-> fresh, writable |-> TRUE, cow |-> FALSE]]
        /\ content' = [content EXCEPT ![fresh] = content[e.frame]]
        /\ counts' = [f \in Frame |->
                CASE OwnedAlone(e) -> counts[f]
                  [] ~OwnedAlone(e) /\ f = fresh -> 1
                  [] ~OwnedAlone(e) /\ f = e.frame -> counts[f] - 1
                  [] OTHER -> counts[f]]
        /\ tlb' = Invalidated({p})

(***************************************************************************)
(* A process in user mode.                                                 *)
(***************************************************************************)

UserRead(s, p) ==
    /\ InUserMode(s) /\ Translation(p).frame # 0
    /\ tlb' = [tlb EXCEPT ![p] = Translation(p)]
    /\ UNCHANGED <<counts, content, root, table, active, state, approved, memory, halted>>

Store(s, p, v) ==
    /\ Translation(p).writable
    /\ content' = [content EXCEPT ![Translation(p).frame] = v]
    /\ memory' = [memory EXCEPT ![s][p] = v]
    /\ tlb' = [tlb EXCEPT ![p] = Translation(p)]

UserWrite(s, p, v) ==
    /\ InUserMode(s) /\ Store(s, p, v)
    /\ UNCHANGED <<counts, root, table, active, state, approved, halted>>

(* ExceptionPageFaultHandler: the program resumes, or is terminated.       *)
WriteFault(s, p) ==
    /\ InUserMode(s)
    /\ Translation(p).frame # 0 /\ ~Translation(p).writable
    /\ \/ /\ Resolvable(table[s][p])
          /\ Resolve(s, p)
          /\ UNCHANGED state
       \/ /\ ~Resolvable(table[s][p])
          /\ state' = [state EXCEPT ![s] = "ended"]
          /\ UNCHANGED <<table, content, counts, tlb>>
    /\ UNCHANGED <<root, active, approved, memory, halted>>

(***************************************************************************)
(* A call that writes into the caller's memory after it has slept.         *)
(***************************************************************************)

(* Mutant: a shared page is taken for a writable one.                      *)
JudgeReadable(s, p) ==
    /\ InUserMode(s)
    /\ table[s][p].frame # 0
    /\ approved' = [approved EXCEPT ![s] = p]
    /\ UNCHANGED <<table, content, counts, tlb, root, active, state, memory, halted>>

(* SyscallUserRangeIsWritable: the pages are judged, and a page shared by  *)
(* copy on write is made the caller's own, before the call waits.          *)
Judge(s, p) ==
    /\ InUserMode(s)
    /\ table[s][p].frame # 0
    /\ approved' = [approved EXCEPT ![s] = p]
    /\ \/ table[s][p].writable /\ UNCHANGED <<table, content, counts, tlb>>
       \/ ~table[s][p].writable /\ Resolvable(table[s][p]) /\ Resolve(s, p)
    /\ UNCHANGED <<root, active, state, memory, halted>>

(* The answer is written through the caller's own address.                 *)
Answer(s, v) ==
    /\ Running(s) /\ approved[s] # 0
    /\ Store(s, approved[s], v)
    /\ approved' = [approved EXCEPT ![s] = 0]
    /\ UNCHANGED <<counts, root, table, active, state, halted>>

(***************************************************************************)
(* Whole spaces.                                                           *)
(***************************************************************************)

(* AddressSpaceCloneStructure: what it writes to both hierarchies.         *)
Protected(leaves) ==
    [p \in Page |-> IF leaves[p].writable
                    THEN [leaves[p] EXCEPT !.writable = FALSE, !.cow = TRUE]
                    ELSE leaves[p]]

(* Mutant: a read-only page is shared without a reference.                 *)
SharedIfWritable(leaves, r) ==
    [f \in Frame |-> IF f = r THEN 1
                     ELSE counts[f] + Cardinality({p \in Page :
                             leaves[p].frame = f /\ (leaves[p].writable \/ leaves[p].cow)})]

(* The counts a clone takes, one for each leaf, and the root's frame.  *)
Shared(leaves, r) ==
    [f \in Frame |-> IF f = r THEN 1
                     ELSE counts[f] + Cardinality({p \in Page : leaves[p].frame = f})]

(* Mutant: the cached translations survive the clone.                      *)
TranslationsKept == tlb

(* AddressSpaceClone ends by writing CR3 again where the space it cloned,  *)
(* the caller's, is the active one.                                        *)
AfterClone == Flushed

(* PagingAllocateTable panics where no frame is left for the root of a new *)
(* space, which fork and execve both ask for first.                        *)
CreatePanics(s) ==
    /\ InUserMode(s) /\ Free(counts) = {}
    /\ halted' = TRUE
    /\ UNCHANGED <<counts, content, root, table, active, tlb, state, approved, memory>>

Fork(s, t) ==
    LET r == Lowest(Free(counts))
        both == Protected(table[s])
    IN  /\ InUserMode(s) /\ state[t] = "unused" /\ Free(counts) # {}
        /\ table' = [table EXCEPT ![s] = both, ![t] = both]
        /\ tlb' = AfterClone
        /\ root' = [root EXCEPT ![t] = r]
        /\ counts' = Shared(table[s], r)
        /\ state' = [state EXCEPT ![t] = "alive"]
        /\ memory' = [memory EXCEPT ![t] = memory[s]]
        /\ content' = Cleared(counts', {r})
        /\ UNCHANGED <<active, approved, halted>>

(* ProcessFork clones and then finds no room for the descriptors or for a  *)
(* thread: the child is destroyed, and the parent stays protected.         *)
ForkFails(s, t) ==
    /\ InUserMode(s) /\ state[t] = "unused" /\ Free(counts) # {}
    /\ table' = [table EXCEPT ![s] = Protected(table[s])]
    /\ tlb' = AfterClone
    /\ counts' = FrameFree(Shared(table[s], Lowest(Free(counts))),
                               Lowest(Free(counts)), table[s])
    /\ UNCHANGED <<content, root, active, state, approved, memory, halted>>

(* ProcessExecute: the image is loaded into a new space, the processor     *)
(* switches to it, the old one is released, and the stack is mapped from   *)
(* what is then free; a stack that does not fit ends the process.  Where   *)
(* the image itself does not fit the new space is released and the call    *)
(* refused, which changes nothing.                                         *)
Execute(s) ==
    LET r == Lowest(Free(counts))
        pool == Free(counts) \ {r}
        image == FrameAllocate(ImagePages, pool)
        loaded == Raised(counts, {r} \cup Taken(image, ImagePages))
        left == FrameFree(loaded, root[s], table[s])
        fits == {p \in StackPages : Rank(p, StackPages) < Cardinality(Free(left))}
        stack == FrameAllocate(fits, Free(left))
        fresh == {r} \cup Taken(image, ImagePages) \cup Taken(stack, fits)
    IN  /\ InUserMode(s)
        /\ Cardinality(Free(counts)) > Cardinality(ImagePages)
        /\ root' = [root EXCEPT ![s] = r]
        /\ table' = [table EXCEPT ![s] = [p \in Page |->
                CASE p \in ImagePages ->
                        [frame |-> image[p], writable |-> p \notin ReadOnly, cow |-> FALSE]
                  [] p \in fits -> [frame |-> stack[p], writable |-> TRUE, cow |-> FALSE]
                  [] OTHER -> Absent]]
        /\ counts' = Raised(left, fresh)
        /\ content' = Cleared(counts', fresh)
        /\ tlb' = Flushed
        /\ memory' = [memory EXCEPT ![s] = [p \in Page |-> 0]]
        /\ state' = [state EXCEPT ![s] = IF fits = StackPages THEN "alive" ELSE "ended"]
        /\ UNCHANGED <<active, approved, halted>>

(* ProcessSetBreak: growth that runs out of frames is undone whole.        *)
Established(s) == {p \in BreakPages : table[s][p].frame # 0}

GrowBreak(s, p) ==
    LET more == {q \in BreakPages : q <= p} \ Established(s)
        new == FrameAllocate(more, Free(counts))
    IN  /\ InUserMode(s) /\ p \notin Established(s)
        /\ Cardinality(more) <= Cardinality(Free(counts))
        /\ table' = [table EXCEPT ![s] = [q \in Page |->
                IF q \in more THEN [frame |-> new[q], writable |-> TRUE, cow |-> FALSE]
                              ELSE table[s][q]]]
        /\ counts' = Raised(counts, Taken(new, more))
        /\ content' = Cleared(counts', Taken(new, more))
        /\ tlb' = Invalidated(more)
        /\ memory' = [memory EXCEPT ![s] = [q \in Page |->
                IF q \in more THEN 0 ELSE memory[s][q]]]
        /\ UNCHANGED <<root, active, state, approved, halted>>

ShrinkBreak(s, p) ==
    LET less == {q \in Established(s) : q >= p}
    IN  /\ InUserMode(s) /\ p \in Established(s)
        /\ table' = [table EXCEPT ![s] = [q \in Page |->
                IF q \in less THEN Absent ELSE table[s][q]]]
        /\ counts' = FrameFree(counts, 0, [q \in Page |->
                IF q \in less THEN table[s][q] ELSE Absent])
        /\ content' = Cleared(counts', {})
        /\ memory' = [memory EXCEPT ![s] = [q \in Page |->
                IF q \in less THEN 0 ELSE memory[s][q]]]
        /\ tlb' = Invalidated(less)
        /\ UNCHANGED <<root, active, state, approved, halted>>

(* ThreadSwitchTo: CR3 is loaded for another thread, at a tick or because  *)
(* the thread sleeps or has ended.                                         *)
SwitchTo(x) ==
    /\ ~halted /\ x # active
    /\ x # Kernel => state[x] = "alive"
    /\ active' = x /\ tlb' = Flushed
    /\ UNCHANGED <<counts, content, root, table, state, approved, memory, halted>>

(* A process ends: by its own call, or by a signal on the way out of one.  *)
ProcessExit(s) ==
    /\ Running(s)
    /\ state' = [state EXCEPT ![s] = "ended"]
    /\ approved' = [approved EXCEPT ![s] = 0]
    /\ UNCHANGED <<counts, content, root, table, active, tlb, memory, halted>>

(* ProcessDestroy, when whoever collects the child runs.                   *)
Reap(t) ==
    /\ ~halted /\ state[t] = "ended" /\ active # t
    /\ active # Kernel => state[active] = "alive"
    /\ counts' = FrameFree(counts, root[t], table[t])
    /\ root' = [root EXCEPT ![t] = 0]
    /\ table' = [table EXCEPT ![t] = Empty]
    /\ state' = [state EXCEPT ![t] = "unused"]
    /\ memory' = [memory EXCEPT ![t] = [p \in Page |-> 0]]
    /\ content' = Cleared(counts', {})
    /\ UNCHANGED <<active, tlb, approved, halted>>

(* The processor halts: after a panic, or with nothing left to run.        *)
Halt ==
    /\ halted \/ (active = Kernel /\ \A s \in Space : state[s] = "unused")
    /\ UNCHANGED memoryVars

(* The first program has been loaded and runs: its root, image and stack   *)
(* are the frames the boot left free, in order.                            *)
MemoryInit ==
    LET pages == ImagePages \cup StackPages
        frames == FrameAllocate(pages, 2 .. Frames)
    IN  /\ root = [s \in Space |-> IF s = First THEN 1 ELSE 0]
        /\ table = [s \in Space |-> IF s # First THEN Empty ELSE
              [p \in Page |-> IF p \in pages
                              THEN [frame |-> frames[p], writable |-> p \notin ReadOnly,
                                    cow |-> FALSE]
                              ELSE Absent]]
        /\ counts = Raised([f \in Frame |-> 0], {1} \cup Taken(frames, pages))
        /\ content = [f \in Frame |-> IF counts[f] = 0 THEN Scrap ELSE 0]
        /\ active = First /\ tlb = Empty
        /\ state = [s \in Space |-> IF s = First THEN "alive" ELSE "unused"]
        /\ approved = [s \in Space |-> 0]
        /\ memory = [s \in Space |-> [p \in Page |-> 0]]
        /\ halted = FALSE

MemoryNext ==
    \/ \E s \in Space, p \in Page :
          \/ UserRead(s, p) \/ WriteFault(s, p) \/ Judge(s, p)
          \/ \E v \in Word : UserWrite(s, p, v)
    \/ \E s \in Space, v \in Word : Answer(s, v)
    \/ \E s, t \in Space : Fork(s, t) \/ ForkFails(s, t)
    \/ \E s \in Space, p \in BreakPages : GrowBreak(s, p) \/ ShrinkBreak(s, p)
    \/ \E s \in Space : Execute(s) \/ CreatePanics(s) \/ ProcessExit(s) \/ Reap(s)
    \/ \E x \in Space \cup {Kernel} : SwitchTo(x)
    \/ Halt

MemorySpec == MemoryInit /\ [][MemoryNext]_memoryVars

(***************************************************************************)
(* Properties.                                                             *)
(***************************************************************************)

(* Type invariant of the module.                                           *)
MemoryTypeOK ==
    /\ counts \in [Frame -> Nat]
    /\ content \in [Frame -> Word \cup {Scrap}]
    /\ root \in [Space -> 0 .. Frames]
    /\ table \in [Space -> [Page -> Leaf]]
    /\ active \in Space \cup {Kernel}
    /\ tlb \in [Page -> Leaf]
    /\ state \in [Space -> {"unused", "alive", "ended"}]
    /\ approved \in [Space -> Page \cup {0}]
    /\ memory \in [Space -> [Page -> Word]]
    /\ halted \in BOOLEAN

(* A process reads back what it wrote and nothing else writes, whatever    *)
(* shares its frames: through its tables, and through the translations the *)
(* processor cached for it.  Fork, the fault that copies, the sole owner   *)
(* that keeps its frame, the break, execve and the release of a space must *)
(* all agree for it to hold.                                               *)
Isolated ==
    \A s \in Space : state[s] = "alive" =>
        \A p \in Page :
            /\ table[s][p].frame # 0 => content[table[s][p].frame] = memory[s][p]
            /\ active = s /\ tlb[p].frame # 0 => content[tlb[p].frame] = memory[s][p]

(* FrameReferenceTable counts the leaf entries and roots that name each    *)
(* frame, exactly: one too few and a frame in use is handed out again, one *)
(* too many and it is never returned.                                      *)
CountsExact ==
    \A f \in Frame :
        counts[f] = Cardinality({sp \in Space \X Page : table[sp[1]][sp[2]].frame = f})
                      + Cardinality({s \in Space : root[s] = f})

(* The page a call judged writable before it slept is writable still when  *)
(* the call writes its answer there, so the kernel's own store neither     *)
(* faults nor reaches a frame that somebody else reads.                    *)
ApprovedStaysOwn ==
    \A s \in Space : approved[s] # 0 =>
        LET e == table[s][approved[s]] IN e.writable /\ counts[e.frame] = 1
=============================================================================
