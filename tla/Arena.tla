------------------------------- MODULE Arena -------------------------------
(***************************************************************************)
(* The kernel's own memory: the virtual arena of kernel/mm/vmm.c, and the  *)
(* heap of kernel/mm/heap.c that takes its pages there.  The bootstrap     *)
(* processor alone calls either, so a call is one step.                    *)
(*                                                                         *)
(* Addresses are counted in pages from the base of the arena.  A page of a *)
(* slab is its header and its objects, numbered upwards.  The frames of    *)
(* paging structures, the counts kept for the reports and the panics upon  *)
(* a pointer that was never handed out are left out.                       *)
(***************************************************************************)
EXTENDS Integers, FiniteSets, FiniteSetsExt, SequencesExt

CONSTANTS
    Pages,          \* ARENA_PAGE_CAPACITY
    ListCapacity,   \* ARENA_FREE_LIST_CAPACITY
    ArenaFrames,    \* frames the physical allocator can give the arena
    ObjectsOf,      \* the objects of a slab, by size class
    PageCounts      \* the sizes in pages that are asked for

ASSUME ArenaAssumption ==
    /\ {Pages, ListCapacity} \subseteq Nat \ {0} /\ ArenaFrames \in Nat
    /\ "none" \notin DOMAIN ObjectsOf
    /\ \A c \in DOMAIN ObjectsOf : ObjectsOf[c] \in Nat \ {0}
    /\ PageCounts \subseteq Nat

Class == DOMAIN ObjectsOf
ArenaPage == 0 .. Pages - 1
Extent == [base : ArenaPage, count : 1 .. Pages]

VARIABLES
    list,       \* ArenaFreeList, ascending
    bump,       \* ArenaBumpPointer
    mapped,     \* what each page is mapped to: "none", "frame" or "device"
    inUse,      \* ArenaPagesInUse
    forfeit,    \* the pages of released ranges that found the list full
    slabs,      \* HeapPageHeader: the class of each page that is a slab
    objects,    \* HeapClassFreeList, by class
    live,       \* objects_in_use, by slab
    large,      \* large allocations in the hands of callers
    devices,    \* device mappings in the hands of callers
    given       \* objects in the hands of callers

arenaSpace == <<list, bump, mapped, inUse, forfeit>>
heapVars == <<slabs, objects, live, given>>
arenaVars == <<list, bump, mapped, inUse, forfeit, slabs, objects, live, large, devices, given>>

Within(range) == range.base .. range.base + range.count - 1
Over(ranges) == UNION {Within(range) : range \in ranges}

(* The arena before any page is asked for: nothing issued, nothing mapped. *)
ArenaInit ==
    /\ list = <<>> /\ bump = 0 /\ inUse = 0 /\ forfeit = {}
    /\ mapped = [p \in ArenaPage |-> "none"]
    /\ slabs = [p \in ArenaPage |-> "none"] /\ live = [p \in ArenaPage |-> 0]
    /\ objects = [c \in Class |-> <<>>]
    /\ large = {} /\ devices = {} /\ given = {}

(***************************************************************************)
(* The free list.                                                          *)
(***************************************************************************)

(* Mutant: an enlarged range is not joined with the one after it.          *)
JoinedBefore(l, at, count) == [l EXCEPT ![at].count = @ + count]

(* The range at `at` grows at its end, and may now meet the one after it.  *)
Joined(l, at, count) ==
    LET grown == [l EXCEPT ![at].count = @ + count]
    IN  IF at < Len(l) /\ l[at].base + l[at].count + count = l[at + 1].base
        THEN RemoveAt([grown EXCEPT ![at].count = @ + l[at + 1].count], at + 1)
        ELSE grown

(* ArenaFreeListInsert: into the list l, as the ranges before and after    *)
(* it, and the length of the array, allow.                                 *)
ArenaFreeListInsert(l, range) ==
    LET before == Cardinality({k \in DOMAIN l : l[k].base < range.base})
        ends == before > 0 /\ l[before].base + l[before].count = range.base
        begins == before < Len(l) /\ range.base + range.count = l[before + 1].base
    IN  CASE ends -> list' = Joined(l, before, range.count) /\ UNCHANGED forfeit
          [] ~ends /\ begins ->
                /\ list' = [l EXCEPT ![before + 1] =
                               [base |-> range.base, count |-> range.count + @.count]]
                /\ UNCHANGED forfeit
          [] ~ends /\ ~begins /\ Len(l) >= ListCapacity ->
                list' = l /\ forfeit' = forfeit \cup Within(range)
          [] OTHER -> list' = InsertAt(l, before + 1, range) /\ UNCHANGED forfeit

(* ArenaFreeListTake: from the first range that is large enough, if there  *)
(* is one; otherwise the range is one never yet issued.                    *)
Fits(count) == {k \in DOMAIN list : list[k].count >= count}
ListAfterTake(count) ==
    LET at == Min(Fits(count))
    IN  IF Fits(count) = {} THEN list
        ELSE IF list[at].count = count THEN RemoveAt(list, at)
        ELSE [list EXCEPT ![at] = [base |-> @.base + count, count |-> @.count - count]]
BumpAfterTake(count) == IF Fits(count) = {} THEN bump + count ELSE bump

RoomFor(count) == count \in 1 .. Pages /\ (Fits(count) # {} \/ bump + count <= Pages)
RangeFor(count) ==
    [base |-> IF Fits(count) = {} THEN bump ELSE list[Min(Fits(count))].base,
     count |-> count]

Remapped(range, as) == [p \in ArenaPage |-> IF p \in Within(range) THEN as ELSE mapped[p]]
FramesLeft == ArenaFrames - Cardinality({p \in ArenaPage : mapped[p] = "frame"})

(***************************************************************************)
(* KernelPagesAllocate and KernelPagesFree.                                *)
(***************************************************************************)
PagesAllocated(count) ==
    /\ RoomFor(count) /\ count <= FramesLeft
    /\ list' = ListAfterTake(count) /\ bump' = BumpAfterTake(count)
    /\ mapped' = Remapped(RangeFor(count), "frame")
    /\ inUse' = inUse + count
    /\ UNCHANGED forfeit

(* A frame is wanting partway: the pages mapped so far are unmapped, their *)
(* frames are given back, and the range goes upon the list.                *)
PagesNotBacked(count) ==
    /\ RoomFor(count) /\ count > FramesLeft
    /\ ArenaFreeListInsert(ListAfterTake(count), RangeFor(count))
    /\ bump' = BumpAfterTake(count)
    /\ UNCHANGED <<mapped, inUse>>

PagesFreed(range) ==
    /\ mapped' = Remapped(range, "none")
    /\ inUse' = inUse - range.count
    /\ ArenaFreeListInsert(list, range)
    /\ UNCHANGED bump

(***************************************************************************)
(* KernelDeviceMap and KernelDeviceUnmap.                                  *)
(***************************************************************************)
KernelDeviceMap(count) ==
    /\ RoomFor(count)
    /\ list' = ListAfterTake(count) /\ bump' = BumpAfterTake(count)
    /\ mapped' = Remapped(RangeFor(count), "device")
    /\ devices' = devices \cup {RangeFor(count)}
    /\ UNCHANGED <<inUse, forfeit, large, heapVars>>

KernelDeviceUnmap(range) ==
    /\ mapped' = Remapped(range, "none")
    /\ ArenaFreeListInsert(list, range)
    /\ devices' = devices \ {range}
    /\ UNCHANGED <<bump, inUse, large, heapVars>>

(***************************************************************************)
(* KernelAllocate and KernelFree.                                          *)
(***************************************************************************)

(* A large allocation is whole pages.                                      *)
AllocateLarge(count) ==
    /\ \/ PagesAllocated(count) /\ large' = large \cup {RangeFor(count)}
       \/ PagesNotBacked(count) /\ UNCHANGED large
    /\ UNCHANGED <<devices, heapVars>>

FreeLarge(range) ==
    /\ PagesFreed(range)
    /\ large' = large \ {range}
    /\ UNCHANGED <<devices, heapVars>>

(* HeapRefillClass: the objects of a new slab, the lowest first.           *)
Carved(c, page) == [k \in 1 .. ObjectsOf[c] |-> <<page, k>>]

(* The head of the list leaves it, and is counted in its slab.             *)
Handed(c, free, counts) ==
    /\ objects' = [objects EXCEPT ![c] = Tail(free)]
    /\ given' = given \cup {Head(free)}
    /\ live' = [counts EXCEPT ![Head(free)[1]] = @ + 1]

AllocateObject(c) ==
    \/ /\ objects[c] # <<>>
       /\ Handed(c, objects[c], live)
       /\ UNCHANGED <<arenaSpace, slabs, large, devices>>
    \/ /\ objects[c] = <<>>
       /\ PagesAllocated(1)
       /\ slabs' = [slabs EXCEPT ![RangeFor(1).base] = c]
       /\ Handed(c, Carved(c, RangeFor(1).base), [live EXCEPT ![RangeFor(1).base] = 0])
       /\ UNCHANGED <<large, devices>>
    \/ /\ objects[c] = <<>>
       /\ PagesNotBacked(1)
       /\ UNCHANGED <<large, devices, heapVars>>

(* The class is read from the header of the page the object lies in.  An   *)
(* empty slab is kept.                                                     *)
FreeObject(object) ==
    /\ live[object[1]] > 0
    /\ objects' = [objects EXCEPT ![slabs[object[1]]] = <<object>> \o @]
    /\ live' = [live EXCEPT ![object[1]] = @ - 1]
    /\ given' = given \ {object}
    /\ UNCHANGED <<arenaSpace, slabs, large, devices>>

ArenaNext ==
    \/ \E count \in PageCounts : AllocateLarge(count) \/ KernelDeviceMap(count)
    \/ \E range \in large : FreeLarge(range)
    \/ \E range \in devices : KernelDeviceUnmap(range)
    \/ \E c \in Class : AllocateObject(c)
    \/ \E object \in given : FreeObject(object)

(***************************************************************************)
(* Properties.                                                             *)
(***************************************************************************)

Slabs == {p \in ArenaPage : slabs[p] # "none"}
FreeRanges == {list[k] : k \in DOMAIN list}
ObjectsIn(p) == {<<p, k>> : k \in 1 .. ObjectsOf[slabs[p]]}

(* The list is ascending, no two of its ranges touch, and it is never      *)
(* longer than its array.                                                  *)
ListCoalesced ==
    /\ Len(list) <= ListCapacity
    /\ \A k \in 2 .. Len(list) : list[k - 1].base + list[k - 1].count < list[k].base

(* A page below the bump pointer is in exactly one place: a slab, a large  *)
(* allocation, a device mapping, the free list, or forfeit.                *)
PagesInOnePlace ==
    LET held == large \cup devices \cup FreeRanges
        places == {Within(range) : range \in held} \cup {{p} : p \in Slabs}
                      \cup {{p} : p \in forfeit}
    IN  /\ UNION places = 0 .. bump - 1
        /\ \A a, b \in places : a # b => a \cap b = {}
        /\ \A p \in forfeit : p \notin Slabs
        /\ \A a, b \in held : a # b => Within(a) \cap Within(b) = {}
        /\ large \cap devices = {} /\ FreeRanges \cap (large \cup devices) = {}

(* An object of a slab is with a caller or once upon the list of its       *)
(* class, and its slab counts those that are with callers.                 *)
ObjectsInOnePlace ==
    /\ \A c \in Class :
          /\ IsInjective(objects[c])
          /\ ToSet(objects[c]) = (UNION {ObjectsIn(p) : p \in {q \in Slabs : slabs[q] = c}}) \ given
    /\ \A p \in Slabs : live[p] = Cardinality(given \cap ObjectsIn(p))

(* ArenaSound: whatever is taken and given back in whatever order, and     *)
(* wherever the frames run out, no page of the arena and no object of the  *)
(* heap is held twice or lost (other than as forfeit), the free list is    *)
(* coalesced, a page is mapped exactly while it is held, and as what it is *)
(* held for, and the count of pages in use is exact.                       *)
ArenaSound ==
    /\ ListCoalesced /\ PagesInOnePlace /\ ObjectsInOnePlace
    /\ \A p \in ArenaPage :
          mapped[p] = IF p \in Over(devices) THEN "device"
                      ELSE IF p \in Over(large) \cup Slabs THEN "frame" ELSE "none"
    /\ inUse = Cardinality(Over(large) \cup Slabs)
=============================================================================
