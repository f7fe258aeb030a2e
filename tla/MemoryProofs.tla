---------------------------- MODULE MemoryProofs ----------------------------
(***************************************************************************)
(* Frames and copy on write, for any number of processes, pages and        *)
(* frames: the reference counts are exact, no process sees what another    *)
(* wrote, and a page judged writable before a sleep is so after it.  Then  *)
(* the kernel's own pages, its arena and its heap: nothing is held twice   *)
(* or lost.                                                                *)
(***************************************************************************)
EXTENDS Memory, Arena, ListFacts, FiniteSetTheorems, TLAPS

(* Who names a frame: the leaves of one space, all leaves, and the roots.  *)
Row(leaves, f) == {p \in Page : leaves[p].frame = f}
Names(t, f) == {sp \in Space \X Page : t[sp[1]][sp[2]].frame = f}
Roots(r, f) == {s \in Space : r[s] = f}

Is(a, b) == IF a = b THEN 1 ELSE 0

Exact(c, t, r) ==
    \A f \in Frame : c[f] = Cardinality(Names(t, f)) + Cardinality(Roots(r, f))

(* A slot without a process has no space.                                  *)
SlotsEmpty == \A s \in Space : state[s] = "unused" => root[s] = 0 /\ table[s] = Empty

(* An entry that permits writes is the only one that names its frame.      *)
WritableOwn ==
    \A s \in Space, p \in Page : table[s][p].writable =>
        table[s][p].frame # 0 /\ counts[table[s][p].frame] = 1

(* The processor has cached nothing its tables do not say.                 *)
Cached ==
    \A p \in Page : tlb[p] # Absent => active \in Space /\ tlb[p] = table[active][p]

(* A call waits with a page of its own, and only in a live process.        *)
Waits ==
    \A s \in Space : approved[s] # 0 =>
        state[s] = "alive" /\ table[s][approved[s]].writable

(* What a live process finds in its pages.                                 *)
Reads ==
    \A s \in Space, p \in Page : state[s] = "alive" /\ table[s][p].frame # 0 =>
        content[table[s][p].frame] = memory[s][p]

MemInv ==
    /\ MemoryTypeOK /\ Exact(counts, table, root) /\ SlotsEmpty
    /\ WritableOwn /\ Cached /\ Waits /\ Reads

-----------------------------------------------------------------------------
(* Counting who names a frame.                                             *)

Tables == [Space -> [Page -> Leaf]]

(* Spaces, pages and frames are finitely many.                             *)
LEMMA Finite ==
    /\ IsFiniteSet(Space) /\ IsFiniteSet(Page) /\ Frames \in Nat
    /\ Page \subseteq Nat \ {0}
    /\ IsFiniteSet(Frame) /\ Frame \subseteq Nat \ {0}
<1>1. IsFiniteSet(Space) /\ IsFiniteSet(Page) /\ Frames \in Nat /\ Page \subseteq Nat \ {0}
  BY MemoryAssumption DEF Page
<1>2. IsFiniteSet(1 .. Frames)
  BY <1>1, FS_Interval
<1> QED
  BY <1>1, <1>2 DEF Frame

(* The mappings and roots that name a frame can be counted.                *)
LEMMA NamesFinite ==
    ASSUME NEW t, NEW r, NEW leaves, NEW f
    PROVE  /\ IsFiniteSet(Names(t, f)) /\ Cardinality(Names(t, f)) \in Nat
           /\ IsFiniteSet(Roots(r, f)) /\ Cardinality(Roots(r, f)) \in Nat
           /\ IsFiniteSet(Row(leaves, f)) /\ Cardinality(Row(leaves, f)) \in Nat
<1>1. IsFiniteSet(Space \X Page)
  BY Finite, FS_Product
<1>2. /\ Names(t, f) \in SUBSET (Space \X Page) /\ Roots(r, f) \in SUBSET Space
      /\ Row(leaves, f) \in SUBSET Page
  BY DEF Names, Roots, Row
<1>3. IsFiniteSet(Names(t, f)) /\ IsFiniteSet(Roots(r, f)) /\ IsFiniteSet(Row(leaves, f))
  BY <1>1, <1>2, Finite, FS_Subset
<1> QED
  BY <1>3, FS_CardinalityType

(* The leaves of one space give way to others.                             *)
LEMMA RowReplaced ==
    ASSUME NEW t \in Tables, NEW s \in Space, NEW new \in [Page -> Leaf],
           NEW f \in Frame, NEW u, u = [t EXCEPT ![s] = new]
    PROVE  Cardinality(Names(u, f)) + Cardinality(Row(t[s], f))
             = Cardinality(Names(t, f)) + Cardinality(Row(new, f))
<1> DEFINE others == {sp \in Names(t, f) : sp[1] # s}
<1>1. IsFiniteSet(others) /\ Cardinality(others) \in Nat
  <2>1. IsFiniteSet(others)
    BY NamesFinite, FS_Subset
  <2> QED
    BY <2>1, FS_CardinalityType
<1>2. ASSUME NEW R, IsFiniteSet(R)
      PROVE  IsFiniteSet({s} \X R) /\ Cardinality({s} \X R) = Cardinality(R)
  <2>1. IsFiniteSet({s}) /\ Cardinality({s}) = 1
    BY FS_Singleton
  <2>2. Cardinality(R) \in Nat
    BY <1>2, FS_CardinalityType
  <2> QED
    BY <1>2, <2>1, <2>2, FS_Product
<1>3. ASSUME NEW R, R \subseteq Page
      PROVE  /\ others \cap ({s} \X R) = {}
             /\ Cardinality(others \cup ({s} \X R)) = Cardinality(others) + Cardinality(R)
  <2>1. others \cap ({s} \X R) = {}
    OBVIOUS
  <2>2. IsFiniteSet(R) /\ Cardinality(R) \in Nat
    BY <1>3, Finite, FS_Subset, FS_CardinalityType
  <2>3. IsFiniteSet({s} \X R) /\ Cardinality({s} \X R) = Cardinality(R)
    BY <1>2, <2>2
  <2> HIDE DEF others
  <2>4. Cardinality(others \cup ({s} \X R))
          = Cardinality(others) + Cardinality({s} \X R) - Cardinality(others \cap ({s} \X R))
    BY <1>1, <2>3, FS_Union
  <2>5. Cardinality(others \cap ({s} \X R)) = 0
    BY <2>1, FS_EmptySet
  <2> QED
    BY <1>1, <2>1, <2>2, <2>3, <2>4, <2>5
<1>4. Names(t, f) = others \cup ({s} \X Row(t[s], f))
  BY DEF Names, Row
<1>5. Names(u, f) = others \cup ({s} \X Row(new, f))
  BY DEF Names, Row, Tables
<1>6. Row(t[s], f) \subseteq Page /\ Row(new, f) \subseteq Page
  BY DEF Row
<1> HIDE DEF others
<1>7. Cardinality(Names(t, f)) = Cardinality(others) + Cardinality(Row(t[s], f))
  BY <1>3, <1>4, <1>6
<1>8. Cardinality(Names(u, f)) = Cardinality(others) + Cardinality(Row(new, f))
  BY <1>3, <1>5, <1>6
<1> QED
  BY <1>1, <1>7, <1>8, NamesFinite

(* The root of one space gives way to another.                             *)
LEMMA RootReplaced ==
    ASSUME NEW r \in [Space -> 0 .. Frames], NEW s \in Space, NEW x \in 0 .. Frames,
           NEW f \in Frame, NEW q, q = [r EXCEPT ![s] = x]
    PROVE  Cardinality(Roots(q, f)) + Is(r[s], f)
             = Cardinality(Roots(r, f)) + Is(x, f)
<1> DEFINE others == {z \in Roots(r, f) : z # s}
<1>1. IsFiniteSet(others) /\ Cardinality(others) \in Nat
  <2>1. IsFiniteSet(others)
    BY NamesFinite, FS_Subset
  <2> QED
    BY <2>1, FS_CardinalityType
<1>2. Cardinality(others \cup {s}) = Cardinality(others) + 1
  BY <1>1, FS_AddElement
<1>3. Roots(r, f) = IF r[s] = f THEN others \cup {s} ELSE others
  BY DEF Roots
<1>4. Roots(q, f) = IF x = f THEN others \cup {s} ELSE others
  BY DEF Roots
<1> HIDE DEF others
<1> QED
  BY <1>1, <1>2, <1>3, <1>4 DEF Is

(* Counts that follow such a replacement stay exact.                       *)
FollowsRow(c, d, before, after) ==
    \A f \in Frame : d[f] \in Int /\
        d[f] + Cardinality(Row(before, f)) = c[f] + Cardinality(Row(after, f))
FollowsRoot(c, d, before, after) ==
    \A f \in Frame : d[f] \in Int /\ d[f] + Is(before, f) = c[f] + Is(after, f)

(* Counts stay exact when one space's table is replaced and each count     *)
(* follows the number of its leaves that name the frame.                   *)
LEMMA RowExact ==
    ASSUME NEW c, NEW t \in Tables, NEW r, Exact(c, t, r), NEW s \in Space,
           NEW n \in [Page -> Leaf], NEW u, u = [t EXCEPT ![s] = n],
           NEW d, FollowsRow(c, d, t[s], n)
    PROVE  Exact(d, u, r)
<1> SUFFICES ASSUME NEW f \in Frame
             PROVE  d[f] = Cardinality(Names(u, f)) + Cardinality(Roots(r, f))
  BY DEF Exact
<1>1. c[f] = Cardinality(Names(t, f)) + Cardinality(Roots(r, f))
  BY DEF Exact
<1>2. Cardinality(Names(u, f)) + Cardinality(Row(t[s], f))
        = Cardinality(Names(t, f)) + Cardinality(Row(n, f))
  BY RowReplaced
<1>3. /\ Cardinality(Names(t, f)) \in Nat /\ Cardinality(Names(u, f)) \in Nat
      /\ Cardinality(Roots(r, f)) \in Nat
      /\ Cardinality(Row(t[s], f)) \in Nat /\ Cardinality(Row(n, f)) \in Nat
  BY NamesFinite
<1>4. d[f] \in Int /\ d[f] + Cardinality(Row(t[s], f)) = c[f] + Cardinality(Row(n, f))
  BY DEF FollowsRow
<1> QED
  BY <1>1, <1>2, <1>3, <1>4

(* Counts stay exact when one space's root is replaced and the counts of   *)
(* the two roots follow.                                                   *)
LEMMA RootExact ==
    ASSUME NEW c, NEW t, NEW r \in [Space -> 0 .. Frames], Exact(c, t, r), NEW s \in Space,
           NEW x \in 0 .. Frames, NEW q, q = [r EXCEPT ![s] = x],
           NEW d, FollowsRoot(c, d, r[s], x)
    PROVE  Exact(d, t, q)
<1> SUFFICES ASSUME NEW f \in Frame
             PROVE  d[f] = Cardinality(Names(t, f)) + Cardinality(Roots(q, f))
  BY DEF Exact
<1>1. c[f] = Cardinality(Names(t, f)) + Cardinality(Roots(r, f))
  BY DEF Exact
<1>2. Cardinality(Roots(q, f)) + Is(r[s], f)
        = Cardinality(Roots(r, f)) + Is(x, f)
  BY RootReplaced
<1>3. /\ Cardinality(Names(t, f)) \in Nat
      /\ Cardinality(Roots(r, f)) \in Nat /\ Cardinality(Roots(q, f)) \in Nat
  BY NamesFinite
<1>4. d[f] \in Int /\ d[f] + Is(r[s], f) = c[f] + Is(x, f)
  BY DEF FollowsRoot
<1>5. Is(r[s], f) \in Int /\ Is(x, f) \in Int
  BY DEF Is
<1> QED
  BY <1>1, <1>2, <1>3, <1>4, <1>5

(* What exact counts say of those who name a frame.                        *)
LEMMA NamedCounts ==
    ASSUME NEW c, NEW t, NEW r, Exact(c, t, r), NEW f \in Frame
    PROVE  /\ c[f] \in Nat
           /\ c[f] = 0 => Names(t, f) = {} /\ Roots(r, f) = {}
           /\ \A x \in Names(t, f) : c[f] >= 1
           /\ \A x, y \in Names(t, f) : c[f] = 1 => x = y
           /\ \A x \in Names(t, f) : c[f] = 1 => Roots(r, f) = {}
<1>1. c[f] = Cardinality(Names(t, f)) + Cardinality(Roots(r, f))
  BY DEF Exact
<1>2. /\ IsFiniteSet(Names(t, f)) /\ Cardinality(Names(t, f)) \in Nat
      /\ IsFiniteSet(Roots(r, f)) /\ Cardinality(Roots(r, f)) \in Nat
  BY NamesFinite
<1>3. c[f] = 0 => Names(t, f) = {} /\ Roots(r, f) = {}
  BY <1>1, <1>2, FS_EmptySet
<1>4. ASSUME NEW x \in Names(t, f) PROVE c[f] >= 1
  BY <1>1, <1>2, <1>3
<1>5. ASSUME NEW x \in Names(t, f), NEW y \in Names(t, f), c[f] = 1 PROVE x = y
  <2>1. Cardinality(Names(t, f)) # 0
    BY <1>2, FS_EmptySet
  <2>2. Cardinality(Names(t, f)) = 1
    BY <1>1, <1>2, <1>5, <2>1
  <2>3. PICK z : Names(t, f) = {z}
    BY <1>2, <2>2, FS_Singleton
  <2> QED
    BY <2>3
<1>6. ASSUME NEW x \in Names(t, f), c[f] = 1 PROVE Roots(r, f) = {}
  <2>1. Cardinality(Names(t, f)) # 0
    BY <1>2, FS_EmptySet
  <2>2. Cardinality(Roots(r, f)) = 0
    BY <1>1, <1>2, <1>6, <2>1
  <2> QED
    BY <1>2, <2>2, FS_EmptySet
<1> QED
  BY <1>1, <1>2, <1>3, <1>4, <1>5, <1>6

-----------------------------------------------------------------------------
(* The allocator.                                                          *)

(* In a finite set of numbers every rank below its size is taken, once.    *)
LEMMA Ranks ==
    ASSUME NEW S, IsFiniteSet(S), S \subseteq Nat
    PROVE  /\ \A m \in S : Rank(m, S) \in 0 .. Cardinality(S) - 1
           /\ \A m, n \in S : m < n => Rank(m, S) < Rank(n, S)
           /\ \A m, n \in S : Rank(m, S) = Rank(n, S) => m = n
           /\ \A k \in 0 .. Cardinality(S) - 1 : \E m \in S : Rank(m, S) = k
<1> DEFINE below(n) == {m \in S : m < n}
<1>1. Cardinality(S) \in Nat
  BY FS_CardinalityType
<1>2. \A n : IsFiniteSet(below(n)) /\ Cardinality(below(n)) \in Nat
  BY FS_Subset, FS_CardinalityType
<1>3. ASSUME NEW n \in S PROVE Rank(n, S) \in 0 .. Cardinality(S) - 1
  <2>1. IsFiniteSet(S \ {n}) /\ Cardinality(S \ {n}) = Cardinality(S) - 1
    BY FS_RemoveElement
  <2>2. below(n) \subseteq S \ {n}
    OBVIOUS
  <2>3. Cardinality(below(n)) <= Cardinality(S) - 1
    BY <2>1, <2>2, FS_Subset
  <2> QED
    BY <1>1, <1>2, <2>3 DEF Rank
<1>4. ASSUME NEW m \in S, NEW n \in S, m < n PROVE Rank(m, S) < Rank(n, S)
  <2>1. /\ m \in Nat /\ n \in Nat /\ m \notin below(m)
        /\ \A i \in S : i \in Nat
    OBVIOUS
  <2>2. below(m) \cup {m} \subseteq below(n)
    <3> SUFFICES ASSUME NEW i \in below(m) \cup {m} PROVE i \in S /\ i < n
      OBVIOUS
    <3>1. i \in S /\ i \in Nat /\ (i < m \/ i = m)
      BY <2>1
    <3> QED
      BY <3>1, <2>1, <1>4
  <2>3. /\ IsFiniteSet(below(m)) /\ Cardinality(below(m)) \in Nat
        /\ IsFiniteSet(below(n)) /\ Cardinality(below(n)) \in Nat
    BY <1>2
  <2>4. Rank(m, S) = Cardinality(below(m)) /\ Rank(n, S) = Cardinality(below(n))
    BY DEF Rank
  <2> HIDE DEF below
  <2>5. Cardinality(below(m) \cup {m}) = Cardinality(below(m)) + 1
    BY <2>1, <2>3, FS_AddElement
  <2>6. Cardinality(below(m) \cup {m}) <= Cardinality(below(n))
    BY <2>2, <2>3, FS_Subset
  <2> QED
    BY <2>3, <2>4, <2>5, <2>6
<1>5. ASSUME NEW m \in S, NEW n \in S, Rank(m, S) = Rank(n, S) PROVE m = n
  <2>1. Rank(m, S) \in Int
    BY <1>3
  <2>2. ~(m < n) /\ ~(n < m)
    BY <1>4, <1>5, <2>1
  <2> QED
    BY <2>2
<1>6. ASSUME NEW k \in 0 .. Cardinality(S) - 1 PROVE \E m \in S : Rank(m, S) = k
  <2> DEFINE T == 0 .. Cardinality(S) - 1
             rank == [m \in S |-> Rank(m, S)]
  <2>1. IsFiniteSet(T) /\ Cardinality(T) = Cardinality(S)
    BY <1>1, FS_Interval
  <2>2. rank \in Injection(S, T)
    BY <1>3, <1>5 DEF Injection, IsInjective
  <2>3. rank \in Surjection(S, T)
    BY <2>1, <2>2, FS_Injection
  <2> QED
    BY <2>3 DEF Surjection
<1> QED
  BY <1>3, <1>4, <1>5, <1>6

(* FrameAllocate gives each page a frame of F, and no two the same.        *)
LEMMA Allocated ==
    ASSUME NEW P, IsFiniteSet(P), P \subseteq Nat, NEW F \in SUBSET Frame,
           Cardinality(P) <= Cardinality(F)
    PROVE  /\ FrameAllocate(P, F) \in [P -> F]
           /\ \A p, q \in P : FrameAllocate(P, F)[p] = FrameAllocate(P, F)[q] => p = q
<1>1. IsFiniteSet(F) /\ F \subseteq Nat
  BY Finite, FS_Subset
<1>2. Cardinality(P) \in Nat /\ Cardinality(F) \in Nat
  BY <1>1, FS_CardinalityType
<1>3. ASSUME NEW p \in P
      PROVE  /\ FrameAllocate(P, F)[p] \in F
             /\ Rank(FrameAllocate(P, F)[p], F) = Rank(p, P)
  <2>1. Rank(p, P) \in 0 .. Cardinality(P) - 1
    BY Ranks
  <2>2. Rank(p, P) \in 0 .. Cardinality(F) - 1
    BY <1>2, <2>1
  <2>3. \E f \in F : Rank(f, F) = Rank(p, P)
    BY <1>1, <2>2, Ranks
  <2> QED
    BY <2>3 DEF FrameAllocate
<1>4. ASSUME NEW p \in P, NEW q \in P, FrameAllocate(P, F)[p] = FrameAllocate(P, F)[q]
      PROVE  p = q
  <2>1. Rank(p, P) = Rank(q, P)
    BY <1>3, <1>4
  <2> QED
    BY <2>1, Ranks
<1>5. FrameAllocate(P, F) \in [P -> F]
  BY <1>3 DEF FrameAllocate
<1> QED
  BY <1>4, <1>5

(* A frame that is free is found.                                          *)
LEMMA LowestFree ==
    ASSUME NEW F \in SUBSET Frame, F # {}
    PROVE  Lowest(F) \in F
<1>1. IsFiniteSet(F) /\ F \subseteq Nat
  BY Finite, FS_Subset
<1>2. Cardinality(F) \in Nat /\ Cardinality(F) # 0
  BY <1>1, FS_CardinalityType, FS_EmptySet
<1>3. 0 \in 0 .. Cardinality(F) - 1
  BY <1>2
<1>4. PICK f \in F : Rank(f, F) = 0
  BY <1>1, <1>3, Ranks
<1>5. ASSUME NEW g \in F PROVE f <= g
  <2>1. g < f => Rank(g, F) < Rank(f, F)
    BY <1>1, Ranks
  <2>2. Rank(g, F) \in 0 .. Cardinality(F) - 1
    BY <1>1, Ranks
  <2>3. ~(g < f)
    BY <1>4, <2>1, <2>2
  <2> QED
    BY <1>1, <2>3
<1> QED
  BY <1>4, <1>5 DEF Lowest

-----------------------------------------------------------------------------
(* Steps that touch no frame's count and no table.                         *)

(* CountsExact is Exact of the current counts, tables and roots.           *)
LEMMA CountsExactIs == CountsExact <=> Exact(counts, table, root)
BY DEF CountsExact, Exact, Names, Roots

(* What a leaf entry is.                                                   *)
LEMMA LeafIs ==
    ASSUME MemInv, NEW s \in Space, NEW p \in Page
    PROVE  /\ table[s][p] \in Leaf /\ table[s][p].frame \in 0 .. Frames
           /\ table[s][p].frame # 0 =>
                 table[s][p].frame \in Frame /\ <<s, p>> \in Names(table, table[s][p].frame)
                   /\ counts[table[s][p].frame] \in Nat \ {0}
<1>1. /\ table[s][p] \in Leaf /\ table[s][p].frame \in 0 .. Frames
  BY DEF MemInv, MemoryTypeOK, Leaf
<1>2. ASSUME table[s][p].frame # 0
      PROVE  table[s][p].frame \in Frame /\ <<s, p>> \in Names(table, table[s][p].frame)
  BY <1>1, <1>2, Finite DEF Frame, Names
<1>3. ASSUME table[s][p].frame # 0
      PROVE  counts[table[s][p].frame] \in Nat \ {0}
  BY <1>2, <1>3, NamedCounts DEF MemInv
<1> QED
  BY <1>1, <1>2, <1>3

(* The processor uses what the tables of the running space say.            *)
LEMMA Translated ==
    ASSUME MemInv, NEW s \in Space, active = s, NEW p \in Page
    PROVE  Translation(p) = table[s][p]
BY DEF MemInv, Cached, Translation

(* A translation is cached as it is used.                                  *)
LEMMA CachedUsed ==
    ASSUME MemInv, NEW s \in Space, active = s, NEW p \in Page,
           tlb' = [tlb EXCEPT ![p] = Translation(p)], active' = active, table' = table
    PROVE  Cached' /\ tlb' \in [Page -> Leaf]
<1>1. Translation(p) = table[s][p] /\ table[s][p] \in Leaf
  BY Translated, LeafIs
<1>2. tlb \in [Page -> Leaf] /\ Cached
  BY DEF MemInv, MemoryTypeOK
<1> QED
  BY <1>1, <1>2 DEF Cached

(* A program that reads a page keeps the invariant.                        *)
LEMMA UserReadKeeps ==
    ASSUME MemInv, NEW s \in Space, NEW p \in Page, UserRead(s, p)
    PROVE  MemInv'
<1>1. Cached' /\ tlb' \in [Page -> Leaf]
  BY CachedUsed DEF UserRead, InUserMode, Running
<1>2. UNCHANGED <<counts, content, root, table, active, state, approved, memory, halted>>
  BY DEF UserRead
<1>3. MemoryTypeOK'
  BY <1>1, <1>2 DEF MemInv, MemoryTypeOK
<1>4. Exact(counts, table, root)'
  BY <1>2 DEF MemInv
<1> QED
  BY <1>1, <1>2, <1>3, <1>4 DEF MemInv, SlotsEmpty, WritableOwn, Waits, Reads

(* A store reaches a frame nobody else reads.                              *)
LEMMA StoreKeeps ==
    ASSUME MemInv, NEW s \in Space, NEW p \in Page, NEW v \in Word, Running(s),
           Store(s, p, v), UNCHANGED <<counts, root, table, active, state, halted>>,
           \A u \in Space : approved'[u] \in {approved[u], 0},
           approved' \in [Space -> Page \cup {0}]
    PROVE  MemInv'
<1> DEFINE f == table[s][p].frame
<1>1. Translation(p) = table[s][p] /\ active = s
  BY Translated DEF Running
<1>2. /\ content' = [content EXCEPT ![f] = v]
      /\ memory' = [memory EXCEPT ![s][p] = v]
      /\ table[s][p].writable
  BY <1>1 DEF Store
<1>3. Cached' /\ tlb' \in [Page -> Leaf]
  BY <1>1, CachedUsed DEF Store
<1>4. f # 0 /\ counts[f] = 1
  BY <1>2 DEF MemInv, WritableOwn
<1>5. f \in Frame /\ <<s, p>> \in Names(table, f)
  BY <1>4, LeafIs
<1>6. /\ content \in [Frame -> Word \cup {Scrap}]
      /\ memory \in [Space -> [Page -> Word]]
  BY DEF MemInv, MemoryTypeOK
<1>7. MemoryTypeOK'
  BY <1>2, <1>3, <1>6 DEF MemInv, MemoryTypeOK
<1>8. Reads'
  <2> SUFFICES ASSUME NEW u \in Space, NEW q \in Page, state[u] = "alive",
                      table[u][q].frame # 0
               PROVE  content'[table[u][q].frame] = memory'[u][q]
    BY DEF Reads
  <2>1. table[u][q].frame \in Frame /\ <<u, q>> \in Names(table, table[u][q].frame)
    BY LeafIs
  <2>2. content[table[u][q].frame] = memory[u][q]
    BY DEF MemInv, Reads
  <2>3. CASE table[u][q].frame = f
    <3>1. <<u, q>> = <<s, p>>
      BY <1>4, <1>5, <2>1, <2>3, NamedCounts DEF MemInv
    <3> QED
      BY <3>1, <1>2, <1>5, <1>6
  <2>4. CASE table[u][q].frame # f
    <3>1. ~(u = s /\ q = p)
      BY <2>4
    <3> QED
      BY <3>1, <2>1, <2>2, <2>4, <1>2, <1>6
  <2> QED
    BY <2>3, <2>4
<1>9. Waits'
  BY DEF MemInv, Waits
<1>10. SlotsEmpty' /\ WritableOwn' /\ Exact(counts, table, root)'
  BY DEF MemInv, SlotsEmpty, WritableOwn
<1> QED
  BY <1>3, <1>7, <1>8, <1>9, <1>10 DEF MemInv

(* A program that writes a page it may write keeps the invariant: the      *)
(* frame is its own.                                                       *)
LEMMA UserWriteKeeps ==
    ASSUME MemInv, NEW s \in Space, NEW p \in Page, NEW v \in Word, UserWrite(s, p, v)
    PROVE  MemInv'
BY StoreKeeps DEF UserWrite, InUserMode, MemInv, MemoryTypeOK

(* A call that writes its answer into the approved page keeps the          *)
(* invariant.                                                              *)
LEMMA AnswerKeeps ==
    ASSUME MemInv, NEW s \in Space, NEW v \in Word, Answer(s, v)
    PROVE  MemInv'
<1>1. approved \in [Space -> Page \cup {0}] /\ approved[s] \in Page
  BY DEF MemInv, MemoryTypeOK, Answer
<1>2. /\ Running(s) /\ Store(s, approved[s], v)
      /\ approved' = [approved EXCEPT ![s] = 0]
      /\ UNCHANGED <<counts, root, table, active, state, halted>>
  BY DEF Answer
<1>3. /\ \A u \in Space : approved'[u] \in {approved[u], 0}
      /\ approved' \in [Space -> Page \cup {0}]
  BY <1>1, <1>2
<1> QED
  BY <1>1, <1>2, <1>3, StoreKeeps

(* A switch of address space keeps the invariant.                          *)
LEMMA SwitchToKeeps ==
    ASSUME MemInv, NEW x \in Space \cup {Kernel}, SwitchTo(x)
    PROVE  MemInv'
<1>1. /\ active' = x /\ tlb' = Empty
      /\ UNCHANGED <<counts, content, root, table, state, approved, memory, halted>>
  BY DEF SwitchTo, Flushed
<1>2. tlb' \in [Page -> Leaf] /\ Cached'
  BY <1>1, Finite DEF Empty, Absent, Leaf, Cached
<1>3. MemoryTypeOK'
  BY <1>1, <1>2 DEF MemInv, MemoryTypeOK
<1> QED
  BY <1>1, <1>2, <1>3 DEF MemInv, SlotsEmpty, WritableOwn, Waits, Reads

(* A process that exits, having left its space first, keeps the invariant. *)
LEMMA ProcessExitKeeps ==
    ASSUME MemInv, NEW s \in Space, ProcessExit(s)
    PROVE  MemInv'
<1>1. /\ state' = [state EXCEPT ![s] = "ended"] /\ approved' = [approved EXCEPT ![s] = 0]
      /\ UNCHANGED <<counts, content, root, table, active, tlb, memory, halted>>
  BY DEF ProcessExit
<1>2. /\ state \in [Space -> {"unused", "alive", "ended"}]
      /\ approved \in [Space -> Page \cup {0}]
  BY DEF MemInv, MemoryTypeOK
<1>3. MemoryTypeOK'
  BY <1>1, <1>2 DEF MemInv, MemoryTypeOK
<1>4. \A u \in Space : /\ state'[u] = "alive" => state[u] = "alive"
                       /\ state'[u] = "unused" => state[u] = "unused"
                       /\ approved'[u] # 0 => approved'[u] = approved[u] /\ state'[u] = state[u]
  BY <1>1, <1>2
<1>5. SlotsEmpty' /\ Waits' /\ Reads'
  BY <1>1, <1>4 DEF MemInv, SlotsEmpty, Waits, Reads
<1> QED
  BY <1>1, <1>3, <1>5 DEF MemInv, WritableOwn, Cached

-----------------------------------------------------------------------------
(* Copy on write.                                                          *)

(* One leaf of a space gives way to another.                               *)
LEMMA LeafReplaced ==
    ASSUME NEW leaves \in [Page -> Leaf], NEW p \in Page, NEW e \in Leaf, NEW f \in Frame,
           NEW new, new = [leaves EXCEPT ![p] = e]
    PROVE  Cardinality(Row(new, f)) + Is(leaves[p].frame, f)
             = Cardinality(Row(leaves, f)) + Is(e.frame, f)
<1> DEFINE others == {q \in Row(leaves, f) : q # p}
<1>1. IsFiniteSet(others) /\ Cardinality(others) \in Nat
  <2>1. IsFiniteSet(others)
    BY NamesFinite, FS_Subset
  <2> QED
    BY <2>1, FS_CardinalityType
<1>2. Cardinality(others \cup {p}) = Cardinality(others) + 1
  BY <1>1, FS_AddElement
<1>3. Row(leaves, f) = IF leaves[p].frame = f THEN others \cup {p} ELSE others
  BY DEF Row
<1>4. Row(new, f) = IF e.frame = f THEN others \cup {p} ELSE others
  BY DEF Row
<1> HIDE DEF others
<1> QED
  BY <1>1, <1>2, <1>3, <1>4 DEF Is

(* The fault that copies, or keeps the frame of a sole owner.              *)
LEMMA ResolveKeeps ==
    ASSUME MemInv, NEW s \in Space, NEW p \in Page, InUserMode(s),
           Resolvable(table[s][p]), Resolve(s, p),
           UNCHANGED <<root, active, state, memory, halted>>
    PROVE  /\ Exact(counts, table, root)' /\ SlotsEmpty' /\ WritableOwn' /\ Cached' /\ Reads'
           /\ counts' \in [Frame -> Nat] /\ content' \in [Frame -> Word \cup {Scrap}]
           /\ table' \in Tables /\ tlb' \in [Page -> Leaf]
           /\ table'[s][p].writable
           /\ \A u \in Space : u # s => table'[u] = table[u]
<1> DEFINE e == table[s][p]
           old == e.frame
           fresh == IF OwnedAlone(e) THEN old ELSE Lowest(Free(counts))
           leaf == [frame |-> fresh, writable |-> TRUE, cow |-> FALSE]
<1>1. /\ MemoryTypeOK /\ Exact(counts, table, root) /\ SlotsEmpty
      /\ WritableOwn /\ Cached /\ Waits /\ Reads
  BY DEF MemInv
<1>2. /\ active = s /\ state[s] = "alive" /\ approved[s] = 0
  BY DEF InUserMode, Running
<1>3. /\ table' = [table EXCEPT ![s][p] = leaf]
      /\ content' = [content EXCEPT ![fresh] = content[old]]
      /\ counts' = [f \in Frame |->
                CASE OwnedAlone(e) -> counts[f]
                  [] ~OwnedAlone(e) /\ f = fresh -> 1
                  [] ~OwnedAlone(e) /\ f = old -> counts[f] - 1
                  [] OTHER -> counts[f]]
      /\ tlb' = Invalidated({p})
  BY DEF Resolve
<1>4. old \in Frame /\ <<s, p>> \in Names(table, old) /\ counts[old] \in Nat \ {0}
  BY LeafIs DEF Resolvable
<1>5. /\ OwnedAlone(e) => fresh = old /\ counts[old] = 1
      /\ ~OwnedAlone(e) => /\ fresh \in Frame /\ counts[fresh] = 0 /\ fresh # old
                           /\ counts[old] >= 2
  <2>1. OwnedAlone(e) => fresh = old /\ counts[old] = 1
    BY <1>4 DEF OwnedAlone
  <2>2. ASSUME ~OwnedAlone(e)
        PROVE  fresh \in Free(counts) /\ counts[old] >= 2
    <3>1. counts[old] >= 2 /\ ~(counts[old] <= 1)
      BY <1>4, <2>2 DEF OwnedAlone
    <3>2. Free(counts) # {} /\ Free(counts) \in SUBSET Frame
      BY <3>1 DEF Resolvable, Free
    <3> QED
      BY <2>2, <3>1, <3>2, LowestFree
  <2>3. \A f \in Free(counts) : f \in Frame /\ counts[f] = 0
    BY DEF Free
  <2> QED
    BY <2>1, <2>2, <2>3
<1>6. fresh \in Frame /\ fresh # 0
  BY <1>4, <1>5, Finite
<1>7. /\ counts \in [Frame -> Nat] /\ content \in [Frame -> Word \cup {Scrap}]
      /\ table \in Tables /\ tlb \in [Page -> Leaf]
      /\ approved \in [Space -> Page \cup {0}]
  BY <1>1 DEF MemoryTypeOK, Tables
<1> HIDE DEF fresh
<1>8. leaf \in Leaf /\ leaf.frame = fresh /\ leaf.writable
  BY <1>6, Finite DEF Leaf, Frame
<1> HIDE DEF leaf
<1> DEFINE leaves == [table[s] EXCEPT ![p] = leaf]
<1>9. leaves \in [Page -> Leaf] /\ table' = [table EXCEPT ![s] = leaves] /\ table' \in Tables
  BY <1>3, <1>7, <1>8 DEF Tables
<1>10. /\ table'[s][p] = leaf
       /\ \A u \in Space, q \in Page : ~(u = s /\ q = p) => table'[u][q] = table[u][q]
  BY <1>3, <1>7 DEF Tables
<1>11. ASSUME NEW f \in Frame
       PROVE  counts'[f] = IF OwnedAlone(e) THEN counts[f] ELSE
                             IF f = fresh THEN 1 ELSE
                               IF f = old THEN counts[f] - 1 ELSE counts[f]
  <2> HIDE DEF e, old
  <2>1. CASE OwnedAlone(e)
    BY <1>3, <2>1
  <2>2. CASE ~OwnedAlone(e)
    BY <1>3, <1>5, <2>2
  <2> QED
    BY <2>1, <2>2
<1>12. Exact(counts, table, root)'
  <2>1. ASSUME NEW f \in Frame
        PROVE  counts'[f] \in Int /\ counts'[f] + Cardinality(Row(table[s], f))
                                      = counts[f] + Cardinality(Row(leaves, f))
    <3>1. table[s] \in [Page -> Leaf]
      BY <1>7 DEF Tables
    <3>2. Cardinality(Row(leaves, f)) + Is(old, f) = Cardinality(Row(table[s], f)) + Is(fresh, f)
      BY <3>1, <1>8, LeafReplaced
    <3>3. /\ Cardinality(Row(table[s], f)) \in Nat /\ Cardinality(Row(leaves, f)) \in Nat
      BY NamesFinite
    <3> HIDE DEF leaves, old, e
    <3>4. CASE OwnedAlone(e)
      BY <3>2, <3>3, <3>4, <1>5, <1>7, <1>11 DEF Is
    <3>5. CASE ~OwnedAlone(e)
      BY <3>2, <3>3, <3>5, <1>5, <1>7, <1>11 DEF Is
    <3> QED
      BY <3>4, <3>5
  <2>2. FollowsRow(counts, counts', table[s], leaves)
    BY <2>1 DEF FollowsRow
  <2> HIDE DEF leaves
  <2>3. Exact(counts', table', root)
    BY <1>1, <1>7, <1>9, <2>2, RowExact
  <2> QED
    BY <2>3
<1>13. ASSUME NEW f \in Frame PROVE counts'[f] \in Nat
  <2>1. counts'[f] = Cardinality(Names(table', f)) + Cardinality(Roots(root', f))
    BY <1>12 DEF Exact
  <2> QED
    BY <2>1, NamesFinite
<1> HIDE DEF leaves, old, e
<1>14. counts' \in [Frame -> Nat]
  BY <1>3, <1>13
<1>15. content' \in [Frame -> Word \cup {Scrap}]
  BY <1>3, <1>4, <1>7
<1>16. tlb' \in [Page -> Leaf] /\ Cached'
  <2>1. tlb' = [q \in Page |-> IF q = p THEN Absent ELSE tlb[q]]
    BY <1>3 DEF Invalidated
  <2>2. Absent \in Leaf
    BY Finite DEF Absent, Leaf
  <2>3. tlb' \in [Page -> Leaf]
    BY <1>7, <2>1, <2>2
  <2> QED
    BY <1>1, <1>2, <1>10, <2>1, <2>3 DEF Cached
<1>19. SlotsEmpty'
  BY <1>1, <1>2, <1>7, <1>9 DEF SlotsEmpty, Tables
<1>20. WritableOwn'
  <2> SUFFICES ASSUME NEW u \in Space, NEW q \in Page, table'[u][q].writable
               PROVE  table'[u][q].frame # 0 /\ counts'[table'[u][q].frame] = 1
    BY DEF WritableOwn
  <2>1. CASE u = s /\ q = p
    BY <2>1, <1>5, <1>6, <1>8, <1>10, <1>11
  <2>2. CASE ~(u = s /\ q = p)
    <3>1. table'[u][q] = table[u][q]
      BY <2>2, <1>10
    <3>2. /\ table[u][q].frame # 0 /\ counts[table[u][q].frame] = 1
          /\ table[u][q].frame \in Frame
      BY <3>1, <1>1, LeafIs DEF WritableOwn
    <3> QED
      BY <3>1, <3>2, <1>5, <1>11
  <2> QED
    BY <2>1, <2>2
<1>21. table'[s][p].writable /\ \A u \in Space : u # s => table'[u] = table[u]
  BY <1>7, <1>8, <1>9, <1>10 DEF Tables
<1>22. Reads'
  <2> SUFFICES ASSUME NEW u \in Space, NEW q \in Page, state[u] = "alive",
                      table'[u][q].frame # 0
               PROVE  content'[table'[u][q].frame] = memory[u][q]
    BY DEF Reads
  <2>1. content[old] = memory[s][p]
    BY <1>1, <1>2, <1>4, Finite DEF Reads, old, e
  <2>2. CASE u = s /\ q = p
    BY <2>1, <2>2, <1>3, <1>6, <1>7, <1>8, <1>10
  <2>3. CASE ~(u = s /\ q = p)
    <3>0. table'[u][q] = table[u][q] /\ table[u][q].frame # 0
      BY <2>3, <1>10
    <3>1. /\ table'[u][q] = table[u][q] /\ table[u][q].frame \in Frame
          /\ counts[table[u][q].frame] # 0
          /\ content[table[u][q].frame] = memory[u][q]
      BY <3>0, <1>1, LeafIs DEF Reads
    <3>2. table[u][q].frame # fresh \/ fresh = old
      BY <3>1, <1>5
    <3> QED
      BY <3>1, <3>2, <1>3, <1>7
  <2> QED
    BY <2>2, <2>3
<1> QED
  BY <1>9, <1>12, <1>14, <1>15, <1>16, <1>19, <1>20, <1>21, <1>22

(* The write fault keeps the invariant in each of its outcomes: page made  *)
(* writable, copied, or no frame.                                          *)
LEMMA WriteFaultKeeps ==
    ASSUME MemInv, NEW s \in Space, NEW p \in Page, WriteFault(s, p)
    PROVE  MemInv'
<1>0. /\ InUserMode(s) /\ UNCHANGED <<root, active, approved, memory, halted>>
      /\ approved[s] = 0 /\ MemoryTypeOK /\ Waits
  BY DEF WriteFault, InUserMode, MemInv
<1>1. CASE Resolvable(table[s][p]) /\ Resolve(s, p) /\ state' = state
  <2>1. /\ Exact(counts, table, root)' /\ SlotsEmpty' /\ WritableOwn' /\ Cached' /\ Reads'
        /\ counts' \in [Frame -> Nat] /\ content' \in [Frame -> Word \cup {Scrap}]
        /\ table' \in Tables /\ tlb' \in [Page -> Leaf]
        /\ \A u \in Space : u # s => table'[u] = table[u]
    BY <1>0, <1>1, ResolveKeeps
  <2>2. MemoryTypeOK'
    BY <1>0, <1>1, <2>1 DEF MemoryTypeOK, Tables
  <2>3. Waits'
    BY <1>0, <1>1, <2>1 DEF Waits
  <2> QED
    BY <2>1, <2>2, <2>3 DEF MemInv
<1>2. CASE state' = [state EXCEPT ![s] = "ended"]
             /\ UNCHANGED <<table, content, counts, tlb>>
  <2>2. state \in [Space -> {"unused", "alive", "ended"}]
    BY DEF MemInv, MemoryTypeOK
  <2>3. MemoryTypeOK'
    BY <1>0, <1>2, <2>2 DEF MemoryTypeOK
  <2>4. \A u \in Space : /\ state'[u] = "alive" => state[u] = "alive"
                         /\ state'[u] = "unused" => state[u] = "unused"
                         /\ u # s => state'[u] = state[u]
    BY <1>2, <2>2
  <2>5. SlotsEmpty' /\ Waits' /\ Reads'
    BY <1>0, <1>2, <2>4 DEF MemInv, SlotsEmpty, Waits, Reads
  <2> QED
    BY <1>0, <1>2, <2>3, <2>5 DEF MemInv, WritableOwn, Cached
<1> QED
  BY <1>1, <1>2 DEF WriteFault

(* The check of a pointer before a call uses it keeps the invariant.       *)
LEMMA JudgeKeeps ==
    ASSUME MemInv, NEW s \in Space, NEW p \in Page, Judge(s, p)
    PROVE  MemInv'
<1>0. /\ InUserMode(s) /\ UNCHANGED <<root, active, state, memory, halted>>
      /\ approved' = [approved EXCEPT ![s] = p] /\ state[s] = "alive"
      /\ approved \in [Space -> Page \cup {0}] /\ MemoryTypeOK /\ Waits
  BY DEF Judge, InUserMode, Running, MemInv, MemoryTypeOK
<1>1. CASE Resolvable(table[s][p]) /\ Resolve(s, p)
  <2>1. /\ Exact(counts, table, root)' /\ SlotsEmpty' /\ WritableOwn' /\ Cached' /\ Reads'
        /\ counts' \in [Frame -> Nat] /\ content' \in [Frame -> Word \cup {Scrap}]
        /\ table' \in Tables /\ tlb' \in [Page -> Leaf]
        /\ table'[s][p].writable
        /\ \A u \in Space : u # s => table'[u] = table[u]
    BY <1>0, <1>1, ResolveKeeps
  <2>2. MemoryTypeOK'
    BY <1>0, <2>1 DEF MemoryTypeOK, Tables
  <2>3. Waits'
    BY <1>0, <2>1 DEF Waits
  <2> QED
    BY <2>1, <2>2, <2>3 DEF MemInv
<1>2. CASE table[s][p].writable /\ UNCHANGED <<table, content, counts, tlb>>
  <2>3. MemoryTypeOK'
    BY <1>0, <1>2 DEF MemoryTypeOK
  <2>4. Waits'
    BY <1>0, <1>2 DEF Waits
  <2> QED
    BY <1>0, <1>2, <2>3, <2>4 DEF MemInv, SlotsEmpty, WritableOwn, Cached, Reads
<1> QED
  BY <1>1, <1>2 DEF Judge

-----------------------------------------------------------------------------
(* Whole spaces.                                                           *)

(* Rows in which a frame does not occur.                                   *)
LEMMA EmptyRow ==
    ASSUME NEW f \in Frame
    PROVE  Empty \in [Page -> Leaf] /\ Row(Empty, f) = {} /\ Cardinality(Row(Empty, f)) = 0
<1>1. Empty \in [Page -> Leaf]
  BY Finite DEF Empty, Absent, Leaf
<1>2. Row(Empty, f) = {}
  BY Finite DEF Row, Empty, Absent
<1> QED
  BY <1>1, <1>2, FS_EmptySet

(* A frame without references is named by no leaf and is no root.          *)
LEMMA FreeRow ==
    ASSUME MemInv, NEW s \in Space, NEW f \in Frame, counts[f] = 0
    PROVE  Row(table[s], f) = {} /\ Cardinality(Row(table[s], f)) = 0 /\ root[s] # f
<1>1. Names(table, f) = {} /\ Roots(root, f) = {}
  BY NamedCounts DEF MemInv
<1>2. Row(table[s], f) = {}
  <2> SUFFICES ASSUME NEW p \in Row(table[s], f) PROVE FALSE
    OBVIOUS
  <2>1. <<s, p>> \in Names(table, f)
    BY DEF Row, Names
  <2> QED
    BY <1>1, <2>1
<1>3. root[s] # f
  BY <1>1 DEF Roots
<1> QED
  BY <1>2, <1>3, FS_EmptySet

(* AddressSpaceReleaseStructure leaves the counts of what remains.         *)
LEMMA Released ==
    ASSUME MemInv, NEW s \in Space
    PROVE  Exact(FrameFree(counts, root[s], table[s]),
                 [table EXCEPT ![s] = Empty], [root EXCEPT ![s] = 0])
<1> DEFINE mid == [f \in Frame |-> counts[f] - Cardinality(Row(table[s], f))]
           end == FrameFree(counts, root[s], table[s])
<1>1. /\ Exact(counts, table, root) /\ table \in Tables /\ table[s] \in [Page -> Leaf]
      /\ counts \in [Frame -> Nat] /\ root \in [Space -> 0 .. Frames]
  BY DEF MemInv, MemoryTypeOK, Tables
<1>2. \A f \in Frame : Cardinality(Row(table[s], f)) \in Nat
  BY NamesFinite
<1>3. FollowsRow(counts, mid, table[s], Empty)
  BY <1>1, <1>2, EmptyRow DEF FollowsRow
<1>4. Empty \in [Page -> Leaf] /\ 0 \in 0 .. Frames
  BY Finite DEF Empty, Absent, Leaf
<1> HIDE DEF mid
<1>5. Exact(mid, [table EXCEPT ![s] = Empty], root)
  BY <1>1, <1>3, <1>4, RowExact
<1>6. FollowsRoot(mid, end, root[s], 0)
  <2> SUFFICES ASSUME NEW f \in Frame
               PROVE  end[f] \in Int /\ end[f] + Is(root[s], f) = mid[f] + Is(0, f)
    BY DEF FollowsRoot
  <2>1. end[f] = mid[f] - Is(root[s], f)
    BY DEF FrameFree, Row, Is, mid
  <2>2. mid[f] \in Int
    BY <1>1, <1>2 DEF mid
  <2>3. Is(0, f) = 0 /\ Is(root[s], f) \in {0, 1}
    BY Finite DEF Is
  <2> QED
    BY <2>1, <2>2, <2>3
<1> HIDE DEF end
<1>7. Exact(end, [table EXCEPT ![s] = Empty], [root EXCEPT ![s] = 0])
  BY <1>1, <1>4, <1>5, <1>6, RootExact
<1> QED
  BY <1>7 DEF end

(* Frames of which each page of P is given its own.                        *)
LEMMA Assigned ==
    ASSUME NEW P \in SUBSET Page, NEW g \in [P -> Frame],
           \A p, q \in P : g[p] = g[q] => p = q,
           NEW leaves \in [Page -> Leaf],
           \A p \in P : leaves[p].frame = g[p],
           \A p \in Page \ P : leaves[p].frame = 0,
           NEW f \in Frame
    PROVE  Cardinality(Row(leaves, f)) = IF f \in Taken(g, P) THEN 1 ELSE 0
<1>0. f # 0
  BY Finite
<1>1. CASE f \in Taken(g, P)
  <2>1. PICK p \in P : g[p] = f
    BY <1>1 DEF Taken
  <2>2. Row(leaves, f) = {p}
    BY <1>0, <2>1 DEF Row
  <2> QED
    BY <1>1, <2>2, FS_Singleton
<1>2. CASE f \notin Taken(g, P)
  <2>1. Row(leaves, f) = {}
    BY <1>0, <1>2 DEF Row, Taken
  <2> QED
    BY <1>2, <2>1, FS_EmptySet
<1> QED
  BY <1>1, <1>2

(* What the frames hold after frames were freed and taken.                 *)
LEMMA ClearedIs ==
    ASSUME MemInv, NEW refs \in [Frame -> Nat], NEW F
    PROVE  /\ Cleared(refs, F) \in [Frame -> Word \cup {Scrap}]
           /\ \A f \in Frame : f \in F => Cleared(refs, F)[f] = 0
           /\ \A f \in Frame : f \notin F /\ refs[f] # 0 => Cleared(refs, F)[f] = content[f]
<1>1. content \in [Frame -> Word \cup {Scrap}] /\ 0 \in Word
  BY MemoryAssumption DEF MemInv, MemoryTypeOK
<1>2. ASSUME NEW f \in Frame
      PROVE  Cleared(refs, F)[f] = IF f \in F THEN 0 ELSE
                                     IF refs[f] = 0 THEN Scrap ELSE content[f]
  BY DEF Cleared
<1>3. \A f \in Frame : Cleared(refs, F)[f] \in Word \cup {Scrap}
  BY <1>1, <1>2
<1>4. Cleared(refs, F) = [f \in Frame |-> Cleared(refs, F)[f]]
  BY DEF Cleared
<1>5. Cleared(refs, F) \in [Frame -> Word \cup {Scrap}]
  BY <1>3, <1>4
<1> QED
  BY <1>2, <1>5

(* Exact counts are natural numbers.                                       *)
LEMMA ExactNat ==
    ASSUME NEW c, NEW t, NEW r, Exact(c, t, r), c = [f \in Frame |-> c[f]]
    PROVE  c \in [Frame -> Nat]
<1>1. \A f \in Frame : c[f] \in Nat
  BY NamedCounts
<1> QED
  BY <1>1

(* An entry the step leaves alone still reads what its process wrote.      *)
LEMMA StillReads ==
    ASSUME MemInv, NEW c \in [Frame -> Nat], NEW t, NEW r, Exact(c, t, r), NEW F,
           NEW u \in Space, NEW q \in Page, state[u] = "alive", table[u][q].frame # 0,
           t[u][q].frame = table[u][q].frame, table[u][q].frame \notin F
    PROVE  Cleared(c, F)[t[u][q].frame] = memory[u][q]
<1> DEFINE g == table[u][q].frame
<1>1. g \in Frame /\ content[g] = memory[u][q]
  BY LeafIs DEF MemInv, Reads
<1>2. <<u, q>> \in Names(t, g)
  BY DEF Names
<1>3. c[g] # 0
  BY <1>1, <1>2, NamedCounts
<1> QED
  BY <1>1, <1>3, ClearedIs

(* Destroying the space of an ended process keeps the invariant.           *)
LEMMA ReapKeeps ==
    ASSUME MemInv, NEW t \in Space, Reap(t)
    PROVE  MemInv'
<1>1. /\ counts' = FrameFree(counts, root[t], table[t])
      /\ root' = [root EXCEPT ![t] = 0]
      /\ table' = [table EXCEPT ![t] = Empty]
      /\ state' = [state EXCEPT ![t] = "unused"]
      /\ memory' = [memory EXCEPT ![t] = [p \in Page |-> 0]]
      /\ content' = Cleared(counts', {})
      /\ UNCHANGED <<active, tlb, approved, halted>>
      /\ active # t /\ state[t] = "ended"
  BY DEF Reap
<1>2. /\ MemoryTypeOK /\ SlotsEmpty /\ WritableOwn /\ Cached /\ Waits /\ Reads
      /\ table \in Tables /\ state \in [Space -> {"unused", "alive", "ended"}]
      /\ counts \in [Frame -> Nat] /\ root \in [Space -> 0 .. Frames]
      /\ memory \in [Space -> [Page -> Word]]
  BY DEF MemInv, MemoryTypeOK, Tables
<1>3. Exact(counts, table, root)'
  <2>1. Exact(counts', table', root')
    BY <1>1, Released
  <2> QED
    BY <2>1
<1>4. counts' \in [Frame -> Nat]
  <2>1. counts' = [f \in Frame |-> counts'[f]]
    BY <1>1 DEF FrameFree
  <2> QED
    BY <1>3, <2>1, ExactNat
<1>5. content' \in [Frame -> Word \cup {Scrap}]
  BY <1>1, <1>4, ClearedIs
<1>6. Empty \in [Page -> Leaf] /\ \A p \in Page : Empty[p].frame = 0 /\ ~Empty[p].writable
  BY Finite DEF Empty, Absent, Leaf
<1>7. MemoryTypeOK'
  <2>1. 0 \in Word /\ 0 \in 0 .. Frames
    BY MemoryAssumption
  <2> QED
    BY <1>1, <1>2, <1>4, <1>5, <1>6, <2>1 DEF MemoryTypeOK, Tables
<1>8. \A u \in Space : u # t => /\ table'[u] = table[u] /\ state'[u] = state[u]
                                /\ root'[u] = root[u] /\ memory'[u] = memory[u]
  BY <1>1, <1>2 DEF Tables
<1>9. table'[t] = Empty /\ state'[t] = "unused" /\ root'[t] = 0
  BY <1>1, <1>2 DEF Tables
<1>10. SlotsEmpty' /\ Cached' /\ Waits'
  BY <1>1, <1>2, <1>8, <1>9 DEF SlotsEmpty, Cached, Waits
<1>11. WritableOwn'
  <2> SUFFICES ASSUME NEW u \in Space, NEW q \in Page, table'[u][q].writable
               PROVE  table'[u][q].frame # 0 /\ counts'[table'[u][q].frame] = 1
    BY DEF WritableOwn
  <2> DEFINE g == table[u][q].frame
  <2>1. u # t /\ table'[u] = table[u]
    BY <1>6, <1>8, <1>9
  <2>2. g \in Frame /\ counts[g] = 1 /\ g # 0
    BY <2>1, <1>2, LeafIs DEF WritableOwn
  <2>3. <<u, q>> \in Names(table', g)
    BY <2>1 DEF Names
  <2>4. counts'[g] \in Nat /\ counts'[g] >= 1
    BY <1>3, <2>2, <2>3, NamedCounts
  <2>5. counts'[g] = counts[g] - Cardinality(Row(table[t], g)) - Is(g, root[t])
    BY <1>1, <2>2 DEF FrameFree, Row, Is
  <2>6. Cardinality(Row(table[t], g)) \in Nat /\ Is(g, root[t]) \in {0, 1}
    BY NamesFinite DEF Is
  <2> HIDE DEF g
  <2>7. counts'[g] = 1
    BY <2>2, <2>4, <2>5, <2>6
  <2> QED
    BY <2>1, <2>2, <2>7 DEF g
<1>12. Reads'
  <2> SUFFICES ASSUME NEW u \in Space, NEW q \in Page, state'[u] = "alive",
                      table'[u][q].frame # 0
               PROVE  content'[table'[u][q].frame] = memory'[u][q]
    BY DEF Reads
  <2>1. u # t /\ table'[u] = table[u] /\ state[u] = "alive" /\ memory'[u] = memory[u]
    BY <1>8, <1>9
  <2>2. Exact(counts', table', root')
    BY <1>3
  <2>3. Cleared(counts', {})[table'[u][q].frame] = memory[u][q]
    BY <1>4, <2>1, <2>2, StillReads
  <2> QED
    BY <1>1, <2>1, <2>3
<1> QED
  BY <1>3, <1>7, <1>10, <1>11, <1>12 DEF MemInv

(* An entry that stays writable, of a frame whose count did not rise, is   *)
(* still the only one.                                                     *)
LEMMA StillOwn ==
    ASSUME MemInv, NEW c, NEW t, NEW r, Exact(c, t, r),
           NEW u \in Space, NEW q \in Page, t[u][q] = table[u][q], table[u][q].writable,
           c[table[u][q].frame] <= counts[table[u][q].frame]
    PROVE  t[u][q].frame # 0 /\ c[t[u][q].frame] = 1
<1> DEFINE g == table[u][q].frame
<1>1. g \in Frame /\ counts[g] = 1 /\ g # 0
  BY LeafIs DEF MemInv, WritableOwn
<1>2. <<u, q>> \in Names(t, g)
  BY DEF Names
<1>3. c[g] \in Nat /\ c[g] >= 1
  BY <1>1, <1>2, NamedCounts
<1> QED
  BY <1>1, <1>3

(* Lowering the break keeps the invariant.                                 *)
LEMMA ShrinkBreakKeeps ==
    ASSUME MemInv, NEW s \in Space, NEW p \in BreakPages, ShrinkBreak(s, p)
    PROVE  MemInv'
<1> DEFINE less == {q \in Established(s) : q >= p}
           new == [q \in Page |-> IF q \in less THEN Absent ELSE table[s][q]]
           gone == [q \in Page |-> IF q \in less THEN table[s][q] ELSE Absent]
<1>1. /\ table' = [table EXCEPT ![s] = new]
      /\ counts' = FrameFree(counts, 0, gone)
      /\ content' = Cleared(counts', {})
      /\ memory' = [memory EXCEPT ![s] = [q \in Page |->
                IF q \in less THEN 0 ELSE memory[s][q]]]
      /\ tlb' = Invalidated(less)
      /\ UNCHANGED <<root, active, state, approved, halted>>
      /\ active = s /\ approved[s] = 0 /\ state[s] = "alive"
  BY DEF ShrinkBreak, InUserMode, Running
<1>2. /\ MemoryTypeOK /\ SlotsEmpty /\ WritableOwn /\ Cached /\ Waits /\ Reads
      /\ table \in Tables /\ state \in [Space -> {"unused", "alive", "ended"}]
      /\ counts \in [Frame -> Nat] /\ root \in [Space -> 0 .. Frames]
      /\ memory \in [Space -> [Page -> Word]] /\ Exact(counts, table, root)
      /\ tlb \in [Page -> Leaf]
  BY DEF MemInv, MemoryTypeOK, Tables
<1> HIDE DEF less
<1>3. Absent \in Leaf /\ Absent.frame = 0 /\ ~Absent.writable
  BY Finite DEF Absent, Leaf
<1>4. new \in [Page -> Leaf] /\ table[s] \in [Page -> Leaf]
  BY <1>2, <1>3 DEF Tables
<1>5. ASSUME NEW f \in Frame
      PROVE  /\ counts'[f] = counts[f] - Cardinality(Row(gone, f))
             /\ Cardinality(Row(table[s], f)) = Cardinality(Row(new, f)) + Cardinality(Row(gone, f))
             /\ Cardinality(Row(new, f)) \in Nat /\ Cardinality(Row(gone, f)) \in Nat
  <2>1. f # 0
    BY Finite
  <2>2. Row(table[s], f) = Row(new, f) \cup Row(gone, f) /\ Row(new, f) \cap Row(gone, f) = {}
    BY <1>3, <2>1 DEF Row
  <2>3. /\ IsFiniteSet(Row(new, f)) /\ IsFiniteSet(Row(gone, f))
        /\ Cardinality(Row(new, f)) \in Nat /\ Cardinality(Row(gone, f)) \in Nat
    BY NamesFinite
  <2>4. counts'[f] = counts[f] - Cardinality(Row(gone, f)) - 0
    BY <1>1, <2>1 DEF FrameFree, Row
  <2>5. Cardinality(Row(new, f) \cap Row(gone, f)) = 0
    BY <2>2, FS_EmptySet
  <2> HIDE DEF new, gone
  <2>6. Cardinality(Row(new, f) \cup Row(gone, f))
          = Cardinality(Row(new, f)) + Cardinality(Row(gone, f))
              - Cardinality(Row(new, f) \cap Row(gone, f))
    BY <2>3, FS_Union
  <2>7. counts[f] \in Nat
    BY <1>2
  <2> QED
    BY <2>2, <2>3, <2>4, <2>5, <2>6, <2>7
<1>6. FollowsRow(counts, counts', table[s], new)
  <2> SUFFICES ASSUME NEW f \in Frame
               PROVE  counts'[f] \in Int /\ counts'[f] + Cardinality(Row(table[s], f))
                                              = counts[f] + Cardinality(Row(new, f))
    BY DEF FollowsRow
  <2>1. counts[f] \in Nat
    BY <1>2
  <2> HIDE DEF new, gone
  <2> QED
    BY <1>5, <2>1
<1>7. \A q \in Page : /\ new[q] = IF q \in less THEN Absent ELSE table[s][q]
                      /\ memory'[s][q] = IF q \in less THEN 0 ELSE memory[s][q]
  BY <1>1, <1>2
<1> HIDE DEF new
<1>8. Exact(counts, table, root)'
  <2>1. Exact(counts', table', root)
    BY <1>1, <1>2, <1>4, <1>6, RowExact
  <2> QED
    BY <1>1, <2>1
<1>9. counts' \in [Frame -> Nat]
  <2>1. counts' = [f \in Frame |-> counts'[f]]
    BY <1>1 DEF FrameFree
  <2> QED
    BY <1>8, <2>1, ExactNat
<1>10. content' \in [Frame -> Word \cup {Scrap}]
  BY <1>1, <1>9, ClearedIs
<1>11. tlb' \in [Page -> Leaf] /\ memory' \in [Space -> [Page -> Word]] /\ table' \in Tables
  <2>1. 0 \in Word
    BY MemoryAssumption
  <2> QED
    BY <1>1, <1>2, <1>3, <1>4, <2>1 DEF Invalidated, Tables
<1>12. MemoryTypeOK'
  BY <1>1, <1>2, <1>9, <1>10, <1>11 DEF MemoryTypeOK, Tables
<1>13. /\ \A u \in Space : u # s => table'[u] = table[u] /\ memory'[u] = memory[u]
       /\ table'[s] = new
  BY <1>1, <1>2 DEF Tables
<1>14. SlotsEmpty' /\ Cached' /\ Waits'
  <2>1. Cached'
    BY <1>1, <1>2, <1>7, <1>13 DEF Cached, Invalidated
  <2> QED
    BY <1>1, <1>2, <1>13, <2>1 DEF SlotsEmpty, Waits
<1>15. \A u \in Space, q \in Page : ~(u = s /\ q \in less) =>
          table'[u][q] = table[u][q] /\ memory'[u][q] = memory[u][q]
  BY <1>7, <1>13
<1>16. \A q \in Page : q \in less => table'[s][q] = Absent
  BY <1>7, <1>13
<1>17. WritableOwn'
  <2> SUFFICES ASSUME NEW u \in Space, NEW q \in Page, table'[u][q].writable
               PROVE  table'[u][q].frame # 0 /\ counts'[table'[u][q].frame] = 1
    BY DEF WritableOwn
  <2>1. table'[u][q] = table[u][q] /\ table[u][q].writable
    BY <1>3, <1>15, <1>16
  <2>2. table[u][q].frame \in Frame
    BY <2>1, <1>2, LeafIs DEF WritableOwn
  <2>3. counts'[table[u][q].frame] <= counts[table[u][q].frame]
    <3> HIDE DEF gone
    <3> DEFINE g == table[u][q].frame
    <3>1. g \in Frame
      BY <2>2
    <3> HIDE DEF g
    <3>2. counts'[g] <= counts[g]
      BY <1>2, <1>5, <3>1
    <3> QED
      BY <3>2 DEF g
  <2>4. Exact(counts', table', root')
    BY <1>8
  <2> QED
    BY <2>1, <2>3, <2>4, StillOwn
<1>18. Reads'
  <2> SUFFICES ASSUME NEW u \in Space, NEW q \in Page, state'[u] = "alive",
                      table'[u][q].frame # 0
               PROVE  content'[table'[u][q].frame] = memory'[u][q]
    BY DEF Reads
  <2>1. /\ table'[u][q] = table[u][q] /\ state[u] = "alive" /\ memory'[u][q] = memory[u][q]
    BY <1>1, <1>3, <1>15, <1>16
  <2>2. Exact(counts', table', root')
    BY <1>8
  <2>3. Cleared(counts', {})[table'[u][q].frame] = memory[u][q]
    BY <1>9, <2>1, <2>2, StillReads
  <2> QED
    BY <1>1, <2>1, <2>3
<1> QED
  BY <1>8, <1>12, <1>14, <1>17, <1>18 DEF MemInv

(* AddressSpaceCloneStructure takes the writable bit away and changes      *)
(* nothing else of an entry that matters here.                             *)
LEMMA ProtectedIs ==
    ASSUME NEW leaves \in [Page -> Leaf]
    PROVE  /\ Protected(leaves) \in [Page -> Leaf]
           /\ \A p \in Page : /\ Protected(leaves)[p].frame = leaves[p].frame
                              /\ ~Protected(leaves)[p].writable
           /\ \A f \in Frame : Row(Protected(leaves), f) = Row(leaves, f)
<1>1. ASSUME NEW p \in Page
      PROVE  /\ Protected(leaves)[p] \in Leaf
             /\ Protected(leaves)[p].frame = leaves[p].frame
             /\ ~Protected(leaves)[p].writable
  <2>1. leaves[p] \in Leaf
    OBVIOUS
  <2>2. CASE leaves[p].writable
    BY <2>1, <2>2 DEF Protected, Leaf
  <2>3. CASE ~leaves[p].writable
    BY <2>1, <2>3 DEF Protected, Leaf
  <2> QED
    BY <2>2, <2>3
<1>2. Protected(leaves) \in [Page -> Leaf]
  BY <1>1 DEF Protected
<1> QED
  BY <1>1, <1>2 DEF Row

(* The space of the caller protected, whatever else happens.               *)
LEMMA ProtectedExact ==
    ASSUME MemInv, NEW s \in Space
    PROVE  /\ Exact(counts, [table EXCEPT ![s] = Protected(table[s])], root)
           /\ [table EXCEPT ![s] = Protected(table[s])] \in Tables
<1> DEFINE b == Protected(table[s])
<1>1. /\ table \in Tables /\ counts \in [Frame -> Nat] /\ Exact(counts, table, root)
      /\ table[s] \in [Page -> Leaf]
  BY DEF MemInv, MemoryTypeOK, Tables
<1>2. b \in [Page -> Leaf] /\ \A f \in Frame : Row(b, f) = Row(table[s], f)
  BY <1>1, ProtectedIs
<1> HIDE DEF b
<1>3. FollowsRow(counts, counts, table[s], b)
  BY <1>1, <1>2 DEF FollowsRow
<1>4. Exact(counts, [table EXCEPT ![s] = b], root)
  BY <1>1, <1>2, <1>3, RowExact
<1> QED
  BY <1>1, <1>2, <1>4 DEF b, Tables

(* A fork for which there is no frame keeps the invariant.                 *)
LEMMA ForkFailsKeeps ==
    ASSUME MemInv, NEW s \in Space, NEW t \in Space, ForkFails(s, t)
    PROVE  MemInv'
<1> DEFINE b == Protected(table[s])
           r == Lowest(Free(counts))
<1>1. /\ table' = [table EXCEPT ![s] = b]
      /\ tlb' = Empty
      /\ counts' = FrameFree(Shared(table[s], r), r, table[s])
      /\ UNCHANGED <<content, root, active, state, approved, memory, halted>>
      /\ active = s /\ approved[s] = 0 /\ state[s] = "alive"
      /\ Free(counts) # {}
  BY DEF ForkFails, InUserMode, Running, AfterClone, Flushed
<1>2. /\ MemoryTypeOK /\ SlotsEmpty /\ WritableOwn /\ Waits /\ Reads
      /\ table \in Tables /\ table[s] \in [Page -> Leaf]
      /\ counts \in [Frame -> Nat]
  BY DEF MemInv, MemoryTypeOK, Tables
<1>3. r \in Frame /\ counts[r] = 0
  <2>1. Free(counts) \in SUBSET Frame /\ \A f \in Free(counts) : counts[f] = 0
    BY DEF Free
  <2> QED
    BY <1>1, <2>1, LowestFree
<1> HIDE DEF r
<1>4. counts' = counts
  <2>1. ASSUME NEW f \in Frame PROVE counts'[f] = counts[f]
    <3>1. Cardinality(Row(table[s], f)) \in Nat /\ counts[f] \in Nat
      BY <1>2, NamesFinite
    <3>2. counts'[f] = (IF f = r THEN 1 ELSE counts[f] + Cardinality(Row(table[s], f)))
                         - Cardinality(Row(table[s], f)) - (IF f = r THEN 1 ELSE 0)
      BY <1>1 DEF FrameFree, Shared, Row
    <3>3. f = r => Cardinality(Row(table[s], f)) = 0
      BY <1>3, FreeRow
    <3> QED
      BY <1>3, <3>1, <3>2, <3>3
  <2>2. counts' = [f \in Frame |-> counts'[f]]
    BY <1>1 DEF FrameFree
  <2> QED
    BY <1>2, <2>1, <2>2
<1>5. Exact(counts, table, root)' /\ table' \in Tables
  <2>1. Exact(counts, table', root) /\ table' \in Tables
    BY <1>1, ProtectedExact
  <2> QED
    BY <1>1, <1>4, <2>1
<1>6. \A p \in Page : b[p].frame = table[s][p].frame /\ ~b[p].writable
  BY <1>2, ProtectedIs
<1> HIDE DEF b
<1>7. /\ table'[s] = b /\ \A u \in Space : u # s => table'[u] = table[u]
  BY <1>1, <1>2 DEF Tables
<1>8. Cached' /\ tlb' \in [Page -> Leaf]
  BY <1>1, Finite DEF Cached, Empty, Absent, Leaf
<1>9. MemoryTypeOK'
  BY <1>1, <1>2, <1>4, <1>5, <1>8 DEF MemoryTypeOK, Tables
<1>10. SlotsEmpty' /\ Waits' /\ WritableOwn' /\ Reads'
  BY <1>1, <1>2, <1>4, <1>6, <1>7 DEF SlotsEmpty, Waits, WritableOwn, Reads
<1> QED
  BY <1>5, <1>8, <1>9, <1>10 DEF MemInv

(* A fork, which write-protects every page in both spaces, keeps the       *)
(* invariant.                                                              *)
LEMMA ForkKeeps ==
    ASSUME MemInv, NEW s \in Space, NEW t \in Space, Fork(s, t)
    PROVE  MemInv'
<1> DEFINE b == Protected(table[s])
           r == Lowest(Free(counts))
           half == [table EXCEPT ![s] = b]
           leafs == [f \in Frame |-> counts[f] + Cardinality(Row(table[s], f))]
<1>1. /\ table' = [half EXCEPT ![t] = b]
      /\ tlb' = Empty
      /\ root' = [root EXCEPT ![t] = r]
      /\ counts' = Shared(table[s], r)
      /\ state' = [state EXCEPT ![t] = "alive"]
      /\ memory' = [memory EXCEPT ![t] = memory[s]]
      /\ content' = Cleared(counts', {r})
      /\ UNCHANGED <<active, approved, halted>>
      /\ active = s /\ approved[s] = 0 /\ state[s] = "alive" /\ state[t] = "unused"
      /\ Free(counts) # {}
  BY DEF Fork, InUserMode, Running, AfterClone, Flushed
<1>2. /\ MemoryTypeOK /\ SlotsEmpty /\ WritableOwn /\ Waits /\ Reads
      /\ table \in Tables /\ table[s] \in [Page -> Leaf]
      /\ counts \in [Frame -> Nat] /\ root \in [Space -> 0 .. Frames]
      /\ state \in [Space -> {"unused", "alive", "ended"}]
      /\ memory \in [Space -> [Page -> Word]] /\ Exact(counts, table, root)
  BY DEF MemInv, MemoryTypeOK, Tables
<1>3. r \in Frame /\ counts[r] = 0
  <2>1. Free(counts) \in SUBSET Frame /\ \A f \in Free(counts) : counts[f] = 0
    BY DEF Free
  <2> QED
    BY <1>1, <2>1, LowestFree
<1>4. s # t /\ table[t] = Empty /\ root[t] = 0
  BY <1>1, <1>2 DEF SlotsEmpty
<1> HIDE DEF r
<1>5. /\ b \in [Page -> Leaf] /\ \A f \in Frame : Row(b, f) = Row(table[s], f)
      /\ \A p \in Page : b[p].frame = table[s][p].frame /\ ~b[p].writable
  BY <1>2, ProtectedIs
<1>6. Exact(counts, half, root) /\ half \in Tables
  BY ProtectedExact
<1>7. half[t] = Empty /\ half[s] = b
  BY <1>2, <1>4 DEF Tables
<1>8. ASSUME NEW f \in Frame
      PROVE  /\ Cardinality(Row(table[s], f)) \in Nat /\ counts[f] \in Nat
             /\ f = r => Cardinality(Row(table[s], f)) = 0
             /\ counts'[f] = IF f = r THEN 1 ELSE counts[f] + Cardinality(Row(table[s], f))
  <2>1. Cardinality(Row(table[s], f)) \in Nat /\ counts[f] \in Nat
    BY <1>2, NamesFinite
  <2>2. f = r => Cardinality(Row(table[s], f)) = 0
    BY <1>3, FreeRow
  <2>3. counts'[f] = IF f = r THEN 1 ELSE counts[f] + Cardinality(Row(table[s], f))
    BY <1>1 DEF Shared, Row
  <2> QED
    BY <2>1, <2>2, <2>3
<1> HIDE DEF b, half
<1>9. FollowsRow(counts, leafs, half[t], b)
  <2> SUFFICES ASSUME NEW f \in Frame
               PROVE  leafs[f] \in Int /\ leafs[f] + Cardinality(Row(half[t], f))
                                            = counts[f] + Cardinality(Row(b, f))
    BY DEF FollowsRow
  <2>1. Cardinality(Row(half[t], f)) = 0
    BY <1>7, EmptyRow
  <2> QED
    BY <1>5, <1>8, <2>1
<1>10. FollowsRoot(leafs, counts', root[t], r)
  <2> SUFFICES ASSUME NEW f \in Frame
               PROVE  counts'[f] \in Int /\ counts'[f] + Is(root[t], f) = leafs[f] + Is(r, f)
    BY DEF FollowsRoot
  <2>1. Is(root[t], f) = 0 /\ Is(r, f) = IF f = r THEN 1 ELSE 0
    BY <1>4, Finite DEF Is
  <2> QED
    BY <1>3, <1>8, <2>1
<1> HIDE DEF leafs
<1>11. Exact(counts, table, root)'
  <2>1. Exact(leafs, table', root)
    BY <1>1, <1>5, <1>6, <1>9, RowExact
  <2>2. r \in 0 .. Frames
    BY <1>3, Finite DEF Frame
  <2>3. Exact(counts', table', root')
    BY <1>1, <1>2, <1>10, <2>1, <2>2, RootExact
  <2> QED
    BY <2>3
<1>12. counts' \in [Frame -> Nat]
  <2>1. counts' = [f \in Frame |-> counts'[f]]
    BY <1>1 DEF Shared
  <2> QED
    BY <1>11, <2>1, ExactNat
<1>13. content' \in [Frame -> Word \cup {Scrap}]
  BY <1>1, <1>12, ClearedIs
<1>14. /\ table' \in Tables /\ root' \in [Space -> 0 .. Frames]
       /\ memory' \in [Space -> [Page -> Word]]
  <2>1. r \in 0 .. Frames
    BY <1>3, Finite DEF Frame
  <2> QED
    BY <1>1, <1>2, <1>5, <1>6, <2>1 DEF Tables
<1>15. Cached' /\ tlb' \in [Page -> Leaf]
  BY <1>1, Finite DEF Cached, Empty, Absent, Leaf
<1>16. MemoryTypeOK'
  BY <1>1, <1>2, <1>12, <1>13, <1>14, <1>15 DEF MemoryTypeOK, Tables
<1>17. /\ table'[s] = b /\ table'[t] = b
       /\ \A u \in Space : u \notin {s, t} => table'[u] = table[u]
       /\ \A u \in Space : u # t => /\ state'[u] = state[u] /\ memory'[u] = memory[u]
                                    /\ root'[u] = root[u]
       /\ state'[t] = "alive" /\ memory'[t] = memory[s]
  BY <1>1, <1>2, <1>4, <1>6, <1>7 DEF Tables, half
<1>18. SlotsEmpty' /\ Waits'
  <2>1. SlotsEmpty'
    <3> SUFFICES ASSUME NEW u \in Space, state'[u] = "unused"
                 PROVE  root'[u] = 0 /\ table'[u] = Empty
      BY DEF SlotsEmpty
    <3>1. u # t /\ u # s /\ state[u] = "unused"
      BY <1>1, <1>4, <1>17
    <3> QED
      BY <3>1, <1>2, <1>17 DEF SlotsEmpty
  <2>2. Waits'
    <3> SUFFICES ASSUME NEW u \in Space, approved'[u] # 0
                 PROVE  state'[u] = "alive" /\ table'[u][approved'[u]].writable
      BY DEF Waits
    <3>1. approved[u] # 0 /\ approved'[u] = approved[u]
      BY <1>1
    <3>2. state[u] = "alive" /\ table[u][approved[u]].writable
      BY <3>1, <1>2 DEF Waits
    <3>3. u # s /\ u # t
      BY <1>1, <3>1, <3>2
    <3> QED
      BY <3>1, <3>2, <3>3, <1>17
  <2> QED
    BY <2>1, <2>2
<1>19. WritableOwn'
  <2> SUFFICES ASSUME NEW u \in Space, NEW q \in Page, table'[u][q].writable
               PROVE  table'[u][q].frame # 0 /\ counts'[table'[u][q].frame] = 1
    BY DEF WritableOwn
  <2>1. u \notin {s, t} /\ table'[u][q] = table[u][q]
    BY <1>5, <1>17
  <2> DEFINE g == table[u][q].frame
  <2>2. g \in Frame /\ counts[g] = 1 /\ g # 0 /\ <<u, q>> \in Names(table, g)
    BY <2>1, <1>2, LeafIs DEF WritableOwn
  <2>3. Row(table[s], g) = {}
    <3> SUFFICES ASSUME NEW p \in Row(table[s], g) PROVE FALSE
      OBVIOUS
    <3>1. <<s, p>> \in Names(table, g)
      BY DEF Row, Names
    <3>2. <<s, p>> = <<u, q>>
      BY <1>2, <2>2, <3>1, NamedCounts
    <3> QED
      BY <2>1, <3>2
  <2>4. Cardinality(Row(table[s], g)) = 0
    BY <2>3, FS_EmptySet
  <2> HIDE DEF g
  <2>5. g # r /\ counts'[g] = 1
    BY <1>3, <1>8, <2>2, <2>4
  <2> QED
    BY <2>1, <2>2, <2>5 DEF g
<1>20. Reads'
  <2> SUFFICES ASSUME NEW u \in Space, NEW q \in Page, state'[u] = "alive",
                      table'[u][q].frame # 0
               PROVE  content'[table'[u][q].frame] = memory'[u][q]
    BY DEF Reads
  <2>0. PICK v \in Space : /\ v = IF u = t THEN s ELSE u
    OBVIOUS
  <2>1. /\ table'[u][q].frame = table[v][q].frame /\ state[v] = "alive"
        /\ table'[v][q].frame = table[v][q].frame
        /\ memory'[u][q] = memory[v][q]
    BY <1>1, <1>5, <1>17, <2>0
  <2>2. Exact(counts', table', root')
    BY <1>11
  <2>3. table[v][q].frame # r
    BY <1>3, <2>1, LeafIs
  <2>4. Cleared(counts', {r})[table'[v][q].frame] = memory[v][q]
    BY <1>12, <2>1, <2>2, <2>3, StillReads
  <2> QED
    BY <1>1, <2>1, <2>4
<1> QED
  BY <1>11, <1>15, <1>16, <1>18, <1>19, <1>20 DEF MemInv

(* Raising the break, to its end or undone for want of a frame, keeps the  *)
(* invariant.                                                              *)
LEMMA GrowBreakKeeps ==
    ASSUME MemInv, NEW s \in Space, NEW p \in BreakPages, GrowBreak(s, p)
    PROVE  MemInv'
<1> DEFINE more == {q \in BreakPages : q <= p} \ Established(s)
           new == FrameAllocate(more, Free(counts))
           leaves == [q \in Page |->
                IF q \in more THEN [frame |-> new[q], writable |-> TRUE, cow |-> FALSE]
                              ELSE table[s][q]]
           taken == Taken(new, more)
<1>1. /\ table' = [table EXCEPT ![s] = leaves]
      /\ counts' = Raised(counts, taken)
      /\ content' = Cleared(counts', taken)
      /\ memory' = [memory EXCEPT ![s] = [q \in Page |->
                IF q \in more THEN 0 ELSE memory[s][q]]]
      /\ tlb' = Invalidated(more)
      /\ UNCHANGED <<root, active, state, approved, halted>>
      /\ active = s /\ approved[s] = 0 /\ state[s] = "alive"
      /\ Cardinality(more) <= Cardinality(Free(counts))
  BY DEF GrowBreak, InUserMode, Running
<1>2. /\ MemoryTypeOK /\ SlotsEmpty /\ WritableOwn /\ Cached /\ Waits /\ Reads
      /\ table \in Tables /\ state \in [Space -> {"unused", "alive", "ended"}]
      /\ counts \in [Frame -> Nat] /\ root \in [Space -> 0 .. Frames]
      /\ memory \in [Space -> [Page -> Word]] /\ Exact(counts, table, root)
      /\ tlb \in [Page -> Leaf] /\ table[s] \in [Page -> Leaf]
  BY DEF MemInv, MemoryTypeOK, Tables
<1>3. more \subseteq Page /\ \A q \in more : table[s][q].frame = 0
  BY DEF Established, Page
<1> HIDE DEF more
<1>4. /\ new \in [more -> Free(counts)]
      /\ \A i, j \in more : new[i] = new[j] => i = j
  <2>1. IsFiniteSet(more) /\ more \subseteq Nat
    BY <1>3, Finite, FS_Subset
  <2>2. Free(counts) \in SUBSET Frame
    BY DEF Free
  <2> QED
    BY <1>1, <2>1, <2>2, Allocated
<1> HIDE DEF new
<1>5. \A q \in more : new[q] \in Frame /\ counts[new[q]] = 0
  BY <1>4 DEF Free
<1>6. /\ leaves \in [Page -> Leaf]
      /\ \A q \in Page : ~(q \in more) => leaves[q] = table[s][q]
      /\ \A q \in Page : q \in more => leaves[q].frame = new[q]
  BY <1>2, <1>5, Finite DEF Leaf, Frame
<1> HIDE DEF leaves
<1>7. /\ \A f \in taken : f \in Frame /\ counts[f] = 0 /\ \E q \in more : new[q] = f
      /\ \A q \in more : new[q] \in taken
  BY <1>5 DEF Taken
<1> HIDE DEF taken
<1>8. ASSUME NEW f \in Frame
      PROVE  counts'[f] = IF f \in taken THEN 1 ELSE counts[f]
  BY <1>1 DEF Raised
<1>9. FollowsRow(counts, counts', table[s], leaves)
  <2> SUFFICES ASSUME NEW f \in Frame
               PROVE  counts'[f] \in Int /\ counts'[f] + Cardinality(Row(table[s], f))
                                              = counts[f] + Cardinality(Row(leaves, f))
    BY DEF FollowsRow
  <2>1. counts[f] \in Nat /\ f # 0
    BY <1>2, Finite
  <2>2. CASE f \in taken
    <3>1. PICK q \in more : new[q] = f
      BY <1>7, <2>2
    <3>2. Row(table[s], f) = {} /\ Cardinality(Row(table[s], f)) = 0 /\ counts[f] = 0
      BY <1>7, <2>2, FreeRow
    <3>3. Row(leaves, f) = {q}
      BY <1>3, <1>4, <1>6, <3>1, <3>2 DEF Row
    <3>4. Cardinality(Row(leaves, f)) = 1
      BY <3>3, FS_Singleton
    <3> QED
      BY <1>8, <2>2, <3>2, <3>4
  <2>3. CASE f \notin taken
    <3>1. Row(leaves, f) = Row(table[s], f)
      BY <1>3, <1>6, <1>7, <2>1, <2>3 DEF Row
    <3>2. Cardinality(Row(table[s], f)) \in Nat
      BY NamesFinite
    <3> QED
      BY <1>8, <2>1, <2>3, <3>1, <3>2
  <2> QED
    BY <2>2, <2>3
<1>10. Exact(counts, table, root)'
  <2>1. Exact(counts', table', root)
    BY <1>1, <1>2, <1>6, <1>9, RowExact
  <2> QED
    BY <1>1, <2>1
<1>11. counts' \in [Frame -> Nat]
  <2>1. counts' = [f \in Frame |-> counts'[f]]
    BY <1>1 DEF Raised
  <2> QED
    BY <1>10, <2>1, ExactNat
<1>12. content' \in [Frame -> Word \cup {Scrap}]
  BY <1>1, <1>11, ClearedIs
<1>13. tlb' \in [Page -> Leaf] /\ memory' \in [Space -> [Page -> Word]] /\ table' \in Tables
  <2>1. 0 \in Word /\ Absent \in Leaf
    BY MemoryAssumption, Finite DEF Absent, Leaf
  <2> QED
    BY <1>1, <1>2, <1>6, <2>1 DEF Invalidated, Tables
<1>14. MemoryTypeOK'
  BY <1>1, <1>2, <1>11, <1>12, <1>13 DEF MemoryTypeOK, Tables
<1>15. /\ \A u \in Space : u # s => table'[u] = table[u] /\ memory'[u] = memory[u]
       /\ table'[s] = leaves
       /\ \A q \in Page : memory'[s][q] = IF q \in more THEN 0 ELSE memory[s][q]
  BY <1>1, <1>2 DEF Tables
<1>16. SlotsEmpty' /\ Cached' /\ Waits'
  <2>1. Cached'
    BY <1>1, <1>2, <1>6, <1>15 DEF Cached, Invalidated
  <2> QED
    BY <1>1, <1>2, <1>15, <2>1 DEF SlotsEmpty, Waits
<1>17. \A u \in Space, q \in Page : ~(u = s /\ q \in more) =>
          table'[u][q] = table[u][q] /\ memory'[u][q] = memory[u][q]
  BY <1>6, <1>15
<1>18. \A q \in more : /\ table'[s][q].frame \in taken
                       /\ counts'[table'[s][q].frame] = 1
                       /\ memory'[s][q] = 0
  BY <1>3, <1>6, <1>7, <1>8, <1>15
<1>19. WritableOwn'
  <2> SUFFICES ASSUME NEW u \in Space, NEW q \in Page, table'[u][q].writable
               PROVE  table'[u][q].frame # 0 /\ counts'[table'[u][q].frame] = 1
    BY DEF WritableOwn
  <2>1. CASE u = s /\ q \in more
    BY <1>7, <1>18, <2>1, Finite
  <2>2. CASE ~(u = s /\ q \in more)
    <3>1. table'[u][q] = table[u][q] /\ table[u][q].writable
      BY <1>17, <2>2
    <3>2. table[u][q].frame \in Frame /\ counts[table[u][q].frame] = 1
      BY <3>1, <1>2, LeafIs DEF WritableOwn
    <3>3. counts'[table[u][q].frame] = 1
      BY <1>8, <3>2
    <3> QED
      BY <3>1, <3>2, <3>3, Finite
  <2> QED
    BY <2>1, <2>2
<1>20. Reads'
  <2> SUFFICES ASSUME NEW u \in Space, NEW q \in Page, state'[u] = "alive",
                      table'[u][q].frame # 0
               PROVE  content'[table'[u][q].frame] = memory'[u][q]
    BY DEF Reads
  <2>1. CASE u = s /\ q \in more
    <3>1. \A f \in Frame : f \in taken => Cleared(counts', taken)[f] = 0
      BY <1>11, ClearedIs
    <3>2. table'[u][q].frame \in taken /\ memory'[u][q] = 0
      BY <1>18, <2>1
    <3>3. table'[u][q].frame \in Frame
      BY <1>7, <3>2
    <3>4. content' = Cleared(counts', taken)
      BY <1>1
    <3> QED
      BY <3>1, <3>2, <3>3, <3>4
  <2>2. CASE ~(u = s /\ q \in more)
    <3>1. /\ table'[u][q] = table[u][q] /\ state[u] = "alive" /\ memory'[u][q] = memory[u][q]
      BY <1>1, <1>17, <2>2
    <3>2. Exact(counts', table', root')
      BY <1>10
    <3>3. table[u][q].frame \notin taken
      BY <1>7, <3>1, LeafIs
    <3>4. Cleared(counts', taken)[table'[u][q].frame] = memory[u][q]
      BY <1>11, <3>1, <3>2, <3>3, StillReads
    <3> QED
      BY <1>1, <3>1, <3>4
  <2> QED
    BY <2>1, <2>2
<1> QED
  BY <1>10, <1>14, <1>16, <1>19, <1>20 DEF MemInv

(* The pages of the stack that find a frame are no more than the frames.   *)
LEMMA FitsFit ==
    ASSUME NEW S, IsFiniteSet(S), S \subseteq Nat, NEW k \in Nat
    PROVE  Cardinality({p \in S : Rank(p, S) < k}) <= k
<1> DEFINE fits == {p \in S : Rank(p, S) < k}
           T == 0 .. k - 1
           rank == [p \in fits |-> Rank(p, S)]
<1>1. IsFiniteSet(T) /\ Cardinality(T) = k
  BY FS_Interval
<1>2. \A p \in S : Rank(p, S) \in Nat
  <2>1. Cardinality(S) \in Nat
    BY FS_CardinalityType
  <2>2. \A p \in S : Rank(p, S) \in 0 .. Cardinality(S) - 1
    BY Ranks
  <2> QED
    BY <2>1, <2>2
<1>3. rank \in [fits -> T]
  <2>1. ASSUME NEW p \in fits PROVE Rank(p, S) \in T
    <3>1. Rank(p, S) \in Nat /\ Rank(p, S) < k
      BY <1>2
    <3> QED
      BY <3>1
  <2> HIDE DEF T
  <2> QED
    BY <2>1
<1>4. \A p, q \in S : Rank(p, S) = Rank(q, S) => p = q
  BY Ranks
<1>5. rank \in Injection(fits, T)
  BY <1>3, <1>4 DEF Injection, IsInjective
<1> HIDE DEF rank, T
<1>6. Cardinality(fits) <= Cardinality(T)
  BY <1>1, <1>5, FS_Injection
<1> QED
  BY <1>1, <1>6

(* Replacing the program of a process keeps the invariant.                 *)
LEMMA ExecuteKeeps ==
    ASSUME MemInv, NEW s \in Space, Execute(s)
    PROVE  MemInv'
<1> DEFINE r == Lowest(Free(counts))
           pool == Free(counts) \ {r}
           image == FrameAllocate(ImagePages, pool)
           first == {r} \cup Taken(image, ImagePages)
           loaded == Raised(counts, first)
           left == FrameFree(loaded, root[s], table[s])
           fits == {p \in StackPages : Rank(p, StackPages) < Cardinality(Free(left))}
           stack == FrameAllocate(fits, Free(left))
           fresh == first \cup Taken(stack, fits)
           leaves == [p \in Page |->
                CASE p \in ImagePages ->
                        [frame |-> image[p], writable |-> p \notin ReadOnly, cow |-> FALSE]
                  [] p \in fits -> [frame |-> stack[p], writable |-> TRUE, cow |-> FALSE]
                  [] OTHER -> Absent]
<1>1. /\ root' = [root EXCEPT ![s] = r]
      /\ table' = [table EXCEPT ![s] = leaves]
      /\ counts' = Raised(left, fresh)
      /\ content' = Cleared(counts', fresh)
      /\ tlb' = Empty
      /\ memory' = [memory EXCEPT ![s] = [p \in Page |-> 0]]
      /\ state' = [state EXCEPT ![s] = IF fits = StackPages THEN "alive" ELSE "ended"]
      /\ UNCHANGED <<active, approved, halted>>
      /\ active = s /\ approved[s] = 0 /\ state[s] = "alive"
      /\ Cardinality(Free(counts)) > Cardinality(ImagePages)
  BY DEF Execute, InUserMode, Running, Flushed
<1>2. /\ MemoryTypeOK /\ SlotsEmpty /\ WritableOwn /\ Waits /\ Reads
      /\ table \in Tables /\ table[s] \in [Page -> Leaf]
      /\ counts \in [Frame -> Nat] /\ root \in [Space -> 0 .. Frames]
      /\ state \in [Space -> {"unused", "alive", "ended"}]
      /\ memory \in [Space -> [Page -> Word]] /\ Exact(counts, table, root)
  BY DEF MemInv, MemoryTypeOK, Tables
<1>3. /\ Free(counts) \in SUBSET Frame /\ IsFiniteSet(Free(counts))
      /\ Cardinality(Free(counts)) \in Nat /\ \A f \in Free(counts) : counts[f] = 0
      /\ IsFiniteSet(ImagePages) /\ Cardinality(ImagePages) \in Nat /\ ImagePages \subseteq Nat
      /\ IsFiniteSet(StackPages) /\ StackPages \subseteq Nat
      /\ ImagePages \subseteq Page /\ StackPages \subseteq Page
      /\ ImagePages \cap StackPages = {}
  <2>1. Free(counts) \in SUBSET Frame /\ \A f \in Free(counts) : counts[f] = 0
    BY DEF Free
  <2>2. ImagePages \subseteq Page /\ StackPages \subseteq Page
    BY DEF Page
  <2>3. ImagePages \cap StackPages = {}
    BY MemoryAssumption
  <2>4. ImagePages \subseteq Nat /\ StackPages \subseteq Nat
    BY <2>2, Finite
  <2>5. IsFiniteSet(Free(counts)) /\ IsFiniteSet(ImagePages) /\ IsFiniteSet(StackPages)
    BY <2>1, <2>2, Finite, FS_Subset
  <2> QED
    BY <2>1, <2>2, <2>3, <2>4, <2>5, FS_CardinalityType
<1>4. r \in Free(counts)
  <2>1. Free(counts) # {}
    <3> SUFFICES ASSUME Free(counts) = {} PROVE FALSE
      OBVIOUS
    <3>1. Cardinality(Free(counts)) = 0
      BY FS_EmptySet
    <3> QED
      BY <1>1, <1>3, <3>1
  <2> QED
    BY <2>1, <1>3, LowestFree
<1> HIDE DEF r
<1>5. /\ image \in [ImagePages -> pool]
      /\ \A p, q \in ImagePages : image[p] = image[q] => p = q
  <2>1. Cardinality(pool) = Cardinality(Free(counts)) - 1
    BY <1>3, <1>4, FS_RemoveElement
  <2>2. pool \in SUBSET Frame
    BY <1>3
  <2> HIDE DEF pool
  <2>3. Cardinality(ImagePages) <= Cardinality(pool)
    BY <1>1, <1>3, <2>1
  <2> QED
    BY <1>3, <2>2, <2>3, Allocated
<1> HIDE DEF image
<1>6. \A p \in ImagePages : image[p] \in first /\ image[p] # r /\ image[p] \in Frame
  BY <1>3, <1>5 DEF Taken
<1>7. r \in first /\ r \in Frame /\ \A f \in first : f \in Frame /\ counts[f] = 0
  BY <1>3, <1>4, <1>5 DEF Taken
<1> DEFINE base == FrameFree(counts, root[s], table[s])
           t0 == [table EXCEPT ![s] = Empty]
           r0 == [root EXCEPT ![s] = 0]
<1>8. Exact(base, t0, r0)
  BY Released
<1>9. ASSUME NEW f \in Frame
      PROVE  /\ base[f] \in Nat
             /\ base[f] <= counts[f]
             /\ f \in first => base[f] = 0 /\ left[f] = 1
             /\ f \notin first => left[f] = base[f]
  <2>0. base[f] \in Nat
    BY <1>8, NamedCounts
  <2> DEFINE n == Cardinality(Row(table[s], f))
             i == IF f = root[s] THEN 1 ELSE 0
  <2>1. n \in Nat /\ i \in {0, 1} /\ counts[f] \in Nat
    BY <1>2, NamesFinite
  <2>2. base[f] = counts[f] - n - i
    BY DEF FrameFree, Row
  <2>3. left[f] = (IF f \in first THEN 1 ELSE counts[f]) - n - i
    BY DEF FrameFree, Row, Raised
  <2>4. f \in first => counts[f] = 0 /\ n = 0 /\ i = 0
    BY <1>7, FreeRow
  <2> HIDE DEF n, i, base, left
  <2> QED
    BY <2>0, <2>1, <2>2, <2>3, <2>4
<1>10. Free(left) \in SUBSET Frame /\ \A f \in Free(left) : left[f] = 0
  BY DEF Free
<1> HIDE DEF left
<1>11. \A f \in Free(left) : f \in Frame /\ f \notin first /\ base[f] = 0
  <2> HIDE DEF base, first
  <2> QED
    BY <1>9, <1>10
<1> HIDE DEF first
<1>12. /\ stack \in [fits -> Free(left)]
       /\ \A p, q \in fits : stack[p] = stack[q] => p = q
  <2>1. IsFiniteSet(Free(left))
    BY <1>10, Finite, FS_Subset
  <2>2. Cardinality(Free(left)) \in Nat
    BY <2>1, FS_CardinalityType
  <2>3. Cardinality(fits) <= Cardinality(Free(left))
    BY <1>3, <2>2, FitsFit
  <2>4. IsFiniteSet(fits) /\ fits \subseteq Nat
    BY <1>3, FS_Subset
  <2> HIDE DEF fits
  <2> QED
    BY <1>10, <2>3, <2>4, Allocated
<1>13. fits \subseteq StackPages
  OBVIOUS
<1> HIDE DEF stack, fits, base
<1>14. /\ \A f \in fresh : f \in Frame /\ base[f] = 0
       /\ \A p \in ImagePages : image[p] \in fresh
       /\ \A p \in fits : stack[p] \in fresh /\ stack[p] \in Frame /\ stack[p] \notin first
       /\ r \in fresh
       /\ \A f \in fresh : f = r \/ (\E p \in ImagePages : image[p] = f)
                                 \/ (\E p \in fits : stack[p] = f)
  <2>1. \A p \in fits : /\ stack[p] \in fresh /\ stack[p] \in Frame /\ stack[p] \notin first
                        /\ base[stack[p]] = 0
    BY <1>11, <1>12 DEF Taken
  <2>2. \A f \in fresh : f \in first \/ \E p \in fits : stack[p] = f
    BY DEF Taken
  <2>3. \A f \in first : f \in fresh /\ f \in Frame /\ base[f] = 0
    BY <1>7, <1>9
  <2>4. \A f \in first : f = r \/ \E p \in ImagePages : image[p] = f
    BY DEF first, Taken
  <2> HIDE DEF fresh
  <2> QED
    BY <1>6, <1>7, <2>1, <2>2, <2>3, <2>4
<1>15. ASSUME NEW f \in Frame
       PROVE  /\ counts'[f] = IF f \in fresh THEN 1 ELSE base[f]
  <2>1. counts'[f] = IF f \in fresh THEN 1 ELSE left[f]
    BY <1>1 DEF Raised
  <2>2. f \notin fresh => f \notin first
    OBVIOUS
  <2> HIDE DEF fresh
  <2> QED
    BY <1>9, <2>1, <2>2
<1> HIDE DEF fresh
<1>16. /\ leaves \in [Page -> Leaf]
       /\ \A p \in ImagePages : leaves[p].frame = image[p]
       /\ \A p \in fits : leaves[p].frame = stack[p]
       /\ \A p \in Page \ (ImagePages \cup fits) : leaves[p].frame = 0 /\ ~leaves[p].writable
  <2>1. \A p \in Page : leaves[p] = IF p \in ImagePages
                THEN [frame |-> image[p], writable |-> p \notin ReadOnly, cow |-> FALSE]
                ELSE IF p \in fits
                     THEN [frame |-> stack[p], writable |-> TRUE, cow |-> FALSE]
                     ELSE Absent
    BY <1>3, <1>13
  <2>2. leaves = [p \in Page |-> leaves[p]]
    OBVIOUS
  <2>3. Absent \in Leaf /\ Absent.frame = 0 /\ ~Absent.writable
    BY Finite DEF Absent, Leaf
  <2>4. \A f \in Frame : f \in 0 .. Frames
    BY Finite DEF Frame
  <2> HIDE DEF leaves
  <2>5. ASSUME NEW p \in Page PROVE leaves[p] \in Leaf
    <3>1. CASE p \in ImagePages
      <4>1. image[p] \in 0 .. Frames /\ (p \notin ReadOnly) \in BOOLEAN
        BY <1>6, <2>4, <3>1
      <4>2. leaves[p] = [frame |-> image[p], writable |-> p \notin ReadOnly, cow |-> FALSE]
        BY <2>1, <3>1
      <4> QED
        BY <4>1, <4>2 DEF Leaf
    <3>2. CASE p \notin ImagePages /\ p \in fits
      <4>1. stack[p] \in 0 .. Frames
        BY <1>14, <2>4, <3>2
      <4>2. leaves[p] = [frame |-> stack[p], writable |-> TRUE, cow |-> FALSE]
        BY <2>1, <3>2
      <4> QED
        BY <4>1, <4>2 DEF Leaf
    <3> QED
      BY <2>1, <2>3, <3>1, <3>2
  <2> QED
    BY <1>3, <1>13, <2>1, <2>2, <2>3, <2>5
<1> HIDE DEF leaves
<1>17. ASSUME NEW f \in Frame
       PROVE  Cardinality(Row(leaves, f)) = IF f \in fresh /\ f # r THEN 1 ELSE 0
  <2> DEFINE P == ImagePages \cup fits
             g == [p \in P |-> IF p \in ImagePages THEN image[p] ELSE stack[p]]
  <2>1. P \in SUBSET Page /\ g \in [P -> Frame]
    BY <1>3, <1>6, <1>13, <1>14
  <2>2. \A p, q \in P : g[p] = g[q] => p = q
    BY <1>5, <1>6, <1>12, <1>14
  <2>3. \A p \in P : leaves[p].frame = g[p]
    BY <1>3, <1>13, <1>16
  <2>4. \A p \in Page \ P : leaves[p].frame = 0
    BY <1>16
  <2>5. f \in Taken(g, P) <=> f \in fresh /\ f # r
    <3>1. \A p \in ImagePages : p \in P /\ g[p] = image[p]
      OBVIOUS
    <3>2. \A p \in fits : p \in P /\ g[p] = stack[p]
      BY <1>3, <1>13
    <3>3. \A p \in P : p \in ImagePages \/ p \in fits
      OBVIOUS
    <3> HIDE DEF P, g
    <3>4. f \in Taken(g, P) <=> \E p \in P : g[p] = f
      BY DEF Taken
    <3> QED
      BY <1>6, <1>7, <1>14, <3>1, <3>2, <3>3, <3>4
  <2> HIDE DEF P, g
  <2>6. Cardinality(Row(leaves, f)) = IF f \in Taken(g, P) THEN 1 ELSE 0
    BY <1>16, <2>1, <2>2, <2>3, <2>4, Assigned
  <2> QED
    BY <2>5, <2>6
<1> DEFINE mid == [f \in Frame |-> base[f] + Cardinality(Row(leaves, f))]
<1>18. /\ t0 \in Tables /\ t0[s] = Empty /\ table' = [t0 EXCEPT ![s] = leaves]
       /\ r0 \in [Space -> 0 .. Frames] /\ r0[s] = 0 /\ root' = [r0 EXCEPT ![s] = r]
       /\ r \in 0 .. Frames
       /\ \A u \in Space : u # s => t0[u] = table[u]
  <2>1. Empty \in [Page -> Leaf] /\ r \in 0 .. Frames /\ 0 \in 0 .. Frames
    BY <1>7, Finite DEF Empty, Absent, Leaf, Frame
  <2> QED
    BY <1>1, <1>2, <2>1 DEF Tables
<1> HIDE DEF t0, r0
<1>19. FollowsRow(base, mid, t0[s], leaves)
  <2> SUFFICES ASSUME NEW f \in Frame
               PROVE  mid[f] \in Int /\ mid[f] + Cardinality(Row(t0[s], f))
                                          = base[f] + Cardinality(Row(leaves, f))
    BY DEF FollowsRow
  <2>1. Cardinality(Row(t0[s], f)) = 0
    BY <1>18, EmptyRow
  <2>2. base[f] \in Nat /\ Cardinality(Row(leaves, f)) \in Nat
    BY <1>9, NamesFinite
  <2> QED
    BY <2>1, <2>2
<1>20. FollowsRoot(mid, counts', r0[s], r)
  <2> SUFFICES ASSUME NEW f \in Frame
               PROVE  counts'[f] \in Int /\ counts'[f] + Is(r0[s], f) = mid[f] + Is(r, f)
    BY DEF FollowsRoot
  <2>1. Is(r0[s], f) = 0 /\ Is(r, f) = IF f = r THEN 1 ELSE 0
    BY <1>18, Finite DEF Is
  <2>2. base[f] \in Nat /\ (f \in fresh => base[f] = 0)
    BY <1>9, <1>14
  <2> QED
    BY <1>14, <1>15, <1>17, <2>1, <2>2
<1> HIDE DEF mid
<1>21. Exact(counts, table, root)'
  <2>1. Exact(mid, table', r0)
    BY <1>8, <1>16, <1>18, <1>19, RowExact DEF t0
  <2>2. Exact(counts', table', root')
    BY <1>18, <1>20, <2>1, RootExact
  <2> QED
    BY <2>2
<1>22. counts' \in [Frame -> Nat]
  <2>1. counts' = [f \in Frame |-> counts'[f]]
    BY <1>1 DEF Raised
  <2> QED
    BY <1>21, <2>1, ExactNat
<1>23. content' \in [Frame -> Word \cup {Scrap}]
  BY <1>1, <1>22, ClearedIs
<1>24. /\ table' \in Tables /\ root' \in [Space -> 0 .. Frames]
       /\ memory' \in [Space -> [Page -> Word]]
       /\ state' \in [Space -> {"unused", "alive", "ended"}]
  <2>1. 0 \in Word
    BY MemoryAssumption
  <2> QED
    BY <1>1, <1>2, <1>16, <1>18, <2>1 DEF Tables
<1>25. Cached' /\ tlb' \in [Page -> Leaf]
  BY <1>1, Finite DEF Cached, Empty, Absent, Leaf
<1>26. MemoryTypeOK'
  BY <1>1, <1>2, <1>22, <1>23, <1>24, <1>25 DEF MemoryTypeOK, Tables
<1>27. /\ table'[s] = leaves /\ \A p \in Page : memory'[s][p] = 0
       /\ \A u \in Space : u # s => /\ state'[u] = state[u] /\ memory'[u] = memory[u]
                                    /\ root'[u] = root[u] /\ table'[u] = table[u]
       /\ state'[s] # "unused"
  BY <1>1, <1>2 DEF Tables
<1>28. SlotsEmpty' /\ Waits'
  BY <1>1, <1>2, <1>27 DEF SlotsEmpty, Waits
<1>29. ASSUME NEW u \in Space, NEW q \in Page, u # s, table[u][q].frame # 0
       PROVE  /\ table[u][q].frame \in Frame /\ table[u][q].frame \notin fresh
              /\ counts'[table[u][q].frame] <= counts[table[u][q].frame]
  <2> DEFINE g == table[u][q].frame
  <2>1. g \in Frame
    BY <1>29, LeafIs
  <2>2. <<u, q>> \in Names(t0, g)
    BY <1>18, <1>29 DEF Names
  <2>3. base[g] >= 1
    BY <1>8, <2>1, <2>2, NamedCounts DEF t0
  <2> HIDE DEF g
  <2>4. base[g] \in Nat /\ base[g] <= counts[g]
    BY <1>9, <2>1
  <2>5. g \notin fresh
    BY <1>14, <2>3
  <2>6. counts'[g] = base[g]
    BY <1>15, <2>1, <2>5
  <2> QED
    BY <2>1, <2>4, <2>5, <2>6 DEF g
<1>30. \A q \in Page : leaves[q].frame # 0 =>
          leaves[q].frame \in Frame /\ leaves[q].frame \in fresh
  BY <1>6, <1>14, <1>16
<1>31. \A q \in Page : leaves[q].writable => leaves[q].frame # 0
  BY <1>6, <1>14, <1>16, Finite
<1>32. WritableOwn'
  <2> SUFFICES ASSUME NEW u \in Space, NEW q \in Page, table'[u][q].writable
               PROVE  table'[u][q].frame # 0 /\ counts'[table'[u][q].frame] = 1
    BY DEF WritableOwn
  <2>1. CASE u = s
    BY <1>15, <1>27, <1>30, <1>31, <2>1
  <2>2. CASE u # s
    <3>1. table'[u][q] = table[u][q] /\ table[u][q].writable
      BY <1>27, <2>2
    <3>2. table[u][q].frame # 0
      BY <1>2, <3>1 DEF WritableOwn
    <3>3. Exact(counts', table', root')
      BY <1>21
    <3>4. counts'[table[u][q].frame] <= counts[table[u][q].frame]
      BY <1>29, <2>2, <3>2
    <3> QED
      BY <3>1, <3>3, <3>4, StillOwn
  <2> QED
    BY <2>1, <2>2
<1>33. Reads'
  <2> SUFFICES ASSUME NEW u \in Space, NEW q \in Page, state'[u] = "alive",
                      table'[u][q].frame # 0
               PROVE  content'[table'[u][q].frame] = memory'[u][q]
    BY DEF Reads
  <2>1. CASE u = s
    <3>1. \A f \in Frame : f \in fresh => Cleared(counts', fresh)[f] = 0
      BY <1>22, ClearedIs
    <3> QED
      BY <1>1, <1>27, <1>30, <2>1, <3>1
  <2>2. CASE u # s
    <3>1. /\ table'[u][q] = table[u][q] /\ state[u] = "alive" /\ memory'[u][q] = memory[u][q]
      BY <1>27, <2>2
    <3>2. Exact(counts', table', root')
      BY <1>21
    <3>3. table[u][q].frame \notin fresh
      BY <1>29, <2>2, <3>1
    <3>4. Cleared(counts', fresh)[table'[u][q].frame] = memory[u][q]
      BY <1>22, <3>1, <3>2, <3>3, StillReads
    <3> QED
      BY <1>1, <3>1, <3>4
  <2> QED
    BY <2>1, <2>2
<1> QED
  BY <1>21, <1>25, <1>26, <1>28, <1>32, <1>33 DEF MemInv

-----------------------------------------------------------------------------
(* The first program as the boot leaves it.                                *)
LEMMA InitMemory == MemoryInit => MemInv
<1> SUFFICES ASSUME MemoryInit PROVE MemInv
  OBVIOUS
<1> DEFINE pages == ImagePages \cup StackPages
           frames == FrameAllocate(pages, 2 .. Frames)
           taken == Taken(frames, pages)
           leaves == [p \in Page |-> IF p \in pages
                              THEN [frame |-> frames[p], writable |-> p \notin ReadOnly,
                                    cow |-> FALSE]
                              ELSE Absent]
           none == [f \in Frame |-> 0]
           t0 == [s \in Space |-> Empty]
           r0 == [s \in Space |-> 0]
<1>1. /\ root = [s \in Space |-> IF s = First THEN 1 ELSE 0]
      /\ table = [s \in Space |-> IF s # First THEN Empty ELSE leaves]
      /\ counts = Raised(none, {1} \cup taken)
      /\ content = [f \in Frame |-> IF counts[f] = 0 THEN Scrap ELSE 0]
      /\ active = First /\ tlb = Empty
      /\ state = [s \in Space |-> IF s = First THEN "alive" ELSE "unused"]
      /\ approved = [s \in Space |-> 0]
      /\ memory = [s \in Space |-> [p \in Page |-> 0]]
      /\ halted = FALSE
  BY DEF MemoryInit
<1>2. First \in Space /\ pages \subseteq Page /\ pages \subseteq Nat /\ IsFiniteSet(pages)
  <2>1. First \in Space /\ pages \subseteq Page
    BY MemoryAssumption DEF Page
  <2> QED
    BY <2>1, Finite, FS_Subset
<1>3. Cardinality(pages) \in Nat /\ Frames \in Nat /\ Cardinality(pages) < Frames
  BY <1>2, MemoryAssumption, FS_CardinalityType
<1>4. /\ frames \in [pages -> 2 .. Frames]
      /\ \A p, q \in pages : frames[p] = frames[q] => p = q
  <2>1. 2 .. Frames \in SUBSET Frame
    BY <1>3 DEF Frame
  <2>2. Cardinality(2 .. Frames) = Frames - 1
    <3>1. 2 \in Int /\ Frames \in Int /\ ~(2 > Frames + 1)
      BY <1>3
    <3>2. Cardinality(2 .. Frames) = IF 2 > Frames THEN 0 ELSE Frames - 2 + 1
      BY <3>1, FS_Interval
    <3> QED
      BY <1>3, <3>1, <3>2
  <2> HIDE DEF pages
  <2>3. Cardinality(pages) <= Cardinality(2 .. Frames)
    BY <1>3, <2>2
  <2> QED
    BY <1>2, <2>1, <2>3, Allocated
<1> HIDE DEF frames
<1>5. 1 \in Frame /\ \A p \in pages : frames[p] \in Frame /\ frames[p] # 1 /\ frames[p] # 0
  BY <1>3, <1>4 DEF Frame
<1>6. leaves \in [Page -> Leaf]
  <2>1. Absent \in Leaf
    BY Finite DEF Absent, Leaf
  <2>2. ASSUME NEW p \in Page PROVE leaves[p] \in Leaf
    <3>1. CASE p \in pages
      <4>1. frames[p] \in 0 .. Frames /\ (p \notin ReadOnly) \in BOOLEAN
        BY <1>3, <1>4, <3>1
      <4>2. leaves[p] = [frame |-> frames[p], writable |-> p \notin ReadOnly, cow |-> FALSE]
        BY <3>1
      <4> HIDE DEF leaves, pages
      <4> QED
        BY <4>1, <4>2 DEF Leaf
    <3> QED
      BY <2>1, <3>1
  <2>3. leaves = [p \in Page |-> leaves[p]]
    OBVIOUS
  <2> HIDE DEF leaves
  <2> QED
    BY <2>2, <2>3
<1>7. /\ \A p \in pages : leaves[p].frame = frames[p]
      /\ \A p \in Page \ pages : leaves[p].frame = 0 /\ ~leaves[p].writable
  BY <1>2 DEF Absent
<1> HIDE DEF leaves
<1>8. \A f \in Frame : counts[f] = IF f = 1 \/ f \in taken THEN 1 ELSE 0
  BY <1>1 DEF Raised
<1>9. \A f \in taken : f \in Frame /\ f # 1
  BY <1>5 DEF Taken
<1>10. \A p \in pages : frames[p] \in taken
  BY DEF Taken
<1>11. ASSUME NEW f \in Frame
       PROVE  Cardinality(Row(leaves, f)) = IF f \in taken THEN 1 ELSE 0
  <2>1. frames \in [pages -> Frame] /\ pages \in SUBSET Page
    BY <1>2, <1>4, <1>5
  <2> HIDE DEF pages
  <2> QED
    BY <1>4, <1>6, <1>7, <2>1, Assigned
<1> HIDE DEF taken
<1>12. Exact(none, t0, r0)
  <2> SUFFICES ASSUME NEW f \in Frame
               PROVE  none[f] = Cardinality(Names(t0, f)) + Cardinality(Roots(r0, f))
    BY DEF Exact
  <2>1. Names(t0, f) = {} /\ Roots(r0, f) = {}
    BY Finite DEF Names, Roots, Empty, Absent
  <2>2. Cardinality({}) = 0
    BY FS_EmptySet
  <2> QED
    BY <2>1, <2>2
<1> DEFINE mid == [f \in Frame |-> Cardinality(Row(leaves, f))]
<1>13. /\ t0 \in Tables /\ t0[First] = Empty /\ table = [t0 EXCEPT ![First] = leaves]
       /\ r0 \in [Space -> 0 .. Frames] /\ r0[First] = 0 /\ root = [r0 EXCEPT ![First] = 1]
       /\ 1 \in 0 .. Frames
  <2>1. Empty \in [Page -> Leaf] /\ 0 \in 0 .. Frames /\ 1 \in 0 .. Frames
    BY <1>5, Finite DEF Empty, Absent, Leaf, Frame
  <2> QED
    BY <1>1, <1>2, <2>1 DEF Tables
<1>14. FollowsRow(none, mid, t0[First], leaves)
  <2> SUFFICES ASSUME NEW f \in Frame
               PROVE  mid[f] \in Int /\ mid[f] + Cardinality(Row(t0[First], f))
                                          = none[f] + Cardinality(Row(leaves, f))
    BY DEF FollowsRow
  <2>1. Cardinality(Row(t0[First], f)) = 0
    BY <1>13, EmptyRow
  <2>2. Cardinality(Row(leaves, f)) \in Nat /\ none[f] = 0
    BY NamesFinite
  <2> QED
    BY <2>1, <2>2
<1>15. FollowsRoot(mid, counts, r0[First], 1)
  <2> SUFFICES ASSUME NEW f \in Frame
               PROVE  counts[f] \in Int /\ counts[f] + Is(r0[First], f) = mid[f] + Is(1, f)
    BY DEF FollowsRoot
  <2>1. Is(r0[First], f) = 0 /\ Is(1, f) = IF f = 1 THEN 1 ELSE 0
    BY <1>13, Finite DEF Is
  <2> QED
    BY <1>8, <1>9, <1>11, <2>1
<1> HIDE DEF mid, t0, r0, none
<1>16. Exact(counts, table, root)
  <2>1. Exact(mid, table, r0)
    BY <1>2, <1>6, <1>12, <1>13, <1>14, RowExact
  <2> QED
    BY <1>2, <1>13, <1>15, <2>1, RootExact
<1>17. counts \in [Frame -> Nat]
  <2>1. counts = [f \in Frame |-> counts[f]]
    BY <1>1 DEF Raised
  <2> QED
    BY <1>16, <2>1, ExactNat
<1>18. 0 \in Word /\ 0 \in 0 .. Frames /\ Empty \in [Page -> Leaf]
  BY MemoryAssumption, Finite DEF Empty, Absent, Leaf
<1>19. MemoryTypeOK
  <2>1. table \in Tables /\ root \in [Space -> 0 .. Frames]
    BY <1>1, <1>6, <1>13, <1>18 DEF Tables
  <2> QED
    BY <1>1, <1>2, <1>17, <1>18, <2>1 DEF MemoryTypeOK, Tables
<1>20. /\ table[First] = leaves
       /\ \A s \in Space : s # First => table[s] = Empty /\ state[s] = "unused" /\ root[s] = 0
       /\ state[First] = "alive"
  BY <1>1, <1>2
<1>21. SlotsEmpty /\ Cached /\ Waits
  BY <1>1, <1>20 DEF SlotsEmpty, Cached, Waits, Empty
<1>22. \A p \in Page : leaves[p].frame # 0 => leaves[p].frame \in taken
  BY <1>7, <1>10
<1>23. \A p \in Page : leaves[p].writable => leaves[p].frame # 0
  BY <1>5, <1>7
<1>24. \A p \in Page : Empty[p].frame = 0 /\ ~Empty[p].writable
  BY DEF Empty, Absent
<1>25. WritableOwn
  BY <1>8, <1>9, <1>20, <1>22, <1>23, <1>24 DEF WritableOwn
<1>26. Reads
  <2>1. \A f \in taken : content[f] = 0
    <3>1. \A f \in Frame : counts[f] # 0 => content[f] = 0
      BY <1>1
    <3>2. \A f \in taken : f \in Frame /\ counts[f] # 0
      BY <1>8, <1>9
    <3> QED
      BY <3>1, <3>2
  <2>2. \A s \in Space, p \in Page : memory[s][p] = 0
    BY <1>1
  <2> QED
    BY <1>20, <1>22, <2>1, <2>2 DEF Reads
<1> QED
  BY <1>16, <1>19, <1>21, <1>25, <1>26 DEF MemInv

-----------------------------------------------------------------------------
(* Every step of the allocator, the fault handler and the operations of    *)
(* process.c on whole spaces keeps the inductive invariant.                *)
THEOREM MemoryInductive == MemInv /\ [MemoryNext]_memoryVars => MemInv'
<1> SUFFICES ASSUME MemInv, [MemoryNext]_memoryVars PROVE MemInv'
  OBVIOUS
<1>1. ASSUME NEW s \in Space, CreatePanics(s) PROVE MemInv'
  BY <1>1 DEF CreatePanics, MemInv, MemoryTypeOK, SlotsEmpty, WritableOwn, Cached, Waits, Reads
<1>2. CASE UNCHANGED memoryVars
  BY <1>2 DEF memoryVars, MemInv, MemoryTypeOK, SlotsEmpty, WritableOwn, Cached, Waits, Reads
<1>3. CASE \E s \in Space, p \in Page :
             \/ UserRead(s, p) \/ WriteFault(s, p) \/ Judge(s, p)
             \/ \E v \in Word : UserWrite(s, p, v)
  BY <1>3, UserReadKeeps, WriteFaultKeeps, JudgeKeeps, UserWriteKeeps
<1>4. CASE \E s \in Space, v \in Word : Answer(s, v)
  BY <1>4, AnswerKeeps
<1>5. CASE \E s, t \in Space : Fork(s, t) \/ ForkFails(s, t)
  BY <1>5, ForkKeeps, ForkFailsKeeps
<1>6. CASE \E s \in Space, p \in BreakPages : GrowBreak(s, p) \/ ShrinkBreak(s, p)
  BY <1>6, GrowBreakKeeps, ShrinkBreakKeeps
<1>7. CASE \E s \in Space : Execute(s) \/ CreatePanics(s) \/ ProcessExit(s) \/ Reap(s)
  BY <1>1, <1>7, ExecuteKeeps, ProcessExitKeeps, ReapKeeps
<1>8. CASE \E x \in Space \cup {Kernel} : SwitchTo(x)
  BY <1>8, SwitchToKeeps
<1>9. CASE Halt
  BY <1>2, <1>9 DEF Halt
<1> QED
  BY <1>2, <1>3, <1>4, <1>5, <1>6, <1>7, <1>8, <1>9 DEF MemoryNext

(* The inductive invariant holds throughout.                               *)
LEMMA MemoryAlways == MemorySpec => []MemInv
BY InitMemory, MemoryInductive, PTL DEF MemorySpec

(* FrameReferenceTable counts exactly the entries and roots that name a    *)
(* frame, whatever is forked, faulted, replaced, grown or released.        *)
THEOREM FramesCounted == MemorySpec => []CountsExact
<1>1. MemInv => CountsExact
  BY CountsExactIs DEF MemInv
<1> QED
  BY <1>1, MemoryAlways, PTL

(* The page a call judged writable is still its own when it answers.       *)
THEOREM AnswersLandAtHome == MemorySpec => []ApprovedStaysOwn
<1>1. MemInv => ApprovedStaysOwn
  <2> SUFFICES ASSUME MemInv, NEW s \in Space, approved[s] # 0
               PROVE  /\ table[s][approved[s]].writable
                      /\ counts[table[s][approved[s]].frame] = 1
    BY DEF ApprovedStaysOwn
  <2>1. approved[s] \in Page
    BY DEF MemInv, MemoryTypeOK
  <2> QED
    BY <2>1 DEF MemInv, Waits, WritableOwn
<1> QED
  BY <1>1, MemoryAlways, PTL

(* A process reads back what it wrote, through its tables and through      *)
(* every translation the processor has cached.                             *)
THEOREM ProcessesIsolated == MemorySpec => []Isolated
<1>1. MemInv => Isolated
  <2> SUFFICES ASSUME MemInv, NEW s \in Space, state[s] = "alive", NEW p \in Page
               PROVE  /\ table[s][p].frame # 0 => content[table[s][p].frame] = memory[s][p]
                      /\ active = s /\ tlb[p].frame # 0 =>
                            content[tlb[p].frame] = memory[s][p]
    BY DEF Isolated
  <2>1. tlb[p].frame # 0 => tlb[p] # Absent
    BY DEF Absent
  <2> QED
    BY <2>1 DEF MemInv, Reads, Cached
<1> QED
  BY <1>1, MemoryAlways, PTL

-----------------------------------------------------------------------------
(***************************************************************************)
(* The arena and the heap, for any number of pages, of ranges the free     *)
(* list holds and of frames, and any size classes: no page and no object   *)
(* is held twice or lost.                                                  *)
(***************************************************************************)

(***************************************************************************)
(* Ranges and lists of ranges.                                             *)
(***************************************************************************)

Ranges == [base : Nat, count : Nat \ {0}]

(* The ranges ascend, and no two of them touch.                            *)
Ascending(l) ==
    /\ l \in Seq(Ranges)
    /\ \A j, k \in DOMAIN l : j < k => l[j].base + l[j].count < l[k].base

PagesIn(l) == UNION {Within(l[k]) : k \in DOMAIN l}

Replaced(l, place, r) == [l EXCEPT ![place] = r]

(* The ranges before a place end before the range r begins, and those      *)
(* after a place begin after it ends.                                      *)
EndBefore(l, place, r) ==
    \A k \in 1 .. Len(l) : k < place => l[k].base + l[k].count < r.base
BeginAfter(l, place, r) ==
    \A k \in 1 .. Len(l) : place < k => r.base + r.count < l[k].base

(* The pages of a range, by its first and its length.                      *)
LEMMA WithinIs ==
    ASSUME NEW r \in Ranges
    PROVE  /\ r.base \in Nat /\ r.count \in Nat /\ r.count > 0 /\ Within(r) \subseteq Nat
           /\ \A p \in Int : p \in Within(r) <=> r.base <= p /\ p < r.base + r.count
<1>1. PICK b \in Nat, c \in Nat \ {0} : b = r.base /\ c = r.count
  BY DEF Ranges
<1>2. Within(r) = b .. b + c - 1
  BY <1>1 DEF Within
<1> QED
  BY <1>1, <1>2

(* A range as a record of its two fields.                                  *)
LEMMA RangeIs ==
    ASSUME NEW b \in Nat, NEW c \in Nat \ {0}
    PROVE  /\ [base |-> b, count |-> c] \in Ranges
           /\ [base |-> b, count |-> c].base = b /\ [base |-> b, count |-> c].count = c
  BY DEF Ranges

(* The pages of a list are those of its ranges.                            *)
LEMMA PagesInIs ==
    ASSUME NEW l \in Seq(Ranges)
    PROVE  /\ PagesIn(l) \subseteq Nat
           /\ \A p : p \in PagesIn(l) <=> \E k \in 1 .. Len(l) : p \in Within(l[k])
<1>1. \A k \in 1 .. Len(l) : l[k] \in Ranges
  OBVIOUS
<1>2. DOMAIN l = 1 .. Len(l)
  OBVIOUS
<1>3. \A p : p \in PagesIn(l) <=> \E k \in 1 .. Len(l) : p \in Within(l[k])
  BY <1>2 DEF PagesIn
<1> QED
  BY <1>1, <1>3, WithinIs

(* Two places of an ascending list have no page in common.                 *)
LEMMA PlacesApart ==
    ASSUME NEW l, Ascending(l), NEW j \in 1 .. Len(l), NEW k \in 1 .. Len(l), j # k
    PROVE  Within(l[j]) \cap Within(l[k]) = {}
<1>1. /\ l \in Seq(Ranges) /\ DOMAIN l = 1 .. Len(l) /\ Len(l) \in Nat
      /\ l[j] \in Ranges /\ l[k] \in Ranges
  BY DEF Ascending
<1>2. j < k \/ k < j
  BY <1>1
<1>3. \/ l[j].base + l[j].count < l[k].base
      \/ l[k].base + l[k].count < l[j].base
  BY <1>1, <1>2 DEF Ascending
<1>4. \A p \in Nat : ~(p \in Within(l[j]) /\ p \in Within(l[k]))
  BY <1>1, <1>3, WithinIs
<1> QED
  BY <1>1, <1>4, WithinIs

(* A list with another range at one place.                                 *)
LEMMA ReplacedIs ==
    ASSUME NEW l, Ascending(l), NEW at \in 1 .. Len(l), NEW r \in Ranges,
           EndBefore(l, at, r), BeginAfter(l, at, r),
           NEW t, t = Replaced(l, at, r)
    PROVE  /\ Ascending(t) /\ Len(t) = Len(l)
           /\ PagesIn(t) = (PagesIn(l) \ Within(l[at])) \cup Within(r)
<1>1. PICK n \in Nat : n = Len(l) /\ DOMAIN l = 1 .. n /\ l \in Seq(Ranges)
  BY DEF Ascending
<1>2. t \in Seq(Ranges) /\ Len(t) = n /\ DOMAIN t = 1 .. n
  BY <1>1 DEF Replaced
<1>3. t[at] = r /\ \A k \in 1 .. n : k # at => t[k] = l[k]
  BY <1>1 DEF Replaced
<1>4. \A j, k \in 1 .. n : j < k => t[j].base + t[j].count < t[k].base
  <2> TAKE j, k \in 1 .. n
  <2>1. CASE j = at
    BY <1>1, <1>3, <2>1 DEF BeginAfter
  <2>2. CASE k = at
    BY <1>1, <1>3, <2>2 DEF EndBefore
  <2>3. CASE j # at /\ k # at
    BY <1>1, <1>3, <2>3 DEF Ascending
  <2> QED
    BY <2>1, <2>2, <2>3
<1>5. \A p : p \in PagesIn(t) <=> \E k \in 1 .. n : p \in Within(t[k])
  BY <1>2, PagesInIs
<1>6. \A p : p \in PagesIn(l) <=> \E k \in 1 .. n : p \in Within(l[k])
  BY <1>1, PagesInIs
<1>7. \A k \in 1 .. n : k # at => Within(l[k]) \cap Within(l[at]) = {}
  BY <1>1, PlacesApart
<1>8. PagesIn(t) = (PagesIn(l) \ Within(l[at])) \cup Within(r)
  <2>1. ASSUME NEW p, p \in PagesIn(t)
        PROVE  p \in (PagesIn(l) \ Within(l[at])) \cup Within(r)
    BY <1>3, <1>5, <1>6, <1>7, <2>1
  <2>2. ASSUME NEW p, p \in (PagesIn(l) \ Within(l[at])) \cup Within(r)
        PROVE  p \in PagesIn(t)
    BY <1>1, <1>3, <1>5, <1>6, <2>2
  <2> QED
    BY <2>1, <2>2
<1> QED
  BY <1>1, <1>2, <1>4, <1>8 DEF Ascending

(* A list without the range at one place.                                  *)
LEMMA DroppedIs ==
    ASSUME NEW l, Ascending(l), NEW at \in 1 .. Len(l), NEW t, t = RemoveAt(l, at)
    PROVE  /\ Ascending(t) /\ Len(t) = Len(l) - 1
           /\ \A k \in 1 .. Len(l) - 1 : t[k] = IF k < at THEN l[k] ELSE l[k + 1]
           /\ PagesIn(t) = PagesIn(l) \ Within(l[at])
<1>1. PICK n \in Nat : n = Len(l) /\ DOMAIN l = 1 .. n /\ l \in Seq(Ranges)
  BY DEF Ascending
<1>2. /\ t \in Seq(Ranges) /\ Len(t) = n - 1
      /\ \A k \in 1 .. n - 1 : t[k] = IF k < at THEN l[k] ELSE l[k + 1]
  BY <1>1, RemoveAtIs
<1>3. DOMAIN t = 1 .. n - 1
  BY <1>1, <1>2
<1> DEFINE To(k) == IF k < at THEN k ELSE k + 1
<1>4. \A k \in 1 .. n - 1 : To(k) \in 1 .. n /\ To(k) # at /\ t[k] = l[To(k)]
  BY <1>1, <1>2
<1>5. \A j, k \in 1 .. n - 1 : j < k => To(j) < To(k)
  BY <1>1
<1>6. \A k \in 1 .. n : k # at => \E j \in 1 .. n - 1 : To(j) = k
  <2> TAKE k \in 1 .. n
  <2>1. CASE k < at
    <3>1. k \in 1 .. n - 1 /\ To(k) = k
      BY <1>1, <2>1
    <3> QED
      BY <3>1
  <2>2. CASE k > at
    <3>1. k - 1 \in 1 .. n - 1 /\ To(k - 1) = k
      BY <1>1, <2>2
    <3> QED
      BY <3>1
  <2> QED
    BY <1>1, <2>1, <2>2
<1> HIDE DEF To
<1>7. \A j, k \in 1 .. n - 1 : j < k => t[j].base + t[j].count < t[k].base
  BY <1>1, <1>4, <1>5 DEF Ascending
<1>8. \A p : p \in PagesIn(t) <=> \E k \in 1 .. n - 1 : p \in Within(t[k])
  BY <1>2, PagesInIs
<1>9. \A p : p \in PagesIn(l) <=> \E k \in 1 .. n : p \in Within(l[k])
  BY <1>1, PagesInIs
<1>10. \A k \in 1 .. n : k # at => Within(l[k]) \cap Within(l[at]) = {}
  BY <1>1, PlacesApart
<1>11. PagesIn(t) = PagesIn(l) \ Within(l[at])
  <2>1. ASSUME NEW p, p \in PagesIn(t)
        PROVE  p \in PagesIn(l) \ Within(l[at])
    BY <1>4, <1>8, <1>9, <1>10, <2>1
  <2>2. ASSUME NEW p, p \in PagesIn(l), p \notin Within(l[at])
        PROVE  p \in PagesIn(t)
    <3>1. PICK k \in 1 .. n : p \in Within(l[k]) /\ k # at
      BY <1>9, <2>2
    <3>2. PICK j \in 1 .. n - 1 : To(j) = k
      BY <1>6, <3>1
    <3> QED
      BY <1>4, <1>8, <3>1, <3>2
  <2> QED
    BY <2>1, <2>2
<1> QED
  BY <1>1, <1>2, <1>3, <1>7, <1>11 DEF Ascending

(* A list with a range put in, which touches neither neighbour.            *)
LEMMA PutInIs ==
    ASSUME NEW l, Ascending(l), NEW at \in 1 .. Len(l) + 1, NEW r \in Ranges,
           EndBefore(l, at, r), BeginAfter(l, at - 1, r),
           NEW t, t = InsertAt(l, at, r)
    PROVE  /\ Ascending(t) /\ Len(t) = Len(l) + 1
           /\ PagesIn(t) = PagesIn(l) \cup Within(r)
<1>1. PICK n \in Nat : n = Len(l) /\ DOMAIN l = 1 .. n /\ l \in Seq(Ranges)
  BY DEF Ascending
<1>2. /\ t \in Seq(Ranges) /\ Len(t) = n + 1
      /\ \A k \in 1 .. n + 1 : t[k] = IF k < at THEN l[k] ELSE IF k = at THEN r ELSE l[k - 1]
  <2>1. /\ InsertAt(l, at, r) \in Seq(Ranges) /\ Len(InsertAt(l, at, r)) = Len(l) + 1
        /\ \A k \in 1 .. Len(l) + 1 :
              InsertAt(l, at, r)[k] = IF k < at THEN l[k] ELSE IF k = at THEN r ELSE l[k - 1]
    BY <1>1, InsertAtIs, SMTT(30)
  <2> QED
    BY <1>1, <2>1
<1>3. DOMAIN t = 1 .. n + 1 /\ t[at] = r
  BY <1>1, <1>2
<1> DEFINE To(k) == IF k < at THEN k ELSE k - 1
<1>4. \A k \in 1 .. n + 1 : k # at => To(k) \in 1 .. n /\ t[k] = l[To(k)]
  BY <1>1, <1>2
<1>5. \A j, k \in 1 .. n + 1 : j < k /\ j # at /\ k # at => To(j) < To(k)
  BY <1>1
<1>6. \A k \in 1 .. n + 1 : (k < at => To(k) < at) /\ (k > at => at <= To(k))
  BY <1>1
<1>7. \A k \in 1 .. n : \E j \in 1 .. n + 1 : j # at /\ To(j) = k
  <2> TAKE k \in 1 .. n
  <2>1. CASE k < at
    <3>1. k \in 1 .. n + 1 /\ To(k) = k /\ k # at
      BY <1>1, <2>1
    <3> QED
      BY <3>1
  <2>2. CASE k >= at
    <3>1. k + 1 \in 1 .. n + 1 /\ To(k + 1) = k /\ k + 1 # at
      BY <1>1, <2>2
    <3> QED
      BY <3>1
  <2> QED
    BY <1>1, <2>1, <2>2
<1> HIDE DEF To
<1>8. \A j, k \in 1 .. n + 1 : j < k => t[j].base + t[j].count < t[k].base
  <2> TAKE j, k \in 1 .. n + 1
  <2> SUFFICES ASSUME j < k PROVE t[j].base + t[j].count < t[k].base
    OBVIOUS
  <2>1. CASE j = at
    <3>1. k # at /\ k > at
      BY <2>1
    <3>2. To(k) \in 1 .. n /\ at <= To(k) /\ t[k] = l[To(k)]
      BY <1>4, <1>6, <3>1
    <3> QED
      BY <1>1, <1>3, <2>1, <3>2 DEF BeginAfter
  <2>2. CASE k = at
    <3>1. j # at /\ j < at
      BY <2>2
    <3>2. To(j) \in 1 .. n /\ To(j) < at /\ t[j] = l[To(j)]
      BY <1>4, <1>6, <3>1
    <3> QED
      BY <1>1, <1>3, <2>2, <3>2 DEF EndBefore
  <2>3. CASE j # at /\ k # at
    <3>1. /\ To(j) \in 1 .. n /\ To(k) \in 1 .. n /\ To(j) < To(k)
          /\ t[j] = l[To(j)] /\ t[k] = l[To(k)]
      BY <1>4, <1>5, <2>3
    <3> QED
      BY <1>1, <3>1 DEF Ascending
  <2> QED
    BY <2>1, <2>2, <2>3
<1>9. \A p : p \in PagesIn(t) <=> \E k \in 1 .. n + 1 : p \in Within(t[k])
  BY <1>2, PagesInIs
<1>10. \A p : p \in PagesIn(l) <=> \E k \in 1 .. n : p \in Within(l[k])
  BY <1>1, PagesInIs
<1>11. PagesIn(t) = PagesIn(l) \cup Within(r)
  <2>1. ASSUME NEW p, p \in PagesIn(t)
        PROVE  p \in PagesIn(l) \cup Within(r)
    BY <1>3, <1>4, <1>9, <1>10, <2>1
  <2>2. ASSUME NEW p, p \in PagesIn(l)
        PROVE  p \in PagesIn(t)
    <3>1. PICK k \in 1 .. n : p \in Within(l[k])
      BY <1>10, <2>2
    <3>2. PICK j \in 1 .. n + 1 : j # at /\ To(j) = k
      BY <1>7
    <3> QED
      BY <1>4, <1>9, <3>1, <3>2
  <2>3. ASSUME NEW p, p \in Within(r)
        PROVE  p \in PagesIn(t)
    <3>1. at \in 1 .. n + 1
      BY <1>1
    <3> QED
      BY <1>3, <1>9, <2>3, <3>1
  <2> QED
    BY <2>1, <2>2, <2>3
<1> QED
  BY <1>1, <1>2, <1>3, <1>8, <1>11 DEF Ascending

(* Where ArenaFreeListInsert divides the list: what is before ends before  *)
(* the range, and what is after begins after it.                           *)
LEMMA BeforeIs ==
    ASSUME NEW l, Ascending(l), NEW r \in Ranges, Within(r) \cap PagesIn(l) = {},
           NEW b, b = Cardinality({k \in DOMAIN l : l[k].base < r.base})
    PROVE  /\ b \in 0 .. Len(l)
           /\ \A k \in 1 .. Len(l) :
                 /\ k <= b => l[k].base + l[k].count <= r.base
                 /\ b < k => r.base + r.count <= l[k].base
<1>1. PICK n \in Nat : n = Len(l) /\ DOMAIN l = 1 .. n /\ l \in Seq(Ranges)
  BY DEF Ascending
<1>2. PICK S : S = {k \in 1 .. n : l[k].base < r.base}
  OBVIOUS
<1>3. \A k \in 1 .. n : l[k].base \in Nat /\ l[k].count \in Nat /\ l[k].count > 0 /\ l[k] \in Ranges
  <2>1. \A k \in 1 .. n : l[k] \in Ranges
    BY <1>1
  <2> QED
    BY <2>1, WithinIs
<1>4. r.base \in Nat /\ r.count \in Nat /\ r.count > 0
  BY WithinIs
<1>5. PICK m \in 0 .. n : S = 1 .. m
  <2>1. CASE S = {}
    <3>1. 1 .. 0 = {} /\ 0 \in 0 .. n
      BY <1>1
    <3> QED
      BY <2>1, <3>1
  <2>2. CASE S # {}
    <3>1. S \subseteq 0 .. n
      BY <1>2
    <3>2. PICK m \in S : \A y \in S : m >= y
      BY <2>2, <3>1, GreatestMember
    <3>3. m \in 1 .. n /\ l[m].base < r.base
      BY <1>2, <3>2
    <3>4. \A k \in 1 .. m : k \in S
      <4> TAKE k \in 1 .. m
      <4>1. k \in 1 .. n
        BY <3>3
      <4>2. k = m \/ l[k].base + l[k].count < l[m].base
        BY <1>1, <3>3, <4>1 DEF Ascending
      <4>3. l[k].base < r.base
        BY <1>3, <1>4, <3>3, <4>1, <4>2
      <4> QED
        BY <1>2, <4>1, <4>3
    <3>5. \A k \in S : k \in 1 .. m
      BY <1>2, <3>2
    <3>6. S = 1 .. m
      BY <3>4, <3>5
    <3> QED
      BY <1>1, <3>3, <3>6
  <2> QED
    BY <2>1, <2>2
<1>6. b = m
  <2>1. 1 \in Int /\ m \in Int
    OBVIOUS
  <2>2. Cardinality(1 .. m) = IF 1 > m THEN 0 ELSE m - 1 + 1
    BY <2>1, FS_Interval
  <2>3. Cardinality(1 .. m) = m
    BY <2>2
  <2>4. b = Cardinality(S)
    BY <1>1, <1>2
  <2> QED
    BY <1>5, <2>3, <2>4
<1>7. ASSUME NEW k \in 1 .. n, NEW p \in Nat, p \in Within(r), p \in Within(l[k])
      PROVE  FALSE
  BY <1>1, <1>7, PagesInIs
<1>8. ASSUME NEW k \in 1 .. n, k <= b
      PROVE  l[k].base + l[k].count <= r.base
  <2>1. l[k].base < r.base
    BY <1>2, <1>5, <1>6, <1>8
  <2>2. r.base \in Within(r)
    BY <1>4, WithinIs
  <2>3. r.base \notin Within(l[k])
    BY <1>4, <1>7, <2>2
  <2> QED
    BY <1>3, <1>4, <2>1, <2>3, WithinIs
<1>9. ASSUME NEW k \in 1 .. n, b < k
      PROVE  r.base + r.count <= l[k].base
  <2>1. ~(l[k].base < r.base)
    BY <1>2, <1>5, <1>6, <1>9
  <2>2. l[k].base \in Within(l[k])
    BY <1>3, WithinIs
  <2>3. l[k].base \notin Within(r)
    BY <1>3, <1>7, <2>2
  <2> QED
    BY <1>3, <1>4, <2>1, <2>3, WithinIs
<1> QED
  BY <1>1, <1>5, <1>6, <1>8, <1>9

(* A range that grows at its end.                                          *)
LEMMA GrowsIs ==
    ASSUME NEW r \in Ranges, NEW c \in Nat
    PROVE  /\ [r EXCEPT !.count = @ + c] \in Ranges
           /\ [r EXCEPT !.count = @ + c].base = r.base
           /\ [r EXCEPT !.count = @ + c].count = r.count + c
  BY DEF Ranges

(* A range that ends where the next begins, and both as one.               *)
LEMMA TogetherIs ==
    ASSUME NEW q \in Ranges, NEW r \in Ranges, NEW u \in Ranges,
           q.base + q.count = r.base, u.base = q.base, u.count = q.count + r.count
    PROVE  Within(u) = Within(q) \cup Within(r)
<1>1. /\ q.base \in Nat /\ q.count \in Nat /\ q.count > 0 /\ r.base \in Nat /\ r.count \in Nat /\ r.count > 0
      /\ u.base \in Nat /\ u.count \in Nat /\ u.count > 0
  BY WithinIs
<1>2. \A p \in Nat : p \in Within(u) <=> p \in Within(q) \/ p \in Within(r)
  BY <1>1, WithinIs
<1> QED
  BY <1>2, WithinIs

(* Joined, upon a range that ends where the one put in begins.             *)
LEMMA JoinedIs ==
    ASSUME NEW l, Ascending(l), NEW at \in 1 .. Len(l), NEW r \in Ranges,
           l[at].base + l[at].count = r.base,
           \A k \in 1 .. Len(l) : at < k => r.base + r.count <= l[k].base,
           NEW t, t = Joined(l, at, r.count)
    PROVE  /\ Ascending(t) /\ Len(t) <= Len(l)
           /\ PagesIn(t) = PagesIn(l) \cup Within(r)
<1>1. PICK n \in Nat : n = Len(l) /\ DOMAIN l = 1 .. n /\ l \in Seq(Ranges)
  BY DEF Ascending
<1>next. PICK x \in Nat : x = at + 1 /\ at \in 1 .. n
  BY <1>1
<1>2. \A k \in 1 .. n : l[k].base \in Nat /\ l[k].count \in Nat /\ l[k].count > 0 /\ l[k] \in Ranges
  <2>1. \A k \in 1 .. n : l[k] \in Ranges
    BY <1>1
  <2> QED
    BY <2>1, WithinIs
<1>3. r.base \in Nat /\ r.count \in Nat /\ r.count > 0
  BY WithinIs
<1>4. PICK g \in Ranges : /\ g = [l[at] EXCEPT !.count = @ + r.count]
                          /\ g.base = l[at].base /\ g.count = l[at].count + r.count
  <2>1. PICK o \in Ranges : o = l[at]
    BY <1>1, <1>2
  <2>2. PICK by \in Nat : by = r.count
    BY <1>3
  <2> QED
    BY <2>1, <2>2, GrowsIs
<1>grown. g \in Ranges /\ g.base = l[at].base /\ g.count = l[at].count + r.count
  BY <1>4
<1>5. [l EXCEPT ![at].count = @ + r.count] = Replaced(l, at, g)
  BY <1>1, <1>4 DEF Replaced
<1>6. Within(g) = Within(l[at]) \cup Within(r)
  BY <1>1, <1>2, <1>4, TogetherIs
<1>7. EndBefore(l, at, g)
  BY <1>1, <1>4 DEF Ascending, EndBefore
<1>8. Within(l[at]) \subseteq PagesIn(l)
  BY <1>1, PagesInIs
<1>9. CASE ~(at < n /\ l[at].base + l[at].count + r.count = l[x].base)
  <2>1. t = Replaced(l, at, g)
    BY <1>1, <1>next, <1>5, <1>9 DEF Joined
  <2>2. BeginAfter(l, at, g)
    <3> SUFFICES ASSUME NEW k \in 1 .. n, at < k PROVE g.base + g.count < l[k].base
      BY <1>1 DEF BeginAfter
    <3>1. x \in 1 .. n /\ at < x
      BY <1>1, <1>next
    <3>2. r.base + r.count <= l[x].base /\ g.base + g.count = r.base + r.count
      BY <1>1, <1>2, <1>3, <1>4, <3>1
    <3>3. r.base + r.count # l[x].base
      <4>1. l[at].base \in Nat /\ l[at].count \in Nat /\ at < n
        BY <1>1, <1>next, <1>2, <3>1
      <4> QED
        BY <1>3, <1>9, <4>1
    <3>4. k = x \/ l[x].base + l[x].count < l[k].base
      BY <1>1, <1>next, <3>1 DEF Ascending
    <3> QED
      <4>1. /\ l[k].base \in Nat /\ l[x].base \in Nat
            /\ l[x].count \in Nat /\ l[x].count > 0
        BY <1>2, <3>1
      <4>2. r.base + r.count < l[x].base
        <5>1. PICK end \in Nat, start \in Nat : end = r.base + r.count /\ start = l[x].base
          BY <1>3, <4>1
        <5>2. end <= start /\ end # start
          BY <3>2, <3>3, <5>1
        <5> QED
          BY <5>1, <5>2
      <4>3. r.base + r.count < l[k].base
        <5>1. CASE k = x
          BY <4>2, <5>1
        <5>2. CASE l[x].base + l[x].count < l[k].base
          BY <1>1, <1>3, <4>1, <4>2, <5>2
        <5> QED
          BY <3>4, <5>1, <5>2
      <4> QED
        BY <3>2, <4>3
  <2>3. /\ Ascending(t) /\ Len(t) = Len(l)
        /\ PagesIn(t) = (PagesIn(l) \ Within(l[at])) \cup Within(g)
    BY <1>grown, <1>7, <2>1, <2>2, ReplacedIs
  <2> QED
    BY <1>1, <1>6, <1>8, <2>3
<1>10. CASE at < n /\ l[at].base + l[at].count + r.count = l[x].base
  <2>1. x \in 1 .. n /\ at \in 1 .. n - 1 /\ at < x /\ x - 1 = at
    BY <1>1, <1>next, <1>10
  <2>2. PICK h \in Ranges : /\ h = [g EXCEPT !.count = @ + l[x].count]
                            /\ h.base = g.base /\ h.count = g.count + l[x].count
    BY <1>2, <1>4, <2>1, GrowsIs
  <2>both. h \in Ranges /\ h.base = g.base /\ h.count = g.count + l[x].count
    BY <2>2
  <2>3. PICK d : d = RemoveAt(l, x)
    OBVIOUS
  <2>4. /\ Ascending(d) /\ Len(d) = n - 1
        /\ \A k \in 1 .. n - 1 : d[k] = IF k < x THEN l[k] ELSE l[k + 1]
        /\ PagesIn(d) = PagesIn(l) \ Within(l[x])
    <3>1. x \in 1 .. Len(l)
      BY <1>1, <2>1
    <3>2. Ascending(d) /\ Len(d) = Len(l) - 1
      BY <2>3, <3>1, DroppedIs
    <3>3. \A k \in 1 .. Len(l) - 1 : d[k] = IF k < x THEN l[k] ELSE l[k + 1]
      BY <1>1, <2>3, <3>1, RemoveAtIs
    <3>4. PagesIn(d) = PagesIn(l) \ Within(l[x])
      BY <1>1, <2>3, <3>1, DroppedIs
    <3> QED
      BY <1>1, <3>2, <3>3, <3>4
  <2>5. PICK two : two = Replaced(l, at, h)
    OBVIOUS
  <2>6. two \in Seq(Ranges) /\ Len(two) = n
    BY <1>1, <2>2, <2>5 DEF Replaced
  <2>7. t = RemoveAt(two, x)
    <3>1. [Replaced(l, at, g) EXCEPT ![at].count = @ + l[x].count] = two
      BY <1>1, <2>2, <2>5 DEF Replaced
    <3> QED
      BY <1>1, <1>next, <1>5, <1>10, <3>1 DEF Joined
  <2>8. /\ t \in Seq(Ranges) /\ Len(t) = n - 1
        /\ \A k \in 1 .. n - 1 : t[k] = IF k < x THEN two[k] ELSE two[k + 1]
    <3>1. x \in 1 .. Len(two)
      BY <2>1, <2>6
    <3> QED
      BY <2>6, <2>7, <3>1, RemoveAtIs
  <2>9. t = Replaced(d, at, h)
    <3>1. d \in Seq(Ranges) /\ DOMAIN d = 1 .. n - 1 /\ DOMAIN t = 1 .. n - 1
      BY <1>1, <2>4, <2>8 DEF Ascending
    <3>2. \A k \in 1 .. n - 1 : t[k] = IF k = at THEN h ELSE d[k]
      BY <1>1, <2>1, <2>4, <2>5, <2>8 DEF Replaced
    <3>3. /\ t \in [1 .. n - 1 -> Ranges] /\ d \in [1 .. n - 1 -> Ranges]
      BY <2>8, <3>1
    <3> QED
      BY <2>both, <3>2, <3>3 DEF Replaced
  <2>10. EndBefore(d, at, h)
    BY <1>1, <1>7, <2>1, <2>2, <2>4 DEF EndBefore
  <2>11. BeginAfter(d, at, h)
    <3> SUFFICES ASSUME NEW k \in 1 .. n - 1, at < k PROVE h.base + h.count < d[k].base
      BY <2>4 DEF BeginAfter
    <3>1. k + 1 \in 1 .. n /\ x < k + 1 /\ d[k] = l[k + 1]
      BY <1>1, <2>1, <2>4
    <3>2. l[x].base + l[x].count < l[k + 1].base
      BY <1>1, <2>1, <3>1 DEF Ascending
    <3>3. h.base + h.count = l[x].base + l[x].count
      <4>1. /\ l[at].base \in Nat /\ l[at].count \in Nat
            /\ l[x].base \in Nat /\ l[x].count \in Nat
        BY <1>2, <2>1
      <4> QED
        BY <1>3, <1>grown, <1>10, <2>both, <4>1, SMTT(30)
    <3> QED
      BY <3>1, <3>2, <3>3
  <2>12. /\ Ascending(t) /\ Len(t) = n - 1
         /\ PagesIn(t) = (PagesIn(d) \ Within(d[at])) \cup Within(h)
    <3>1. at \in 1 .. Len(d) /\ Len(d) = n - 1 /\ Ascending(d)
      BY <2>1, <2>4
    <3>2. Ascending(t) /\ Len(t) = Len(d)
      BY <2>both, <2>9, <2>10, <2>11, <3>1, ReplacedIs
    <3>3. PagesIn(t) = (PagesIn(d) \ Within(d[at])) \cup Within(h)
      BY <2>both, <2>9, <2>10, <2>11, <3>1, ReplacedIs
    <3> QED
      BY <3>1, <3>2, <3>3
  <2>13. d[at] = l[at]
    BY <2>1, <2>4
  <2>14. Within(h) = Within(g) \cup Within(l[x])
    <3>1. g.base + g.count = l[x].base
      BY <1>2, <1>3, <1>4, <1>10, <2>1
    <3>2. /\ g \in Ranges /\ h \in Ranges /\ l[x] \in Ranges
          /\ h.base = g.base /\ h.count = g.count + l[x].count
      BY <1>2, <1>4, <2>1, <2>2
    <3> QED
      BY <3>1, <3>2, TogetherIs
  <2>15. Within(l[x]) \subseteq PagesIn(l)
    BY <1>1, <2>1, PagesInIs
  <2>16. PagesIn(t) = PagesIn(l) \cup Within(r)
    BY <1>6, <1>8, <2>4, <2>12, <2>13, <2>14, <2>15
  <2> QED
    BY <1>1, <2>12, <2>16
<1> QED
  BY <1>9, <1>10

(* ArenaFreeListInsert: the pages of the range are upon the list, or they  *)
(* are forfeit.                                                            *)
LEMMA InsertIs ==
    ASSUME NEW l, Ascending(l), Len(l) <= ListCapacity, NEW range \in Ranges,
           Within(range) \cap PagesIn(l) = {}, ArenaFreeListInsert(l, range)
    PROVE  /\ Ascending(list') /\ Len(list') <= ListCapacity
           /\ \/ PagesIn(list') = PagesIn(l) \cup Within(range) /\ forfeit' = forfeit
              \/ list' = l /\ forfeit' = forfeit \cup Within(range)
<1>1. PICK n \in Nat : n = Len(l) /\ DOMAIN l = 1 .. n /\ l \in Seq(Ranges)
  BY DEF Ascending
<1>2. PICK b \in 0 .. n :
         /\ b = Cardinality({k \in DOMAIN l : l[k].base < range.base})
         /\ \A k \in 1 .. n :
               /\ k <= b => l[k].base + l[k].count <= range.base
               /\ b < k => range.base + range.count <= l[k].base
  BY <1>1, BeforeIs
<1>3. PICK t : t = list'
  OBVIOUS
<1>4. PICK ends, begins :
         /\ ends <=> b > 0 /\ l[b].base + l[b].count = range.base
         /\ begins <=> b < n /\ range.base + range.count = l[b + 1].base
  OBVIOUS
<1>5. \A k \in 1 .. n : l[k].base \in Nat /\ l[k].count \in Nat /\ l[k].count > 0 /\ l[k] \in Ranges
  <2>1. \A k \in 1 .. n : l[k] \in Ranges
    BY <1>1
  <2> QED
    BY <2>1, WithinIs
<1>6. range.base \in Nat /\ range.count \in Nat /\ range.count > 0 /\ ListCapacity \in Nat
  BY WithinIs, ArenaAssumption
<1>7. ~ends => \A k \in 1 .. n : k <= b => l[k].base + l[k].count < range.base
  <2> SUFFICES ASSUME ~ends, NEW k \in 1 .. n, k <= b
               PROVE  l[k].base + l[k].count < range.base
    OBVIOUS
  <2>1. b \in 1 .. n /\ l[b].base + l[b].count < range.base
    <3>1. b \in 1 .. n /\ b > 0
      BY <1>1, <1>2
    <3>2. l[b].base + l[b].count # range.base /\ l[b].base + l[b].count <= range.base
      BY <1>2, <1>4, <3>1
    <3>3. l[b].base \in Nat /\ l[b].count \in Nat
      BY <1>5, <3>1
    <3> QED
      BY <1>6, <3>1, <3>2, <3>3
  <2>2. k = b \/ l[k].base + l[k].count < l[b].base
    BY <1>1, <1>2, <2>1 DEF Ascending
  <2>3. l[k].base \in Nat /\ l[k].count \in Nat /\ l[b].base \in Nat /\ l[b].count \in Nat /\ l[b].count > 0
    BY <1>5, <2>1
  <2>4. CASE k = b
    BY <2>1, <2>4
  <2>5. CASE l[k].base + l[k].count < l[b].base
    BY <1>1, <1>6, <2>1, <2>3, <2>5
  <2> QED
    BY <2>2, <2>4, <2>5
<1>8. ~begins => \A k \in 1 .. n : b < k => range.base + range.count < l[k].base
  <2> SUFFICES ASSUME ~begins, NEW k \in 1 .. n, b < k
               PROVE  range.base + range.count < l[k].base
    OBVIOUS
  <2>1. b + 1 \in 1 .. n /\ range.base + range.count < l[b + 1].base
    <3>1. b + 1 \in 1 .. n /\ b < n /\ b < b + 1
      BY <1>1, <1>2
    <3>2. range.base + range.count # l[b + 1].base /\ range.base + range.count <= l[b + 1].base
      BY <1>2, <1>4, <3>1
    <3>3. l[b + 1].base \in Nat
      BY <1>5, <3>1
    <3> QED
      BY <1>6, <3>1, <3>2, <3>3
  <2>2. k = b + 1 \/ l[b + 1].base + l[b + 1].count < l[k].base
    BY <1>1, <1>2, <2>1 DEF Ascending
  <2>3. l[k].base \in Nat /\ l[b + 1].base \in Nat /\ l[b + 1].count \in Nat /\ l[b + 1].count > 0
    BY <1>5, <2>1
  <2>4. CASE k = b + 1
    BY <2>1, <2>4
  <2>5. CASE l[b + 1].base + l[b + 1].count < l[k].base
    BY <1>1, <1>6, <2>1, <2>3, <2>5
  <2> QED
    BY <2>2, <2>4, <2>5
<1>9. CASE ends
  <2>1. t = Joined(l, b, range.count) /\ forfeit' = forfeit
    BY <1>1, <1>2, <1>3, <1>4, <1>9 DEF ArenaFreeListInsert
  <2>2. /\ Ascending(t) /\ Len(t) <= Len(l) /\ PagesIn(t) = PagesIn(l) \cup Within(range)
    <3>1. b \in 1 .. Len(l) /\ l[b].base + l[b].count = range.base
      BY <1>1, <1>2, <1>4, <1>9
    <3>2. \A k \in 1 .. Len(l) : b < k => range.base + range.count <= l[k].base
      BY <1>1, <1>2
    <3> QED
      BY <2>1, <3>1, <3>2, JoinedIs
  <2>3. Len(t) \in Nat
    BY <2>2 DEF Ascending
  <2> QED
    BY <1>1, <1>3, <1>6, <2>1, <2>2, <2>3
<1>10. CASE ~ends /\ begins
  <2>1. PICK r : r = [base |-> range.base, count |-> range.count + l[b + 1].count]
    OBVIOUS
  <2>2. b + 1 \in 1 .. n
    BY <1>1, <1>4, <1>10
  <2>3. r \in Ranges /\ r.base = range.base /\ r.count = range.count + l[b + 1].count
    <3>1. range.count + l[b + 1].count \in Nat \ {0}
      BY <1>5, <1>6, <2>2
    <3> QED
      BY <1>6, <2>1, <3>1, RangeIs
  <2>4. t = Replaced(l, b + 1, r) /\ forfeit' = forfeit
    BY <1>1, <1>2, <1>3, <1>4, <1>10, <2>1 DEF ArenaFreeListInsert, Replaced
  <2>5. EndBefore(l, b + 1, r)
    BY <1>1, <1>2, <1>7, <1>10, <2>3 DEF EndBefore
  <2>6. BeginAfter(l, b + 1, r)
    <3> SUFFICES ASSUME NEW k \in 1 .. n, b + 1 < k PROVE r.base + r.count < l[k].base
      BY <1>1 DEF BeginAfter
    <3>1. l[b + 1].base + l[b + 1].count < l[k].base
      BY <1>1, <2>2 DEF Ascending
    <3>2. range.base + range.count = l[b + 1].base
      BY <1>4, <1>10
    <3> QED
      BY <1>5, <1>6, <2>2, <2>3, <3>1, <3>2
  <2>7. /\ Ascending(t) /\ Len(t) = Len(l)
        /\ PagesIn(t) = (PagesIn(l) \ Within(l[b + 1])) \cup Within(r)
    <3>1. b + 1 \in 1 .. Len(l)
      BY <1>1, <2>2
    <3>2. r \in Ranges /\ t = Replaced(l, b + 1, r)
      BY <2>3, <2>4
    <3> QED
      BY <2>5, <2>6, <3>1, <3>2, ReplacedIs
  <2>8. Within(r) = Within(range) \cup Within(l[b + 1])
    BY <1>4, <1>5, <1>10, <2>2, <2>3, TogetherIs
  <2>9. Within(l[b + 1]) \subseteq PagesIn(l)
    BY <1>1, <2>2, PagesInIs
  <2> QED
    BY <1>3, <2>4, <2>7, <2>8, <2>9
<1>11. CASE ~ends /\ ~begins /\ n >= ListCapacity
  <2>1. list' = l /\ forfeit' = forfeit \cup Within(range)
    BY <1>1, <1>2, <1>4, <1>11 DEF ArenaFreeListInsert
  <2> QED
    BY <2>1
<1>12. CASE ~ends /\ ~begins /\ ~(n >= ListCapacity)
  <2>1. t = InsertAt(l, b + 1, range) /\ forfeit' = forfeit
    BY <1>1, <1>2, <1>3, <1>4, <1>12 DEF ArenaFreeListInsert
  <2>2. b + 1 \in 1 .. Len(l) + 1 /\ b + 1 - 1 = b
    BY <1>1, <1>2
  <2>3. EndBefore(l, b + 1, range)
    BY <1>1, <1>2, <1>7, <1>12 DEF EndBefore
  <2>4. BeginAfter(l, b, range)
    BY <1>1, <1>2, <1>8, <1>12 DEF BeginAfter
  <2>5. Ascending(t) /\ Len(t) = n + 1 /\ PagesIn(t) = PagesIn(l) \cup Within(range)
    BY <1>1, <2>1, <2>2, <2>3, <2>4, PutInIs
  <2> QED
    BY <1>3, <1>6, <1>12, <2>1, <2>5
<1> QED
  BY <1>9, <1>10, <1>11, <1>12

(***************************************************************************)
(* What the arena takes.                                                   *)
(***************************************************************************)

ListStands ==
    /\ Ascending(list) /\ Len(list) <= ListCapacity
    /\ bump \in Nat /\ bump <= Pages
    /\ PagesIn(list) \subseteq 0 .. bump - 1

(* What a list is without a range's worth of pages, and where they come    *)
(* from: `more` are the pages issued for the first time.                   *)
TakenFrom(free, range, rest, more) ==
    /\ rest \cap range = {}
    /\ rest \cup range = free \cup more

(* A range divided in two.                                                 *)
LEMMA DividedIs ==
    ASSUME NEW q \in Ranges, NEW count \in Nat, 0 < count, count < q.count,
           NEW r \in Ranges, r.base = q.base, r.count = count,
           NEW u \in Ranges, u.base = q.base + count, u.count = q.count - count
    PROVE  Within(q) = Within(r) \cup Within(u) /\ Within(r) \cap Within(u) = {}
<1>1. /\ q.base \in Nat /\ q.count \in Nat /\ r.base \in Nat /\ r.count \in Nat
      /\ u.base \in Nat /\ u.count \in Nat
  BY WithinIs
<1>2. \A p \in Nat : /\ p \in Within(q) <=> p \in Within(r) \/ p \in Within(u)
                     /\ ~(p \in Within(r) /\ p \in Within(u))
  BY <1>1, WithinIs
<1> QED
  BY <1>2, WithinIs

(* ArenaFreeListTake.                                                      *)
LEMMA TakeIs ==
    ASSUME ListStands, NEW count \in Nat, RoomFor(count),
           NEW r, r = RangeFor(count), NEW t, t = ListAfterTake(count),
           NEW top, top = BumpAfterTake(count)
    PROVE  /\ r \in Ranges /\ r.count = count
           /\ Ascending(t) /\ Len(t) <= ListCapacity
           /\ top \in Nat /\ bump <= top /\ top <= Pages
           /\ TakenFrom(PagesIn(list), Within(r), PagesIn(t), bump .. top - 1)
<1>1. PICK n \in Nat : n = Len(list) /\ DOMAIN list = 1 .. n /\ list \in Seq(Ranges)
  BY DEF ListStands, Ascending
<1>2. /\ ListCapacity \in Nat /\ Pages \in Nat /\ bump \in Nat
      /\ count \in Nat \ {0} /\ count <= Pages
  BY ArenaAssumption DEF ListStands, RoomFor
<1>3. CASE Fits(count) = {}
  <2>1. /\ t = list /\ top = bump + count /\ bump + count <= Pages
        /\ r = [base |-> bump, count |-> count]
    BY <1>3 DEF ListAfterTake, BumpAfterTake, RangeFor, RoomFor
  <2>2. r \in Ranges /\ r.base = bump /\ r.count = count
    BY <1>2, <2>1, RangeIs
  <2>3. Within(r) = bump .. top - 1
    <3>1. Within(r) = bump .. bump + count - 1
      BY <2>2 DEF Within
    <3> QED
      BY <1>2, <2>1, <3>1
  <2>4. (0 .. bump - 1) \cap (bump .. top - 1) = {}
    BY <1>2, <2>1
  <2>5. TakenFrom(PagesIn(list), Within(r), PagesIn(t), bump .. top - 1)
    BY <2>1, <2>3, <2>4 DEF TakenFrom, ListStands
  <2> QED
    BY <1>2, <2>1, <2>2, <2>5 DEF ListStands
<1>4. CASE Fits(count) # {}
  <2>1. PICK at \in 1 .. n : at = Min(Fits(count)) /\ list[at].count >= count
    <3>1. Fits(count) \subseteq 1 .. n /\ Fits(count) \subseteq Nat
      BY <1>1 DEF Fits
    <3>2. Min(Fits(count)) \in Fits(count)
      BY <1>4, <3>1, LeastMember
    <3> QED
      BY <3>1, <3>2 DEF Fits
  <2>2. PICK q \in Ranges : /\ q = list[at] /\ q.base \in Nat
                            /\ q.count \in Nat /\ q.count >= count
    <3>1. list[at] \in Ranges
      BY <1>1, <2>1
    <3> QED
      BY <2>1, <3>1, WithinIs
  <2>3. /\ r = [base |-> q.base, count |-> count] /\ top = bump /\ bump .. top - 1 = {}
    BY <1>2, <1>4, <2>1, <2>2 DEF BumpAfterTake, RangeFor
  <2>4. r \in Ranges /\ r.base = q.base /\ r.count = count
    BY <1>2, <2>2, <2>3, RangeIs
  <2>5. Within(q) \subseteq PagesIn(list)
    BY <1>1, <2>1, <2>2, PagesInIs
  <2>6. CASE q.count = count
    <3>1. t = RemoveAt(list, at)
      BY <1>4, <2>1, <2>2, <2>6 DEF ListAfterTake
    <3>2. /\ Ascending(t) /\ Len(t) = Len(list) - 1
          /\ PagesIn(t) = PagesIn(list) \ Within(list[at])
      <4>1. Ascending(list) /\ at \in 1 .. Len(list)
        BY <1>1, <2>1 DEF ListStands
      <4>2. Ascending(t) /\ Len(t) = Len(list) - 1
        BY <1>1, <3>1, <4>1, DroppedIs
      <4>3. PagesIn(t) = PagesIn(list) \ Within(list[at])
        BY <1>1, <3>1, <4>1, DroppedIs
      <4> QED
        BY <4>2, <4>3
    <3>3. Within(r) = Within(q)
      BY <2>4, <2>6 DEF Within
    <3>4. TakenFrom(PagesIn(list), Within(r), PagesIn(t), bump .. top - 1)
      BY <2>2, <2>3, <2>5, <3>2, <3>3 DEF TakenFrom
    <3> QED
      BY <1>1, <1>2, <2>3, <2>4, <3>2, <3>4 DEF ListStands
  <2>7. CASE q.count # count
    <3>1. PICK u : u = [base |-> q.base + count, count |-> q.count - count]
      OBVIOUS
    <3>2. u \in Ranges /\ u.base = q.base + count /\ u.count = q.count - count
      <4>1. q.base + count \in Nat /\ q.count - count \in Nat \ {0}
        BY <1>2, <2>2, <2>7
      <4> QED
        BY <3>1, <4>1, RangeIs
    <3>3. t = Replaced(list, at, u)
      BY <1>1, <1>4, <2>1, <2>2, <2>7, <3>1 DEF ListAfterTake, Replaced
    <3>4. Ascending(list) /\ at \in 1 .. Len(list)
      BY <1>1, <2>1 DEF ListStands
    <3>5. EndBefore(list, at, u)
      <4> SUFFICES ASSUME NEW k \in 1 .. n, k < at
                   PROVE  list[k].base + list[k].count < u.base
        BY <1>1 DEF EndBefore
      <4>1. list[k].base + list[k].count < q.base
        BY <1>1, <2>1, <2>2, <3>4 DEF Ascending
      <4>2. list[k] \in Ranges
        BY <1>1
      <4>3. list[k].base \in Nat /\ list[k].count \in Nat
        BY <4>2, WithinIs
      <4> QED
        BY <1>1, <1>2, <2>2, <3>2, <4>1, <4>3
    <3>6. BeginAfter(list, at, u)
      <4> SUFFICES ASSUME NEW k \in 1 .. n, at < k
                   PROVE  u.base + u.count < list[k].base
        BY <1>1 DEF BeginAfter
      <4>1. q.base + q.count < list[k].base
        BY <1>1, <2>1, <2>2, <3>4 DEF Ascending
      <4>2. u.base + u.count = q.base + q.count
        BY <1>2, <2>2, <3>2
      <4> QED
        BY <4>1, <4>2
    <3>7. Ascending(t) /\ Len(t) = Len(list)
      BY <1>1, <3>2, <3>3, <3>4, <3>5, <3>6, ReplacedIs
    <3>8. PagesIn(t) = (PagesIn(list) \ Within(q)) \cup Within(u)
      <4>1. PagesIn(t) = (PagesIn(list) \ Within(list[at])) \cup Within(u)
        BY <1>1, <3>2, <3>3, <3>4, <3>5, <3>6, ReplacedIs
      <4> QED
        BY <2>2, <4>1
    <3>9. Within(q) = Within(r) \cup Within(u) /\ Within(r) \cap Within(u) = {}
      BY <1>2, <2>2, <2>4, <2>7, <3>2, DividedIs
    <3>10. TakenFrom(PagesIn(list), Within(r), PagesIn(t), bump .. top - 1)
      BY <2>3, <2>5, <3>8, <3>9 DEF TakenFrom
    <3> QED
      BY <1>2, <2>3, <2>4, <3>7, <3>10 DEF ListStands
  <2> QED
    BY <2>6, <2>7
<1> QED
  BY <1>3, <1>4

(***************************************************************************)
(* The pages below the bump pointer, divided among the free list, the      *)
(* large allocations, the device mappings, the slabs and what is forfeit.  *)
(***************************************************************************)

Divided(free, big, device, slab, lost, top) ==
    /\ free \cap (big \cup device \cup slab \cup lost) = {}
    /\ big \cap (device \cup slab \cup lost) = {}
    /\ device \cap (slab \cup lost) = {}
    /\ slab \cap lost = {}
    /\ free \cup big \cup device \cup slab \cup lost = 0 .. top - 1

(* The pages the bump pointer passes over.                                 *)
Passed(more, low, high) == more = low .. high - 1

(* What is taken goes to one of those places.                              *)
LEMMA TakenGoes ==
    ASSUME NEW free, NEW big, NEW device, NEW slab, NEW lost, NEW top \in Nat,
           Divided(free, big, device, slab, lost, top),
           NEW high \in Nat, top <= high, NEW more, Passed(more, top, high),
           NEW range, NEW rest, TakenFrom(free, range, rest, more)
    PROVE  /\ Divided(rest, big \cup range, device, slab, lost, high)
           /\ Divided(rest, big, device \cup range, slab, lost, high)
           /\ Divided(rest, big, device, slab \cup range, lost, high)
           /\ Divided(rest, big, device, slab, lost \cup range, high)
           /\ Divided(rest \cup range, big, device, slab, lost, high)
<1>1. /\ 0 .. high - 1 = (0 .. top - 1) \cup more
      /\ (0 .. top - 1) \cap more = {}
  BY DEF Passed
<1>2. rest \cap range = {} /\ rest \cup range = free \cup more
  BY DEF TakenFrom
<1>3. PICK all : /\ all = 0 .. top - 1
                 /\ 0 .. high - 1 = all \cup more /\ all \cap more = {}
  BY <1>1
<1>4. /\ big \subseteq all /\ device \subseteq all /\ slab \subseteq all /\ lost \subseteq all
      /\ free \subseteq all
  BY <1>3 DEF Divided
<1>5. /\ free \cap (big \cup device \cup slab \cup lost) = {}
      /\ big \cap (device \cup slab \cup lost) = {}
      /\ device \cap (slab \cup lost) = {} /\ slab \cap lost = {}
      /\ free \cup big \cup device \cup slab \cup lost = all
  BY <1>3 DEF Divided
<1>6. (range \cup rest) \cap (big \cup device \cup slab \cup lost) = {}
  BY <1>2, <1>3, <1>4, <1>5
<1>7. rest \cup range \cup big \cup device \cup slab \cup lost = 0 .. high - 1
  BY <1>2, <1>3, <1>5
<1>8. Divided(rest, big \cup range, device, slab, lost, high)
  BY <1>2, <1>5, <1>6, <1>7 DEF Divided
<1>9. Divided(rest, big, device \cup range, slab, lost, high)
  BY <1>2, <1>5, <1>6, <1>7 DEF Divided
<1>10. Divided(rest, big, device, slab \cup range, lost, high)
  BY <1>2, <1>5, <1>6, <1>7 DEF Divided
<1>11. Divided(rest, big, device, slab, lost \cup range, high)
  BY <1>2, <1>5, <1>6, <1>7 DEF Divided
<1>12. Divided(rest \cup range, big, device, slab, lost, high)
  BY <1>2, <1>5, <1>6, <1>7 DEF Divided
<1> QED
  BY <1>8, <1>9, <1>10, <1>11, <1>12

(* What a caller gives back goes upon the list or is forfeit.              *)
LEMMA LargeGivenBack ==
    ASSUME NEW free, NEW big, NEW device, NEW slab, NEW lost, NEW top,
           Divided(free, big, device, slab, lost, top), NEW range, range \subseteq big
    PROVE  /\ Divided(free \cup range, big \ range, device, slab, lost, top)
           /\ Divided(free, big \ range, device, slab, lost \cup range, top)
           /\ range \cap free = {}
<1>1. PICK all : all = 0 .. top - 1
  OBVIOUS
<1>2. /\ free \cap (big \cup device \cup slab \cup lost) = {}
      /\ big \cap (device \cup slab \cup lost) = {}
      /\ device \cap (slab \cup lost) = {} /\ slab \cap lost = {}
      /\ free \cup big \cup device \cup slab \cup lost = all
  BY <1>1 DEF Divided
<1>3. Divided(free \cup range, big \ range, device, slab, lost, top)
  BY <1>1, <1>2 DEF Divided
<1>4. Divided(free, big \ range, device, slab, lost \cup range, top)
  BY <1>1, <1>2 DEF Divided
<1> QED
  BY <1>2, <1>3, <1>4

(* A device mapping that is given up, likewise.                            *)
LEMMA DeviceGivenBack ==
    ASSUME NEW free, NEW big, NEW device, NEW slab, NEW lost, NEW top,
           Divided(free, big, device, slab, lost, top), NEW range, range \subseteq device
    PROVE  /\ Divided(free \cup range, big, device \ range, slab, lost, top)
           /\ Divided(free, big, device \ range, slab, lost \cup range, top)
           /\ range \cap free = {}
<1>1. PICK all : all = 0 .. top - 1
  OBVIOUS
<1>2. /\ free \cap (big \cup device \cup slab \cup lost) = {}
      /\ big \cap (device \cup slab \cup lost) = {}
      /\ device \cap (slab \cup lost) = {} /\ slab \cap lost = {}
      /\ free \cup big \cup device \cup slab \cup lost = all
  BY <1>1 DEF Divided
<1>3. Divided(free \cup range, big, device \ range, slab, lost, top)
  BY <1>1, <1>2 DEF Divided
<1>4. Divided(free, big, device \ range, slab, lost \cup range, top)
  BY <1>1, <1>2 DEF Divided
<1> QED
  BY <1>2, <1>3, <1>4

(* Ranges in the hands of callers have no page in common.                  *)
Apart(ranges) ==
    /\ ranges \subseteq Ranges
    /\ \A a, b \in ranges : a # b => Within(a) \cap Within(b) = {}

(* A range that has no page of theirs joins them.                          *)
LEMMA OneMore ==
    ASSUME NEW ranges, Apart(ranges), NEW r \in Ranges, Within(r) \cap Over(ranges) = {}
    PROVE  Apart(ranges \cup {r}) /\ Over(ranges \cup {r}) = Over(ranges) \cup Within(r)
<1>1. \A a \in ranges : Within(a) \subseteq Over(ranges)
  BY DEF Over
<1>2. Over(ranges \cup {r}) = Over(ranges) \cup Within(r)
  BY DEF Over
<1>3. \A a \in ranges : Within(a) \cap Within(r) = {}
  BY <1>1
<1> QED
  BY <1>2, <1>3 DEF Apart

(* A range leaves them, and takes its pages along.                         *)
LEMMA OneLess ==
    ASSUME NEW ranges, Apart(ranges), NEW r \in ranges
    PROVE  /\ Apart(ranges \ {r}) /\ Over(ranges \ {r}) = Over(ranges) \ Within(r)
           /\ r \in Ranges /\ Within(r) \subseteq Over(ranges)
<1>1. \A p : p \in Over(ranges) <=> \E a \in ranges : p \in Within(a)
  BY DEF Over
<1>2. \A p : p \in Over(ranges \ {r}) <=> \E a \in ranges : a # r /\ p \in Within(a)
  BY DEF Over
<1>3. \A a \in ranges : a # r => Within(a) \cap Within(r) = {}
  BY DEF Apart
<1>4. Over(ranges \ {r}) = Over(ranges) \ Within(r)
  BY <1>1, <1>2, <1>3
<1> QED
  BY <1>1, <1>4 DEF Apart

(* How many pages a range has.                                             *)
LEMMA WithinCounts ==
    ASSUME NEW r \in Ranges
    PROVE  IsFiniteSet(Within(r)) /\ Cardinality(Within(r)) = r.count
<1>1. PICK first \in Nat, many \in Nat : first = r.base /\ many = r.count /\ many > 0
  BY WithinIs
<1>2. PICK last \in Int : last = first + many - 1
  BY <1>1
<1>3. IsFiniteSet(first .. last) /\ Cardinality(first .. last) = IF first > last THEN 0 ELSE last - first + 1
  <2>1. first \in Int /\ last \in Int
    BY <1>1, <1>2
  <2> QED
    BY <2>1, FS_Interval
<1>4. Cardinality(first .. last) = many
  BY <1>1, <1>2, <1>3
<1>5. Within(r) = first .. last
  BY <1>1, <1>2 DEF Within
<1> QED
  BY <1>1, <1>3, <1>4, <1>5

(***************************************************************************)
(* The objects.                                                            *)
(***************************************************************************)

Things == ArenaPage \X Nat

(* Each object of a slab is with a caller, or once upon the list of its    *)
(* class: g are those with callers, s the slabs, o the lists, l the counts.*)
HeapSound(s, o, l, g) ==
    /\ s \in [ArenaPage -> Class \cup {"none"}]
    /\ o \in [Class -> Seq(Things)]
    /\ l \in [ArenaPage -> Nat]
    /\ g \subseteq Things
    /\ \A c \in Class : IsInjective(o[c])
    /\ \A c \in Class : \A x \in Things :
          x \in ToSet(o[c]) <=> s[x[1]] = c /\ x[2] \in 1 .. ObjectsOf[c] /\ x \notin g
    /\ \A x \in g : s[x[1]] \in Class /\ x[2] \in 1 .. ObjectsOf[s[x[1]]]
    /\ \A p \in ArenaPage : s[p] # "none" =>
          IsFiniteSet({x \in g : x[1] = p}) /\ l[p] = Cardinality({x \in g : x[1] = p})

(* The head of a list leaves it.                                           *)
LEMMA TailLoses ==
    ASSUME NEW S, NEW q \in Seq(S), q # <<>>, IsInjective(q)
    PROVE  /\ Head(q) \in S /\ Head(q) \in ToSet(q)
           /\ Tail(q) \in Seq(S) /\ IsInjective(Tail(q))
           /\ \A x : x \in ToSet(Tail(q)) <=> x \in ToSet(q) /\ x # Head(q)
<1>1. PICK n \in Nat \ {0} : n = Len(q) /\ DOMAIN q = 1 .. n
  OBVIOUS
<1>2. \A i, j \in 1 .. n : q[i] = q[j] => i = j
  BY <1>1 DEF IsInjective
<1>3. Head(q) = q[1] /\ Head(q) \in S
  BY <1>1
<1>4. PICK t \in Seq(S) : /\ t = Tail(q) /\ Len(t) = n - 1 /\ DOMAIN t = 1 .. n - 1
                          /\ \A i \in 1 .. n - 1 : t[i] = q[i + 1]
  <2>1. /\ Tail(q) \in Seq(S) /\ Len(Tail(q)) = n - 1
        /\ \A i \in 1 .. n - 1 : Tail(q)[i] = q[i + 1]
    BY <1>1, HeadTailProperties
  <2>2. PICK t \in Seq(S) : t = Tail(q)
    BY <2>1
  <2>3. Len(t) = n - 1 /\ \A i \in 1 .. n - 1 : t[i] = q[i + 1]
    BY <2>1, <2>2
  <2>4. DOMAIN t = 1 .. n - 1
    BY <2>3
  <2> QED
    BY <2>2, <2>3, <2>4
<1>5. \A i, j \in 1 .. n - 1 : t[i] = t[j] => i = j
  <2> TAKE i, j \in 1 .. n - 1
  <2> SUFFICES ASSUME t[i] = t[j] PROVE i = j
    OBVIOUS
  <2>1. i + 1 \in 1 .. n /\ j + 1 \in 1 .. n /\ q[i + 1] = q[j + 1]
    BY <1>4
  <2>2. i + 1 = j + 1
    BY <1>2, <2>1
  <2> QED
    BY <2>2
<1>6. \A x : x \in ToSet(q) <=> \E i \in 1 .. n : q[i] = x
  BY <1>1 DEF ToSet
<1>7. \A x : x \in ToSet(t) <=> \E i \in 1 .. n - 1 : t[i] = x
  BY <1>4 DEF ToSet
<1>8. \A x : x \in ToSet(t) <=> x \in ToSet(q) /\ x # Head(q)
  <2> TAKE x
  <2>1. ASSUME x \in ToSet(t) PROVE x \in ToSet(q) /\ x # Head(q)
    <3>1. PICK i \in 1 .. n - 1 : t[i] = x
      BY <1>7, <2>1
    <3>2. i + 1 \in 1 .. n /\ i + 1 # 1 /\ 1 \in 1 .. n /\ q[i + 1] = x
      BY <1>4, <3>1
    <3> QED
      BY <1>2, <1>3, <1>6, <3>2
  <2>2. ASSUME x \in ToSet(q), x # Head(q) PROVE x \in ToSet(t)
    <3>1. PICK i \in 1 .. n : q[i] = x
      BY <1>6, <2>2
    <3>2. i - 1 \in 1 .. n - 1 /\ (i - 1) + 1 = i
      BY <1>3, <2>2, <3>1
    <3>3. t[i - 1] = x
      BY <1>4, <3>1, <3>2
    <3> QED
      BY <1>7, <3>2, <3>3
  <2> QED
    BY <2>1, <2>2
<1>9. Head(q) \in ToSet(q)
  BY <1>1, <1>3, <1>6
<1>10. IsInjective(t)
  BY <1>4, <1>5 DEF IsInjective
<1> QED
  BY <1>3, <1>4, <1>8, <1>9, <1>10

(* An object that was not upon a list comes to its head.                   *)
LEMMA FrontGains ==
    ASSUME NEW S, NEW q \in Seq(S), NEW x \in S, x \notin ToSet(q), IsInjective(q)
    PROVE  /\ <<x>> \o q \in Seq(S) /\ IsInjective(<<x>> \o q)
           /\ \A y : y \in ToSet(<<x>> \o q) <=> y \in ToSet(q) \/ y = x
<1>1. PICK n \in Nat : n = Len(q) /\ DOMAIN q = 1 .. n
  OBVIOUS
<1>2. \A i, j \in 1 .. n : q[i] = q[j] => i = j
  BY <1>1 DEF IsInjective
<1>3. PICK t \in Seq(S) : /\ t = <<x>> \o q /\ Len(t) = n + 1 /\ DOMAIN t = 1 .. n + 1
                          /\ \A i \in 1 .. n + 1 : t[i] = IF i = 1 THEN x ELSE q[i - 1]
  <2>1. PICK u \in Seq(S) : u = <<x>> /\ Len(u) = 1 /\ u[1] = x
    <3>1. <<x>> \in Seq(S) /\ Len(<<x>>) = 1 /\ <<x>>[1] = x
      OBVIOUS
    <3> QED
      BY <3>1
  <2>2. /\ u \o q \in Seq(S) /\ Len(u \o q) = 1 + n
        /\ \A i \in 1 .. 1 + n : (u \o q)[i] = IF i <= 1 THEN u[i] ELSE q[i - 1]
    BY <1>1, <2>1, ConcatProperties
  <2>3. PICK t \in Seq(S) : t = u \o q /\ t = <<x>> \o q
    BY <2>1, <2>2
  <2>4. Len(t) = n + 1
    BY <2>2, <2>3
  <2>5. DOMAIN t = 1 .. n + 1
    BY <2>4
  <2>6. \A i \in 1 .. n + 1 : t[i] = IF i = 1 THEN x ELSE q[i - 1]
    <3> TAKE i \in 1 .. n + 1
    <3>1. i \in 1 .. 1 + n /\ (i <= 1 <=> i = 1)
      OBVIOUS
    <3>2. t[i] = IF i <= 1 THEN u[i] ELSE q[i - 1]
      BY <2>2, <2>3, <3>1
    <3> QED
      BY <2>1, <3>1, <3>2
  <2> QED
    BY <2>3, <2>4, <2>5, <2>6
<1>4. \A y : y \in ToSet(q) <=> \E i \in 1 .. n : q[i] = y
  BY <1>1 DEF ToSet
<1>5. \A y : y \in ToSet(t) <=> \E i \in 1 .. n + 1 : t[i] = y
  BY <1>3 DEF ToSet
<1>6. \A i \in 1 .. n : q[i] # x
  BY <1>4
<1>7. \A i, j \in 1 .. n + 1 : t[i] = t[j] => i = j
  <2> TAKE i, j \in 1 .. n + 1
  <2> SUFFICES ASSUME t[i] = t[j] PROVE i = j
    OBVIOUS
  <2>1. /\ i # 1 => i - 1 \in 1 .. n /\ t[i] = q[i - 1]
        /\ j # 1 => j - 1 \in 1 .. n /\ t[j] = q[j - 1]
        /\ i = 1 => t[i] = x
        /\ j = 1 => t[j] = x
    BY <1>3
  <2>2. i = 1 <=> j = 1
    BY <1>6, <2>1
  <2>3. i # 1 => i - 1 = j - 1
    BY <1>2, <2>1, <2>2
  <2> QED
    BY <2>2, <2>3
<1>8. \A y : y \in ToSet(t) <=> y \in ToSet(q) \/ y = x
  <2> TAKE y
  <2>1. ASSUME y \in ToSet(t) PROVE y \in ToSet(q) \/ y = x
    <3>1. PICK i \in 1 .. n + 1 : t[i] = y
      BY <1>5, <2>1
    <3>2. i # 1 => i - 1 \in 1 .. n /\ q[i - 1] = y
      BY <1>1, <1>3, <3>1
    <3> QED
      BY <1>3, <1>4, <3>1, <3>2
  <2>2. ASSUME y \in ToSet(q) PROVE y \in ToSet(t)
    <3>1. PICK i \in 1 .. n : q[i] = y
      BY <1>4, <2>2
    <3>2. i + 1 \in 1 .. n + 1 /\ t[i + 1] = y
      BY <1>3, <3>1
    <3> QED
      BY <1>5, <3>2
  <2>3. x \in ToSet(t)
    <3>1. 1 \in 1 .. n + 1 /\ t[1] = x
      BY <1>3
    <3> QED
      BY <1>5, <3>1
  <2> QED
    BY <2>1, <2>2, <2>3
<1>9. IsInjective(t)
  BY <1>3, <1>7 DEF IsInjective
<1> QED
  BY <1>3, <1>8, <1>9

(* The list of a class without its head, and one more live in a slab.      *)
Struck(o, c, q) == [o EXCEPT ![c] = Tail(q)]
Fronted(o, c, x) == [o EXCEPT ![c] = <<x>> \o @]
OneUp(l, p) == [l EXCEPT ![p] = @ + 1]
OneDown(l, p) == [l EXCEPT ![p] = @ - 1]

(* A caller is handed the head of a list.                                  *)
LEMMA HandedIs ==
    ASSUME NEW s, NEW o, NEW l, NEW g, HeapSound(s, o, l, g), NEW c \in Class, o[c] # <<>>,
           NEW x, x = Head(o[c])
    PROVE  /\ x \in Things /\ x[1] \in ArenaPage
           /\ HeapSound(s, Struck(o, c, o[c]), OneUp(l, x[1]), g \cup {x})
<1>1. o[c] \in Seq(Things) /\ IsInjective(o[c])
  BY DEF HeapSound
<1>2. /\ x \in Things /\ x \in ToSet(o[c])
      /\ Tail(o[c]) \in Seq(Things) /\ IsInjective(Tail(o[c]))
      /\ \A y : y \in ToSet(Tail(o[c])) <=> y \in ToSet(o[c]) /\ y # x
  BY <1>1, TailLoses
<1>3. s[x[1]] = c /\ x[2] \in 1 .. ObjectsOf[c] /\ x \notin g
  BY <1>2 DEF HeapSound
<1>4. PICK p \in ArenaPage : p = x[1]
  BY <1>2 DEF Things
<1>5. PICK q : q = Tail(o[c])
  OBVIOUS
<1>6. PICK o2 \in [Class -> Seq(Things)] :
         /\ o2 = Struck(o, c, o[c]) /\ o2[c] = q /\ \A d \in Class : d # c => o2[d] = o[d]
  <2>1. o \in [Class -> Seq(Things)] /\ q \in Seq(Things)
    BY <1>2, <1>5 DEF HeapSound
  <2>2. PICK o2 : o2 = [o EXCEPT ![c] = q]
    OBVIOUS
  <2>3. o2 = Struck(o, c, o[c])
    BY <1>5, <2>2 DEF Struck
  <2>4. o2 \in [Class -> Seq(Things)] /\ o2[c] = q /\ \A d \in Class : d # c => o2[d] = o[d]
    BY <2>1, <2>2
  <2> QED
    BY <2>3, <2>4
<1>7. PICK l2 \in [ArenaPage -> Nat] :
         /\ l2 = OneUp(l, p) /\ l2[p] = l[p] + 1 /\ \A r \in ArenaPage : r # p => l2[r] = l[r]
  <2>1. l \in [ArenaPage -> Nat]
    BY DEF HeapSound
  <2>2. PICK l2 : l2 = [l EXCEPT ![p] = @ + 1]
    OBVIOUS
  <2>3. l2 = OneUp(l, p)
    BY <2>2 DEF OneUp
  <2>4. /\ l2 \in [ArenaPage -> Nat] /\ l2[p] = l[p] + 1
        /\ \A r \in ArenaPage : r # p => l2[r] = l[r]
    BY <2>1, <2>2
  <2> QED
    BY <2>3, <2>4
<1>8. PICK g2 : g2 = g \cup {x}
  OBVIOUS
<1>9. g2 \subseteq Things
  BY <1>2, <1>8 DEF HeapSound
<1>10. \A d \in Class : IsInjective(o2[d])
  <2> TAKE d \in Class
  <2>1. IsInjective(o[d])
    BY DEF HeapSound
  <2>2. d # c => o2[d] = o[d]
    BY <1>6
  <2> QED
    BY <1>2, <1>5, <1>6, <2>1, <2>2
<1>11. ASSUME NEW d \in Class, NEW y \in Things
       PROVE  y \in ToSet(o2[d]) <=> s[y[1]] = d /\ y[2] \in 1 .. ObjectsOf[d] /\ y \notin g2
  <2>1. y \in ToSet(o[d]) <=> s[y[1]] = d /\ y[2] \in 1 .. ObjectsOf[d] /\ y \notin g
    BY DEF HeapSound
  <2>2. CASE d = c
    <3>1. y \in ToSet(o2[d]) <=> y \in ToSet(o[c]) /\ y # x
      BY <1>2, <1>5, <1>6, <2>2
    <3> QED
      BY <1>8, <2>1, <2>2, <3>1
  <2>3. CASE d # c
    <3>1. o2[d] = o[d]
      BY <1>6, <2>3
    <3>2. s[y[1]] = d => y # x
      BY <1>3, <2>3
    <3> QED
      BY <1>8, <2>1, <3>1, <3>2
  <2> QED
    BY <2>2, <2>3
<1>12. \A y \in g2 : s[y[1]] \in Class /\ y[2] \in 1 .. ObjectsOf[s[y[1]]]
  BY <1>3, <1>8 DEF HeapSound
<1>13. ASSUME NEW r \in ArenaPage, s[r] # "none"
       PROVE  IsFiniteSet({y \in g2 : y[1] = r}) /\ l2[r] = Cardinality({y \in g2 : y[1] = r})
  <2>1. PICK S : S = {y \in g : y[1] = r}
    OBVIOUS
  <2>2. IsFiniteSet(S) /\ l[r] = Cardinality(S)
    BY <1>13, <2>1 DEF HeapSound
  <2>3. CASE r = p
    <3>1. {y \in g2 : y[1] = r} = S \cup {x} /\ x \notin S
      BY <1>3, <1>4, <1>8, <2>1, <2>3
    <3>2. IsFiniteSet(S \cup {x}) /\ Cardinality(S \cup {x}) = Cardinality(S) + 1
      BY <2>2, <3>1, FS_AddElement
    <3> QED
      BY <1>7, <2>2, <2>3, <3>1, <3>2
  <2>4. CASE r # p
    <3>1. {y \in g2 : y[1] = r} = S
      BY <1>4, <1>8, <2>1, <2>4
    <3> QED
      BY <1>7, <2>2, <2>4, <3>1
  <2> QED
    BY <2>3, <2>4
<1>14. s \in [ArenaPage -> Class \cup {"none"}]
  BY DEF HeapSound
<1>15. HeapSound(s, o2, l2, g2)
  BY <1>9, <1>10, <1>11, <1>12, <1>13, <1>14 DEF HeapSound
<1> QED
  BY <1>2, <1>4, <1>6, <1>7, <1>8, <1>15

(* A caller gives an object back.                                          *)
LEMMA GivenBackIs ==
    ASSUME NEW s, NEW o, NEW l, NEW g, HeapSound(s, o, l, g), NEW x \in g,
           NEW c, c = s[x[1]]
    PROVE  /\ x[1] \in ArenaPage /\ c \in Class
           /\ HeapSound(s, Fronted(o, c, x), OneDown(l, x[1]), g \ {x})
<1>1. x \in Things /\ c \in Class /\ x[2] \in 1 .. ObjectsOf[c]
  BY DEF HeapSound
<1>2. o[c] \in Seq(Things) /\ IsInjective(o[c]) /\ x \notin ToSet(o[c])
  BY <1>1 DEF HeapSound
<1>3. PICK q : q = <<x>> \o o[c]
  OBVIOUS
<1>4. /\ q \in Seq(Things) /\ IsInjective(q)
      /\ \A y : y \in ToSet(q) <=> y \in ToSet(o[c]) \/ y = x
  BY <1>1, <1>2, <1>3, FrontGains
<1>5. PICK p \in ArenaPage : p = x[1]
  BY <1>1 DEF Things
<1>6. PICK o2 \in [Class -> Seq(Things)] :
         /\ o2 = Fronted(o, c, x) /\ o2[c] = q /\ \A d \in Class : d # c => o2[d] = o[d]
  <2>1. o \in [Class -> Seq(Things)]
    BY DEF HeapSound
  <2>2. PICK o2 : o2 = [o EXCEPT ![c] = q]
    OBVIOUS
  <2>3. o2 = Fronted(o, c, x)
    BY <1>3, <2>2 DEF Fronted
  <2>4. o2 \in [Class -> Seq(Things)] /\ o2[c] = q /\ \A d \in Class : d # c => o2[d] = o[d]
    BY <1>1, <1>4, <2>1, <2>2
  <2> QED
    BY <2>3, <2>4
<1>7. PICK S : S = {y \in g : y[1] = p} /\ IsFiniteSet(S) /\ l[p] = Cardinality(S) /\ x \in S
  <2>1. s[p] # "none"
    BY <1>1, <1>5, ArenaAssumption DEF Class
  <2>2. PICK S : S = {y \in g : y[1] = p}
    OBVIOUS
  <2>3. IsFiniteSet(S) /\ l[p] = Cardinality(S)
    BY <2>1, <2>2 DEF HeapSound
  <2>4. x \in S
    BY <1>5, <2>2
  <2> QED
    BY <2>2, <2>3, <2>4
<1>8. IsFiniteSet(S \ {x}) /\ Cardinality(S \ {x}) = Cardinality(S) - 1 /\ Cardinality(S) \in Nat
  BY <1>7, FS_RemoveElement, FS_CardinalityType
<1>9. Cardinality(S \ {x}) \in Nat
  BY <1>8, FS_CardinalityType
<1>10. PICK l2 \in [ArenaPage -> Nat] :
         /\ l2 = OneDown(l, p) /\ l2[p] = l[p] - 1 /\ \A r \in ArenaPage : r # p => l2[r] = l[r]
  <2>1. l \in [ArenaPage -> Nat]
    BY DEF HeapSound
  <2>2. PICK l2 : l2 = [l EXCEPT ![p] = @ - 1]
    OBVIOUS
  <2>3. l2 = OneDown(l, p)
    BY <2>2 DEF OneDown
  <2>4. l[p] - 1 \in Nat
    BY <1>7, <1>8, <1>9
  <2>5. /\ l2 \in [ArenaPage -> Nat] /\ l2[p] = l[p] - 1
        /\ \A r \in ArenaPage : r # p => l2[r] = l[r]
    BY <2>1, <2>2, <2>4
  <2> QED
    BY <2>3, <2>5
<1>11. PICK g2 : g2 = g \ {x}
  OBVIOUS
<1>12. g2 \subseteq Things
  BY <1>11 DEF HeapSound
<1>13. \A d \in Class : IsInjective(o2[d])
  <2> TAKE d \in Class
  <2>1. IsInjective(o[d])
    BY DEF HeapSound
  <2>2. d # c => o2[d] = o[d]
    BY <1>6
  <2> QED
    BY <1>4, <1>6, <2>1, <2>2
<1>14. ASSUME NEW d \in Class, NEW y \in Things
       PROVE  y \in ToSet(o2[d]) <=> s[y[1]] = d /\ y[2] \in 1 .. ObjectsOf[d] /\ y \notin g2
  <2>1. y \in ToSet(o[d]) <=> s[y[1]] = d /\ y[2] \in 1 .. ObjectsOf[d] /\ y \notin g
    BY DEF HeapSound
  <2>2. CASE d = c
    <3>1. y \in ToSet(o2[d]) <=> y \in ToSet(o[c]) \/ y = x
      BY <1>4, <1>6, <2>2
    <3>2. CASE y = x
      BY <1>1, <1>11, <2>2, <3>1, <3>2
    <3>3. CASE y # x
      BY <1>11, <2>1, <2>2, <3>1, <3>3
    <3> QED
      BY <3>2, <3>3
  <2>3. CASE d # c
    <3>1. o2[d] = o[d]
      BY <1>6, <2>3
    <3>2. s[y[1]] = d => y # x
      BY <2>3
    <3> QED
      BY <1>11, <2>1, <3>1, <3>2
  <2> QED
    BY <2>2, <2>3
<1>15. \A y \in g2 : s[y[1]] \in Class /\ y[2] \in 1 .. ObjectsOf[s[y[1]]]
  BY <1>11 DEF HeapSound
<1>16. ASSUME NEW r \in ArenaPage, s[r] # "none"
       PROVE  IsFiniteSet({y \in g2 : y[1] = r}) /\ l2[r] = Cardinality({y \in g2 : y[1] = r})
  <2>1. CASE r = p
    <3>1. {y \in g2 : y[1] = r} = S \ {x}
      BY <1>7, <1>11, <2>1
    <3> QED
      BY <1>7, <1>8, <1>10, <2>1, <3>1
  <2>2. CASE r # p
    <3>1. {y \in g2 : y[1] = r} = {y \in g : y[1] = r}
      BY <1>5, <1>11, <2>2
    <3>2. IsFiniteSet({y \in g : y[1] = r}) /\ l[r] = Cardinality({y \in g : y[1] = r})
      BY <1>16 DEF HeapSound
    <3> QED
      BY <1>10, <2>2, <3>1, <3>2
  <2> QED
    BY <2>1, <2>2
<1>17. s \in [ArenaPage -> Class \cup {"none"}]
  BY DEF HeapSound
<1>18. HeapSound(s, o2, l2, g2)
  BY <1>12, <1>13, <1>14, <1>15, <1>16, <1>17 DEF HeapSound
<1> QED
  BY <1>1, <1>5, <1>6, <1>10, <1>11, <1>18

(* A page becomes a slab: its objects are the list of a class that had     *)
(* none.                                                                   *)
Become(s, page, c) == [s EXCEPT ![page] = c]
Given(o, c, q) == [o EXCEPT ![c] = q]
NoneLive(l, page) == [l EXCEPT ![page] = 0]

(* The new slab belongs to its class, and no object of it is out yet.      *)
LEMMA CarvedIs ==
    ASSUME NEW s, NEW o, NEW l, NEW g, HeapSound(s, o, l, g), NEW c \in Class, o[c] = <<>>,
           NEW page \in ArenaPage, s[page] = "none", NEW q, q = Carved(c, page)
    PROVE  /\ q # <<>>
           /\ HeapSound(Become(s, page, c), Given(o, c, q), NoneLive(l, page), g)
<1>1. PICK n \in Nat \ {0} : n = ObjectsOf[c]
  BY ArenaAssumption DEF Class
<1>2. c # "none"
  BY ArenaAssumption DEF Class
<1>3. /\ q = [k \in 1 .. n |-> <<page, k>>] /\ q \in Seq(Things) /\ DOMAIN q = 1 .. n
      /\ \A k \in 1 .. n : q[k] = <<page, k>>
  BY <1>1 DEF Carved, Things
<1>4. q # <<>>
  BY <1>1, <1>3
<1>5. IsInjective(q)
  BY <1>3 DEF IsInjective
<1>6. \A y \in Things : y \in ToSet(q) <=> y[1] = page /\ y[2] \in 1 .. n
  <2> TAKE y \in Things
  <2>1. y \in ToSet(q) <=> \E k \in 1 .. n : q[k] = y
    BY <1>3 DEF ToSet
  <2>2. y = <<y[1], y[2]>>
    BY DEF Things
  <2>3. ASSUME NEW k \in 1 .. n, q[k] = y PROVE y[1] = page /\ y[2] \in 1 .. n
    BY <1>3, <2>3
  <2>4. ASSUME y[1] = page, y[2] \in 1 .. n PROVE q[y[2]] = y
    BY <1>3, <2>2, <2>4
  <2> QED
    BY <2>1, <2>3, <2>4
<1>7. PICK s2 \in [ArenaPage -> Class \cup {"none"}] :
         /\ s2 = Become(s, page, c) /\ s2[page] = c
         /\ \A r \in ArenaPage : r # page => s2[r] = s[r]
  <2>1. s \in [ArenaPage -> Class \cup {"none"}]
    BY DEF HeapSound
  <2>2. PICK s2 : s2 = [s EXCEPT ![page] = c]
    OBVIOUS
  <2>3. /\ s2 \in [ArenaPage -> Class \cup {"none"}] /\ s2[page] = c
        /\ \A r \in ArenaPage : r # page => s2[r] = s[r]
    BY <2>1, <2>2
  <2> QED
    BY <2>2, <2>3 DEF Become
<1>8. PICK o2 \in [Class -> Seq(Things)] :
         /\ o2 = Given(o, c, q) /\ o2[c] = q /\ \A d \in Class : d # c => o2[d] = o[d]
  <2>1. o \in [Class -> Seq(Things)]
    BY DEF HeapSound
  <2>2. PICK o2 : o2 = [o EXCEPT ![c] = q]
    OBVIOUS
  <2>3. o2 \in [Class -> Seq(Things)] /\ o2[c] = q /\ \A d \in Class : d # c => o2[d] = o[d]
    BY <1>3, <2>1, <2>2
  <2> QED
    BY <2>2, <2>3 DEF Given
<1>9. PICK l2 \in [ArenaPage -> Nat] :
         /\ l2 = NoneLive(l, page) /\ l2[page] = 0 /\ \A r \in ArenaPage : r # page => l2[r] = l[r]
  <2>1. l \in [ArenaPage -> Nat]
    BY DEF HeapSound
  <2>2. PICK l2 : l2 = [l EXCEPT ![page] = 0]
    OBVIOUS
  <2>3. /\ l2 \in [ArenaPage -> Nat] /\ l2[page] = 0
        /\ \A r \in ArenaPage : r # page => l2[r] = l[r]
    BY <2>1, <2>2
  <2> QED
    BY <2>2, <2>3 DEF NoneLive
<1>10. \A y \in g : y \in Things /\ y[1] \in ArenaPage /\ y[1] # page /\ s2[y[1]] = s[y[1]]
  <2> TAKE y \in g
  <2>1. y \in Things /\ s[y[1]] \in Class
    BY DEF HeapSound
  <2>2. y[1] \in ArenaPage /\ y[1] # page
    BY <2>1, ArenaAssumption DEF Things, Class
  <2> QED
    BY <1>7, <2>1, <2>2
<1>11. \A d \in Class : IsInjective(o2[d])
  <2> TAKE d \in Class
  <2>1. IsInjective(o[d])
    BY DEF HeapSound
  <2>2. d # c => o2[d] = o[d]
    BY <1>8
  <2> QED
    BY <1>5, <1>8, <2>1, <2>2
<1>12. ASSUME NEW d \in Class, NEW y \in Things
       PROVE  y \in ToSet(o2[d]) <=> s2[y[1]] = d /\ y[2] \in 1 .. ObjectsOf[d] /\ y \notin g
  <2>1. y \in ToSet(o[d]) <=> s[y[1]] = d /\ y[2] \in 1 .. ObjectsOf[d] /\ y \notin g
    BY DEF HeapSound
  <2>2. y[1] \in ArenaPage
    BY DEF Things
  <2>3. CASE y[1] = page
    <3>1. s2[y[1]] = c /\ y \notin g /\ s[y[1]] # d
      BY <1>7, <1>10, <2>3, ArenaAssumption DEF Class
    <3>2. CASE d = c
      BY <1>1, <1>6, <1>8, <2>3, <3>1, <3>2
    <3>3. CASE d # c
      BY <1>8, <2>1, <3>1, <3>3
    <3> QED
      BY <3>2, <3>3
  <2>4. CASE y[1] # page
    <3>1. s2[y[1]] = s[y[1]]
      BY <1>7, <2>2, <2>4
    <3>2. CASE d = c
      <4>1. y \notin ToSet(o2[d])
        BY <1>6, <1>8, <2>4, <3>2
      <4>2. y \notin ToSet(o[d])
        BY <3>2 DEF ToSet
      <4> QED
        BY <2>1, <3>1, <4>1, <4>2
    <3>3. CASE d # c
      BY <1>8, <2>1, <3>1, <3>3
    <3> QED
      BY <3>2, <3>3
  <2> QED
    BY <2>3, <2>4
<1>13. \A y \in g : s2[y[1]] \in Class /\ y[2] \in 1 .. ObjectsOf[s2[y[1]]]
  BY <1>10 DEF HeapSound
<1>14. ASSUME NEW r \in ArenaPage, s2[r] # "none"
       PROVE  IsFiniteSet({y \in g : y[1] = r}) /\ l2[r] = Cardinality({y \in g : y[1] = r})
  <2>1. CASE r = page
    <3>1. {y \in g : y[1] = r} = {}
      BY <1>10, <2>1
    <3> QED
      BY <1>9, <2>1, <3>1, FS_EmptySet
  <2>2. CASE r # page
    BY <1>7, <1>9, <1>14, <2>2 DEF HeapSound
  <2> QED
    BY <2>1, <2>2
<1>15. g \subseteq Things
  BY DEF HeapSound
<1>16. HeapSound(s2, o2, l2, g)
  BY <1>11, <1>12, <1>13, <1>14, <1>15 DEF HeapSound
<1> QED
  BY <1>4, <1>7, <1>8, <1>9, <1>16

(***************************************************************************)
(* What the pages are mapped to.                                           *)
(***************************************************************************)

MappedBy(m, device, frame) ==
    /\ m \in [ArenaPage -> {"none", "frame", "device"}]
    /\ \A p \in ArenaPage : m[p] = IF p \in device THEN "device"
                                   ELSE IF p \in frame THEN "frame" ELSE "none"

(* A range is mapped anew, or no longer.                                   *)
LEMMA RemappedIs ==
    ASSUME NEW device, NEW frame, MappedBy(mapped, device, frame), NEW r
    PROVE  /\ MappedBy(Remapped(r, "frame"), device \ Within(r), frame \cup Within(r))
           /\ MappedBy(Remapped(r, "device"), device \cup Within(r), frame)
           /\ MappedBy(Remapped(r, "none"), device \ Within(r), frame \ Within(r))
<1>1. PICK W : W = Within(r)
  OBVIOUS
<1>2. /\ mapped \in [ArenaPage -> {"none", "frame", "device"}]
      /\ \A p \in ArenaPage : mapped[p] = IF p \in device THEN "device"
                                          ELSE IF p \in frame THEN "frame" ELSE "none"
  BY DEF MappedBy
<1>3. MappedBy(Remapped(r, "frame"), device \ W, frame \cup W)
  BY <1>1, <1>2 DEF MappedBy, Remapped
<1>4. MappedBy(Remapped(r, "device"), device \cup W, frame)
  BY <1>1, <1>2 DEF MappedBy, Remapped
<1>5. MappedBy(Remapped(r, "none"), device \ W, frame \ W)
  BY <1>1, <1>2 DEF MappedBy, Remapped
<1> QED
  BY <1>1, <1>3, <1>4, <1>5

(* A set of pages with a range more, and with a range less.                *)
LEMMA RangeCounts ==
    ASSUME NEW S, IsFiniteSet(S), NEW r \in Ranges
    PROVE  /\ Within(r) \cap S = {} => Cardinality(S \cup Within(r)) = Cardinality(S) + r.count
           /\ Within(r) \subseteq S => Cardinality(S \ Within(r)) = Cardinality(S) - r.count
<1>1. PICK W : /\ W = Within(r) /\ IsFiniteSet(W) /\ Cardinality(W) = r.count
               /\ Cardinality(W) \in Nat /\ Cardinality(S) \in Nat
  BY WithinCounts, FS_CardinalityType
<1>2. ASSUME W \cap S = {}
      PROVE  Cardinality(S \cup W) = Cardinality(S) + r.count
  <2>1. S \cap W = {} /\ Cardinality(S \cap W) = 0
    BY <1>2, FS_EmptySet
  <2>2. Cardinality(S \cup W) = Cardinality(S) + Cardinality(W) - Cardinality(S \cap W)
    BY <1>1, FS_Union
  <2> QED
    BY <1>1, <2>1, <2>2
<1>3. ASSUME W \subseteq S
      PROVE  Cardinality(S \ W) = Cardinality(S) - r.count
  <2>1. Cardinality(S \ W) = Cardinality(S) - Cardinality(S \cap W)
    BY <1>1, FS_Difference
  <2>2. S \cap W = W
    BY <1>3
  <2> QED
    BY <1>1, <2>1, <2>2
<1> QED
  BY <1>1, <1>2, <1>3

(***************************************************************************)
(* The invariant.                                                          *)
(***************************************************************************)

PlacesStand ==
    /\ Ascending(list) /\ Len(list) <= ListCapacity
    /\ bump \in Nat /\ bump <= Pages
    /\ Apart(large) /\ Apart(devices)
    /\ Divided(PagesIn(list), Over(large), Over(devices), Slabs, forfeit, bump)

UseStands ==
    /\ MappedBy(mapped, Over(devices), Over(large) \cup Slabs)
    /\ inUse = Cardinality(Over(large) \cup Slabs)

ArenaInv == PlacesStand /\ UseStands /\ HeapSound(slabs, objects, live, given)

(* What stays the same when a range is taken, and what is known of it.     *)
LEMMA PlacesTaken ==
    ASSUME PlacesStand, NEW count \in Nat, RoomFor(count), NEW r, r = RangeFor(count),
           NEW t, t = ListAfterTake(count), NEW top, top = BumpAfterTake(count)
    PROVE  /\ r \in Ranges /\ r.count = count
           /\ Ascending(t) /\ Len(t) <= ListCapacity
           /\ top \in Nat /\ top <= Pages
           /\ Within(r) \cap PagesIn(t) = {}
           /\ Within(r) \cap (Over(large) \cup Over(devices) \cup Slabs \cup forfeit) = {}
           /\ Within(r) \subseteq 0 .. top - 1
           /\ Divided(PagesIn(t), Over(large) \cup Within(r), Over(devices), Slabs, forfeit, top)
           /\ Divided(PagesIn(t), Over(large), Over(devices) \cup Within(r), Slabs, forfeit, top)
           /\ Divided(PagesIn(t), Over(large), Over(devices), Slabs \cup Within(r), forfeit, top)
           /\ Divided(PagesIn(t), Over(large), Over(devices), Slabs, forfeit \cup Within(r), top)
           /\ Divided(PagesIn(t) \cup Within(r), Over(large), Over(devices), Slabs, forfeit, top)
<1>1. ListStands
  BY DEF PlacesStand, ListStands, Divided
<1>2. /\ r \in Ranges /\ r.count = count
      /\ Ascending(t) /\ Len(t) <= ListCapacity
      /\ top \in Nat /\ bump <= top /\ top <= Pages
      /\ TakenFrom(PagesIn(list), Within(r), PagesIn(t), bump .. top - 1)
  BY <1>1, TakeIs
<1>3. PICK free, big, device, slab, lost, range, rest :
         /\ free = PagesIn(list) /\ big = Over(large) /\ device = Over(devices) /\ slab = Slabs
         /\ lost = forfeit /\ range = Within(r) /\ rest = PagesIn(t)
  OBVIOUS
<1>4. PICK low \in Nat : low = bump
  BY DEF PlacesStand
<1>5. Divided(free, big, device, slab, lost, low)
  BY <1>3, <1>4 DEF PlacesStand
<1>6. PICK high, more : high = top /\ more = low .. top - 1
  OBVIOUS
<1>7. /\ high \in Nat /\ low <= high /\ Passed(more, low, high)
      /\ TakenFrom(free, range, rest, more)
  BY <1>2, <1>3, <1>4, <1>6 DEF Passed
<1>8. /\ Divided(rest, big \cup range, device, slab, lost, high)
      /\ Divided(rest, big, device \cup range, slab, lost, high)
      /\ Divided(rest, big, device, slab \cup range, lost, high)
      /\ Divided(rest, big, device, slab, lost \cup range, high)
      /\ Divided(rest \cup range, big, device, slab, lost, high)
      /\ range \cap (big \cup device \cup slab \cup lost) = {} /\ range \subseteq 0 .. high - 1
  <2>1. Divided(rest, big \cup range, device, slab, lost, high)
    BY <1>4, <1>5, <1>7, TakenGoes
  <2>2. Divided(rest, big, device \cup range, slab, lost, high)
    BY <1>4, <1>5, <1>7, TakenGoes
  <2>3. Divided(rest, big, device, slab \cup range, lost, high)
    BY <1>4, <1>5, <1>7, TakenGoes
  <2>4. Divided(rest, big, device, slab, lost \cup range, high)
    BY <1>4, <1>5, <1>7, TakenGoes
  <2>5. Divided(rest \cup range, big, device, slab, lost, high)
    BY <1>4, <1>5, <1>7, TakenGoes
  <2>6. range \cap (big \cup device \cup slab \cup lost) = {}
    BY <2>1, <2>2 DEF Divided
  <2>7. range \subseteq 0 .. high - 1
    BY <2>1 DEF Divided
  <2> QED
    BY <2>1, <2>2, <2>3, <2>4, <2>5, <2>6, <2>7
<1>9. rest \cap range = {}
  BY <1>7 DEF TakenFrom
<1> QED
  BY <1>2, <1>3, <1>6, <1>8, <1>9


(***************************************************************************)
(* The three ways the pages change hands.                                  *)
(***************************************************************************)

(* KernelPagesAllocate that succeeds: for a caller, or for a slab.         *)
LEMMA AllocatedIs ==
    ASSUME PlacesStand, UseStands, NEW count \in Nat, PagesAllocated(count),
           NEW r, r = RangeFor(count)
    PROVE  /\ r \in Ranges /\ r.count = count /\ Within(r) \subseteq 0 .. Pages - 1
           /\ Ascending(list') /\ Len(list') <= ListCapacity
           /\ bump' \in Nat /\ bump' <= Pages
           /\ Within(r) \cap (Over(large) \cup Over(devices) \cup Slabs) = {}
           /\ Divided(PagesIn(list'), Over(large) \cup Within(r), Over(devices), Slabs, forfeit', bump')
           /\ Divided(PagesIn(list'), Over(large), Over(devices), Slabs \cup Within(r), forfeit', bump')
           /\ MappedBy(mapped', Over(devices), Over(large) \cup Slabs \cup Within(r))
           /\ inUse' = Cardinality(Over(large) \cup Slabs \cup Within(r))
<1>1. /\ RoomFor(count) /\ list' = ListAfterTake(count) /\ bump' = BumpAfterTake(count)
      /\ mapped' = Remapped(r, "frame") /\ inUse' = inUse + count /\ forfeit' = forfeit
  BY DEF PagesAllocated
<1>2. PICK t, top : t = list' /\ top = bump'
  OBVIOUS
<1>3. /\ r \in Ranges /\ r.count = count
      /\ Ascending(t) /\ Len(t) <= ListCapacity
      /\ top \in Nat /\ top <= Pages
      /\ Within(r) \cap (Over(large) \cup Over(devices) \cup Slabs \cup forfeit) = {}
      /\ Within(r) \subseteq 0 .. top - 1
      /\ Divided(PagesIn(t), Over(large) \cup Within(r), Over(devices), Slabs, forfeit, top)
      /\ Divided(PagesIn(t), Over(large), Over(devices), Slabs \cup Within(r), forfeit, top)
  BY <1>1, <1>2, PlacesTaken
<1>4. PICK W, big, device, slab :
         W = Within(r) /\ big = Over(large) /\ device = Over(devices) /\ slab = Slabs
  OBVIOUS
<1>5. W \subseteq 0 .. Pages - 1
  <2>1. Pages \in Nat
    BY ArenaAssumption
  <2>2. 0 .. top - 1 \subseteq 0 .. Pages - 1
    BY <1>3, <2>1
  <2> QED
    BY <1>3, <1>4, <2>2
<1>6. W \cap (big \cup device \cup slab) = {}
  BY <1>3, <1>4
<1>7. MappedBy(mapped', device, big \cup slab \cup W)
  <2>1. MappedBy(mapped, device, big \cup slab)
    BY <1>4 DEF UseStands
  <2>2. MappedBy(Remapped(r, "frame"), device \ Within(r), (big \cup slab) \cup Within(r))
    BY <2>1, RemappedIs
  <2>3. device \ W = device
    BY <1>6
  <2> QED
    BY <1>1, <1>4, <2>2, <2>3
<1>8. IsFiniteSet(big \cup slab)
  <2>1. big \cup slab \subseteq 0 .. bump - 1 /\ bump \in Nat
    BY <1>4 DEF PlacesStand, Divided
  <2>2. 0 \in Int /\ bump - 1 \in Int
    BY <2>1
  <2>3. IsFiniteSet(0 .. bump - 1)
    BY <2>2, FS_Interval
  <2> QED
    BY <2>1, <2>3, FS_Subset
<1>9. inUse' = Cardinality(big \cup slab \cup W)
  <2>1. W \cap (big \cup slab) = {}
    BY <1>6
  <2>2. Cardinality((big \cup slab) \cup W) = Cardinality(big \cup slab) + r.count
    BY <1>3, <1>4, <1>8, <2>1, RangeCounts
  <2>3. inUse = Cardinality(big \cup slab)
    BY <1>4 DEF UseStands
  <2> QED
    BY <1>1, <1>3, <2>2, <2>3
<1> QED
  BY <1>1, <1>2, <1>3, <1>4, <1>5, <1>6, <1>7, <1>9

(* KernelPagesAllocate that finds no frame: what was taken is put back.    *)
LEMMA NotBackedKeeps ==
    ASSUME PlacesStand, UseStands, NEW count \in Nat, PagesNotBacked(count),
           UNCHANGED <<large, devices, slabs>>
    PROVE  PlacesStand' /\ UseStands'
<1>1. PICK r, t, top : r = RangeFor(count) /\ t = ListAfterTake(count) /\ top = BumpAfterTake(count)
  OBVIOUS
<1>2. /\ RoomFor(count) /\ ArenaFreeListInsert(t, r) /\ bump' = top
      /\ mapped' = mapped /\ inUse' = inUse
  BY <1>1 DEF PagesNotBacked
<1>3. /\ r \in Ranges /\ r.count = count
      /\ Ascending(t) /\ Len(t) <= ListCapacity
      /\ top \in Nat /\ top <= Pages
      /\ Within(r) \cap PagesIn(t) = {}
      /\ Divided(PagesIn(t), Over(large), Over(devices), Slabs, forfeit \cup Within(r), top)
      /\ Divided(PagesIn(t) \cup Within(r), Over(large), Over(devices), Slabs, forfeit, top)
  BY <1>1, <1>2, PlacesTaken
<1>4. /\ Ascending(list') /\ Len(list') <= ListCapacity
      /\ \/ PagesIn(list') = PagesIn(t) \cup Within(r) /\ forfeit' = forfeit
         \/ list' = t /\ forfeit' = forfeit \cup Within(r)
  BY <1>2, <1>3, InsertIs
<1>5. Slabs' = Slabs
  BY DEF Slabs
<1>6. Divided(PagesIn(list'), Over(large), Over(devices), Slabs, forfeit', bump')
  BY <1>2, <1>3, <1>4
<1>7. PlacesStand'
  BY <1>2, <1>3, <1>4, <1>5, <1>6 DEF PlacesStand
<1>8. UseStands'
  BY <1>2, <1>5 DEF UseStands
<1> QED
  BY <1>7, <1>8

(* KernelPagesFree of a large allocation.                                  *)
LEMMA FreeLargeKeeps ==
    ASSUME PlacesStand, UseStands, NEW r \in large, FreeLarge(r)
    PROVE  PlacesStand' /\ UseStands'
<1>1. /\ mapped' = Remapped(r, "none") /\ inUse' = inUse - r.count
      /\ ArenaFreeListInsert(list, r) /\ bump' = bump
      /\ large' = large \ {r} /\ devices' = devices /\ slabs' = slabs
  BY DEF FreeLarge, PagesFreed, heapVars
<1>2. /\ Apart(large \ {r}) /\ Over(large \ {r}) = Over(large) \ Within(r)
      /\ r \in Ranges /\ Within(r) \subseteq Over(large)
  BY OneLess DEF PlacesStand
<1>3. PICK free, big, device, slab, lost, W :
         /\ free = PagesIn(list) /\ big = Over(large) /\ device = Over(devices) /\ slab = Slabs
         /\ lost = forfeit /\ W = Within(r)
  OBVIOUS
<1>4. PICK top : top = bump /\ Divided(free, big, device, slab, lost, top)
  BY <1>3 DEF PlacesStand
<1>5. /\ Divided(free \cup W, big \ W, device, slab, lost, top)
      /\ Divided(free, big \ W, device, slab, lost \cup W, top)
      /\ W \cap free = {}
  BY <1>2, <1>3, <1>4, LargeGivenBack
<1>6. /\ Ascending(list') /\ Len(list') <= ListCapacity
      /\ \/ PagesIn(list') = free \cup W /\ forfeit' = lost
         \/ list' = list /\ forfeit' = lost \cup W
  <2>1. Ascending(list) /\ Len(list) <= ListCapacity /\ Within(r) \cap PagesIn(list) = {}
    BY <1>3, <1>5 DEF PlacesStand
  <2> QED
    BY <1>1, <1>2, <1>3, <2>1, InsertIs
<1>7. Slabs' = Slabs
  BY <1>1 DEF Slabs
<1>8. Divided(PagesIn(list'), big \ W, device, slab, forfeit', top)
  BY <1>3, <1>5, <1>6
<1>9. PlacesStand'
  BY <1>1, <1>2, <1>3, <1>4, <1>6, <1>7, <1>8 DEF PlacesStand
<1>10. device \cap (big \cup slab) = {} /\ big \cap slab = {}
  BY <1>4 DEF Divided
<1>11. MappedBy(mapped', device, (big \ W) \cup slab)
  <2>1. MappedBy(mapped, device, big \cup slab)
    BY <1>3 DEF UseStands
  <2>2. MappedBy(Remapped(r, "none"), device \ Within(r), (big \cup slab) \ Within(r))
    BY <2>1, RemappedIs
  <2>3. device \ W = device /\ (big \cup slab) \ W = (big \ W) \cup slab
    BY <1>2, <1>3, <1>10
  <2> QED
    BY <1>1, <1>3, <2>2, <2>3
<1>12. IsFiniteSet(big \cup slab)
  <2>1. big \cup slab \subseteq 0 .. bump - 1 /\ bump \in Nat
    BY <1>3 DEF PlacesStand, Divided
  <2>2. 0 \in Int /\ bump - 1 \in Int
    BY <2>1
  <2>3. IsFiniteSet(0 .. bump - 1)
    BY <2>2, FS_Interval
  <2> QED
    BY <2>1, <2>3, FS_Subset
<1>13. inUse' = Cardinality((big \ W) \cup slab)
  <2>1. Within(r) \subseteq big \cup slab
    BY <1>2, <1>3
  <2>2. Cardinality((big \cup slab) \ W) = Cardinality(big \cup slab) - r.count
    BY <1>2, <1>3, <1>12, <2>1, RangeCounts
  <2>3. (big \cup slab) \ W = (big \ W) \cup slab
    BY <1>2, <1>3, <1>10
  <2>4. inUse = Cardinality(big \cup slab)
    BY <1>3 DEF UseStands
  <2> QED
    BY <1>1, <2>2, <2>3, <2>4
<1>14. UseStands'
  BY <1>1, <1>2, <1>3, <1>7, <1>11, <1>13 DEF UseStands
<1> QED
  BY <1>9, <1>14
(* KernelDeviceMap: the same, and the pages are those of a device.         *)
LEMMA DeviceMapKeeps ==
    ASSUME PlacesStand, UseStands, NEW count \in Nat, KernelDeviceMap(count)
    PROVE  PlacesStand' /\ UseStands'
<1>1. PICK r, t, top : r = RangeFor(count) /\ t = ListAfterTake(count) /\ top = BumpAfterTake(count)
  OBVIOUS
<1>2. /\ RoomFor(count) /\ list' = t /\ bump' = top
      /\ mapped' = Remapped(r, "device") /\ devices' = devices \cup {r}
      /\ inUse' = inUse /\ forfeit' = forfeit /\ large' = large /\ slabs' = slabs
  BY <1>1 DEF KernelDeviceMap, heapVars
<1>3. /\ r \in Ranges
      /\ Ascending(t) /\ Len(t) <= ListCapacity
      /\ top \in Nat /\ top <= Pages
      /\ Within(r) \cap (Over(large) \cup Over(devices) \cup Slabs \cup forfeit) = {}
      /\ Divided(PagesIn(t), Over(large), Over(devices) \cup Within(r), Slabs, forfeit, top)
  BY <1>1, <1>2, PlacesTaken
<1>4. Apart(devices \cup {r}) /\ Over(devices \cup {r}) = Over(devices) \cup Within(r)
  <2>1. Within(r) \cap Over(devices) = {}
    BY <1>3
  <2>2. Apart(devices)
    BY DEF PlacesStand
  <2> QED
    BY <1>3, <2>1, <2>2, OneMore
<1>5. Slabs' = Slabs
  BY <1>2 DEF Slabs
<1>6. PlacesStand'
  BY <1>2, <1>3, <1>4, <1>5 DEF PlacesStand
<1>7. MappedBy(mapped', Over(devices) \cup Within(r), Over(large) \cup Slabs)
  <2>1. MappedBy(mapped, Over(devices), Over(large) \cup Slabs)
    BY DEF UseStands
  <2> QED
    BY <1>2, <2>1, RemappedIs
<1>8. UseStands'
  BY <1>2, <1>4, <1>5, <1>7 DEF UseStands
<1> QED
  BY <1>6, <1>8

(* KernelDeviceUnmap.                                                      *)
LEMMA DeviceUnmapKeeps ==
    ASSUME PlacesStand, UseStands, NEW r \in devices, KernelDeviceUnmap(r)
    PROVE  PlacesStand' /\ UseStands'
<1>1. /\ mapped' = Remapped(r, "none") /\ inUse' = inUse
      /\ ArenaFreeListInsert(list, r) /\ bump' = bump
      /\ devices' = devices \ {r} /\ large' = large /\ slabs' = slabs
  BY DEF KernelDeviceUnmap, heapVars
<1>2. /\ Apart(devices \ {r}) /\ Over(devices \ {r}) = Over(devices) \ Within(r)
      /\ r \in Ranges /\ Within(r) \subseteq Over(devices)
  BY OneLess DEF PlacesStand
<1>3. PICK free, big, device, slab, lost, W :
         /\ free = PagesIn(list) /\ big = Over(large) /\ device = Over(devices) /\ slab = Slabs
         /\ lost = forfeit /\ W = Within(r)
  OBVIOUS
<1>4. PICK top : top = bump /\ Divided(free, big, device, slab, lost, top)
  BY <1>3 DEF PlacesStand
<1>5. /\ Divided(free \cup W, big, device \ W, slab, lost, top)
      /\ Divided(free, big, device \ W, slab, lost \cup W, top)
      /\ W \cap free = {}
  <2>1. W \subseteq device
    BY <1>2, <1>3
  <2>2. Divided(free \cup W, big, device \ W, slab, lost, top)
    BY <1>4, <2>1, DeviceGivenBack
  <2>3. Divided(free, big, device \ W, slab, lost \cup W, top)
    BY <1>4, <2>1, DeviceGivenBack
  <2>4. W \cap free = {}
    BY <1>4, <2>1 DEF Divided
  <2> QED
    BY <2>2, <2>3, <2>4
<1>6. /\ Ascending(list') /\ Len(list') <= ListCapacity
      /\ \/ PagesIn(list') = free \cup W /\ forfeit' = lost
         \/ list' = list /\ forfeit' = lost \cup W
  <2>1. Ascending(list) /\ Len(list) <= ListCapacity /\ Within(r) \cap PagesIn(list) = {}
    BY <1>3, <1>5 DEF PlacesStand
  <2> QED
    BY <1>1, <1>2, <1>3, <2>1, InsertIs
<1>7. Slabs' = Slabs
  BY <1>1 DEF Slabs
<1>8. Divided(PagesIn(list'), big, device \ W, slab, forfeit', top)
  BY <1>3, <1>5, <1>6
<1>9. PlacesStand'
  BY <1>1, <1>2, <1>3, <1>4, <1>6, <1>7, <1>8 DEF PlacesStand
<1>10. MappedBy(mapped', device \ W, big \cup slab)
  <2>1. MappedBy(mapped, device, big \cup slab)
    BY <1>3 DEF UseStands
  <2>2. MappedBy(Remapped(r, "none"), device \ Within(r), (big \cup slab) \ Within(r))
    BY <2>1, RemappedIs
  <2>3. device \cap (big \cup slab) = {}
    BY <1>4 DEF Divided
  <2>4. (big \cup slab) \ W = big \cup slab
    BY <1>2, <1>3, <2>3
  <2> QED
    BY <1>1, <1>3, <2>2, <2>4
<1>11. UseStands'
  BY <1>1, <1>2, <1>3, <1>7, <1>10 DEF UseStands
<1> QED
  BY <1>9, <1>11

(* KernelAllocate of a large size.                                         *)
LEMMA AllocateLargeKeeps ==
    ASSUME PlacesStand, UseStands, NEW count \in Nat, AllocateLarge(count)
    PROVE  PlacesStand' /\ UseStands'
<1>1. devices' = devices /\ slabs' = slabs
  BY DEF AllocateLarge, heapVars
<1>2. Slabs' = Slabs
  BY <1>1 DEF Slabs
<1>3. CASE PagesAllocated(count) /\ large' = large \cup {RangeFor(count)}
  <2>1. PICK r : r = RangeFor(count)
    OBVIOUS
  <2>2. PICK big, device, slab, W :
           big = Over(large) /\ device = Over(devices) /\ slab = Slabs /\ W = Within(r)
    OBVIOUS
  <2>3. /\ r \in Ranges /\ Ascending(list') /\ Len(list') <= ListCapacity
        /\ bump' \in Nat /\ bump' <= Pages
        /\ W \cap (big \cup device \cup slab) = {}
        /\ Divided(PagesIn(list'), big \cup W, device, slab, forfeit', bump')
        /\ MappedBy(mapped', device, big \cup slab \cup W)
        /\ inUse' = Cardinality(big \cup slab \cup W)
    BY <1>3, <2>1, <2>2, AllocatedIs
  <2>4. Apart(large \cup {r}) /\ Over(large \cup {r}) = big \cup W
    <3>1. Within(r) \cap Over(large) = {}
      BY <2>2, <2>3
    <3>2. Apart(large)
      BY DEF PlacesStand
    <3> QED
      BY <2>2, <2>3, <3>1, <3>2, OneMore
  <2>5. large' = large \cup {r}
    BY <1>3, <2>1
  <2>6. PlacesStand'
    <3>1. Apart(devices)
      BY DEF PlacesStand
    <3> QED
      BY <1>1, <1>2, <2>2, <2>3, <2>4, <2>5, <3>1 DEF PlacesStand
  <2>7. (big \cup W) \cup slab = big \cup slab \cup W
    OBVIOUS
  <2>8. UseStands'
    BY <1>1, <1>2, <2>2, <2>3, <2>4, <2>5, <2>7 DEF UseStands
  <2> QED
    BY <2>6, <2>8
<1>4. CASE PagesNotBacked(count) /\ large' = large
  BY <1>1, <1>4, NotBackedKeeps
<1> QED
  BY <1>3, <1>4 DEF AllocateLarge

(***************************************************************************)
(* The objects handed out and given back.                                  *)
(***************************************************************************)

(* KernelAllocate of a small size.                                         *)
LEMMA AllocateObjectKeeps ==
    ASSUME ArenaInv, NEW c \in Class, AllocateObject(c)
    PROVE  ArenaInv'
<1>1. PlacesStand /\ UseStands /\ HeapSound(slabs, objects, live, given)
  BY DEF ArenaInv
<1>2. CASE /\ objects[c] # <<>> /\ Handed(c, objects[c], live)
           /\ UNCHANGED <<arenaSpace, slabs, large, devices>>
  <2>1. PICK x : x = Head(objects[c])
    OBVIOUS
  <2>2. HeapSound(slabs, Struck(objects, c, objects[c]), OneUp(live, x[1]), given \cup {x})
    BY <1>1, <1>2, <2>1, HandedIs
  <2>3. /\ objects' = Struck(objects, c, objects[c]) /\ live' = OneUp(live, x[1])
        /\ given' = given \cup {x} /\ slabs' = slabs
    BY <1>2, <2>1 DEF Handed, Struck, OneUp
  <2>4. HeapSound(slabs', objects', live', given')
    BY <2>2, <2>3
  <2>5. /\ list' = list /\ bump' = bump /\ mapped' = mapped /\ inUse' = inUse
        /\ forfeit' = forfeit /\ large' = large /\ devices' = devices /\ Slabs' = Slabs
    BY <1>2 DEF arenaSpace, Slabs
  <2> QED
    BY <1>1, <2>4, <2>5 DEF ArenaInv, PlacesStand, UseStands
<1>3. CASE /\ objects[c] = <<>> /\ PagesAllocated(1)
           /\ slabs' = [slabs EXCEPT ![RangeFor(1).base] = c]
           /\ Handed(c, Carved(c, RangeFor(1).base), [live EXCEPT ![RangeFor(1).base] = 0])
           /\ UNCHANGED <<large, devices>>
  <2>1. PICK r, page, q : r = RangeFor(1) /\ page = r.base /\ q = Carved(c, page)
    OBVIOUS
  <2>2. PICK big, device, slab, W :
           big = Over(large) /\ device = Over(devices) /\ slab = Slabs /\ W = Within(r)
    OBVIOUS
  <2>3. /\ r \in Ranges /\ r.count = 1 /\ Ascending(list') /\ Len(list') <= ListCapacity
        /\ bump' \in Nat /\ bump' <= Pages /\ W \subseteq 0 .. Pages - 1
        /\ W \cap (big \cup device \cup slab) = {}
        /\ Divided(PagesIn(list'), big, device, slab \cup W, forfeit', bump')
        /\ MappedBy(mapped', device, big \cup slab \cup W)
        /\ inUse' = Cardinality(big \cup slab \cup W)
    <3>1. 1 \in Nat
      OBVIOUS
    <3> QED
      BY <1>1, <1>3, <2>1, <2>2, <3>1, AllocatedIs
  <2>4. W = {page} /\ page \in ArenaPage
    <3>1. page \in Nat
      BY <2>1, <2>3, WithinIs
    <3>2. W = page .. page + 1 - 1
      BY <2>1, <2>2, <2>3 DEF Within
    <3>3. W = {page}
      BY <3>1, <3>2
    <3> QED
      BY <2>3, <3>3 DEF ArenaPage
  <2>5. slabs[page] = "none"
    BY <2>2, <2>3, <2>4 DEF Slabs
  <2>6. PICK s2, o2, l2 :
           /\ s2 = Become(slabs, page, c) /\ o2 = Given(objects, c, q) /\ l2 = NoneLive(live, page)
           /\ q # <<>> /\ HeapSound(s2, o2, l2, given)
    BY <1>1, <1>3, <2>1, <2>4, <2>5, CarvedIs
  <2>7. o2[c] = q
    <3>1. objects \in [Class -> Seq(Things)]
      BY <1>1 DEF HeapSound
    <3> QED
      BY <2>6, <3>1 DEF Given
  <2>8. PICK x : x = Head(q)
    OBVIOUS
  <2>9. HeapSound(s2, Struck(o2, c, q), OneUp(l2, x[1]), given \cup {x})
    BY <2>6, <2>7, <2>8, HandedIs
  <2>10. objects' = Struck(o2, c, q)
    <3>1. objects' = [objects EXCEPT ![c] = Tail(q)]
      BY <1>3, <2>1 DEF Handed
    <3>2. objects \in [Class -> Seq(Things)]
      BY <1>1 DEF HeapSound
    <3> QED
      BY <2>6, <3>1, <3>2 DEF Struck, Given
  <2>11. live' = OneUp(l2, x[1])
    BY <1>3, <2>1, <2>6, <2>8 DEF Handed, OneUp, NoneLive
  <2>12. given' = given \cup {x} /\ slabs' = s2
    BY <1>3, <2>1, <2>6, <2>8 DEF Handed, Become
  <2>13. HeapSound(slabs', objects', live', given')
    BY <2>9, <2>10, <2>11, <2>12
  <2>14. Slabs' = slab \cup W
    <3>1. c # "none"
      BY ArenaAssumption DEF Class
    <3>2. slabs \in [ArenaPage -> Class \cup {"none"}]
      BY <1>1 DEF HeapSound
    <3>3. /\ slabs'[page] = c
          /\ \A p \in ArenaPage : p # page => slabs'[p] = slabs[p]
      BY <2>4, <2>6, <2>12, <3>2 DEF Become
    <3> QED
      BY <2>2, <2>4, <3>1, <3>3 DEF Slabs
  <2>15. large' = large /\ devices' = devices
    BY <1>3
  <2>16. PlacesStand'
    <3>1. Apart(devices) /\ Apart(large)
      BY <1>1 DEF PlacesStand
    <3> QED
      BY <2>2, <2>3, <2>14, <2>15, <3>1 DEF PlacesStand
  <2>17. UseStands'
    <3>1. big \cup slab \cup W = big \cup (slab \cup W)
      OBVIOUS
    <3> QED
      BY <2>2, <2>3, <2>14, <2>15, <3>1 DEF UseStands
  <2> QED
    BY <2>13, <2>16, <2>17 DEF ArenaInv
<1>4. CASE objects[c] = <<>> /\ PagesNotBacked(1) /\ UNCHANGED <<large, devices, heapVars>>
  <2>1. UNCHANGED <<large, devices, slabs>> /\ 1 \in Nat
    BY <1>4 DEF heapVars
  <2>2. PlacesStand' /\ UseStands'
    BY <1>1, <1>4, <2>1, NotBackedKeeps
  <2> QED
    BY <1>1, <1>4, <2>2 DEF ArenaInv, heapVars
<1> QED
  BY <1>2, <1>3, <1>4 DEF AllocateObject

(* KernelFree of a small object.                                           *)
LEMMA FreeObjectKeeps ==
    ASSUME ArenaInv, NEW x \in given, FreeObject(x)
    PROVE  ArenaInv'
<1>1. PlacesStand /\ UseStands /\ HeapSound(slabs, objects, live, given)
  BY DEF ArenaInv
<1>2. PICK c : c = slabs[x[1]]
  OBVIOUS
<1>3. HeapSound(slabs, Fronted(objects, c, x), OneDown(live, x[1]), given \ {x})
  BY <1>1, <1>2, GivenBackIs
<1>4. /\ objects' = Fronted(objects, c, x) /\ live' = OneDown(live, x[1])
      /\ given' = given \ {x} /\ slabs' = slabs
  BY <1>2 DEF FreeObject, Fronted, OneDown
<1>5. HeapSound(slabs', objects', live', given')
  BY <1>3, <1>4
<1>6. /\ list' = list /\ bump' = bump /\ mapped' = mapped /\ inUse' = inUse
      /\ forfeit' = forfeit /\ large' = large /\ devices' = devices /\ Slabs' = Slabs
  BY DEF FreeObject, arenaSpace, Slabs
<1> QED
  BY <1>1, <1>5, <1>6 DEF ArenaInv, PlacesStand, UseStands

(* Before the first call nothing is taken and nothing is a slab.           *)
LEMMA ArenaBegins ==
    ASSUME ArenaInit
    PROVE  ArenaInv
<1>1. /\ list = <<>> /\ bump = 0 /\ inUse = 0 /\ forfeit = {}
      /\ large = {} /\ devices = {} /\ given = {}
      /\ mapped = [p \in ArenaPage |-> "none"] /\ slabs = [p \in ArenaPage |-> "none"]
      /\ live = [p \in ArenaPage |-> 0] /\ objects = [c \in Class |-> <<>>]
  BY DEF ArenaInit
<1>2. Slabs = {} /\ Over(large) = {} /\ Over(devices) = {}
  BY <1>1 DEF Slabs, Over
<1>3. PagesIn(list) = {} /\ Ascending(list) /\ Len(list) = 0
  BY <1>1 DEF PagesIn, Ascending
<1>4. Divided(PagesIn(list), Over(large), Over(devices), Slabs, forfeit, bump)
  <2>1. 0 .. 0 - 1 = {}
    OBVIOUS
  <2> QED
    BY <1>1, <1>2, <1>3, <2>1 DEF Divided
<1>5. PlacesStand
  <2>1. Pages \in Nat /\ ListCapacity \in Nat
    BY ArenaAssumption
  <2>2. Apart(large) /\ Apart(devices)
    BY <1>1 DEF Apart
  <2> QED
    BY <1>1, <1>3, <1>4, <2>1, <2>2 DEF PlacesStand
<1>6. UseStands
  <2>1. MappedBy(mapped, Over(devices), Over(large) \cup Slabs)
    BY <1>1, <1>2 DEF MappedBy
  <2>2. Cardinality(Over(large) \cup Slabs) = 0
    BY <1>2, FS_EmptySet
  <2> QED
    BY <1>1, <2>1, <2>2 DEF UseStands
<1>7. HeapSound(slabs, objects, live, given)
  <2>1. /\ slabs \in [ArenaPage -> Class \cup {"none"}] /\ live \in [ArenaPage -> Nat]
        /\ objects \in [Class -> Seq(Things)] /\ given \subseteq Things
    BY <1>1
  <2>2. \A c \in Class : objects[c] = <<>>
    BY <1>1
  <2>3. \A c \in Class : IsInjective(objects[c])
    BY <2>2 DEF IsInjective
  <2>4. \A c \in Class : \A x : x \notin ToSet(objects[c])
    BY <2>2 DEF ToSet
  <2>5. \A c \in Class : \A x \in Things : slabs[x[1]] # c
    <3> TAKE c \in Class
    <3> TAKE x \in Things
    <3>1. x[1] \in ArenaPage /\ c # "none"
      BY ArenaAssumption DEF Things, Class
    <3> QED
      BY <1>1, <3>1
  <2>6. \A p \in ArenaPage : slabs[p] = "none"
    BY <1>1
  <2> QED
    BY <1>1, <2>1, <2>3, <2>4, <2>5, <2>6 DEF HeapSound
<1> QED
  BY <1>5, <1>6, <1>7 DEF ArenaInv

(* Every call keeps the invariant.                                         *)
LEMMA ArenaGoesOn ==
    ASSUME ArenaInv, [ArenaNext]_arenaVars
    PROVE  ArenaInv'
<1>1. PlacesStand /\ UseStands /\ HeapSound(slabs, objects, live, given)
  BY DEF ArenaInv
<1>2. ASSUME NEW count \in PageCounts, AllocateLarge(count)
      PROVE  ArenaInv'
  <2>1. count \in Nat
    BY <1>2, ArenaAssumption
  <2>2. UNCHANGED heapVars
    BY <1>2 DEF AllocateLarge
  <2> QED
    BY <1>1, <1>2, <2>1, <2>2, AllocateLargeKeeps DEF ArenaInv, heapVars
<1>3. ASSUME NEW count \in PageCounts, KernelDeviceMap(count)
      PROVE  ArenaInv'
  <2>1. count \in Nat
    BY <1>3, ArenaAssumption
  <2>2. UNCHANGED heapVars
    BY <1>3 DEF KernelDeviceMap
  <2> QED
    BY <1>1, <1>3, <2>1, <2>2, DeviceMapKeeps DEF ArenaInv, heapVars
<1>4. ASSUME NEW range \in large, FreeLarge(range)
      PROVE  ArenaInv'
  <2>1. UNCHANGED heapVars
    BY <1>4 DEF FreeLarge
  <2> QED
    BY <1>1, <1>4, <2>1, FreeLargeKeeps DEF ArenaInv, heapVars
<1>5. ASSUME NEW range \in devices, KernelDeviceUnmap(range)
      PROVE  ArenaInv'
  <2>1. UNCHANGED heapVars
    BY <1>5 DEF KernelDeviceUnmap
  <2> QED
    BY <1>1, <1>5, <2>1, DeviceUnmapKeeps DEF ArenaInv, heapVars
<1>6. ASSUME NEW c \in Class, AllocateObject(c)
      PROVE  ArenaInv'
  BY <1>6, AllocateObjectKeeps
<1>7. ASSUME NEW object \in given, FreeObject(object)
      PROVE  ArenaInv'
  BY <1>7, FreeObjectKeeps
<1>8. CASE UNCHANGED arenaVars
  <2>1. Slabs' = Slabs
    BY <1>8 DEF arenaVars, Slabs
  <2> QED
    BY <1>1, <1>8, <2>1 DEF ArenaInv, PlacesStand, UseStands, arenaVars
<1> QED
  BY <1>2, <1>3, <1>4, <1>5, <1>6, <1>7, <1>8 DEF ArenaNext

(***************************************************************************)
(* What the invariant says of the properties.                              *)
(***************************************************************************)

(* The places by ranges, as the property has them.                         *)
LEMMA SoundPlaces ==
    ASSUME PlacesStand
    PROVE  PagesInOnePlace
<1>1. PICK held, places :
         /\ held = large \cup devices \cup FreeRanges
         /\ places = {Within(range) : range \in held} \cup {{p} : p \in Slabs}
                         \cup {{p} : p \in forfeit}
  OBVIOUS
<1>2. PICK n \in Nat : n = Len(list) /\ DOMAIN list = 1 .. n /\ list \in Seq(Ranges)
  BY DEF PlacesStand, Ascending
<1>3. Divided(PagesIn(list), Over(large), Over(devices), Slabs, forfeit, bump)
  BY DEF PlacesStand
<1>4. /\ \A a \in large : a \in Ranges /\ Within(a) \subseteq Over(large)
      /\ \A a \in devices : a \in Ranges /\ Within(a) \subseteq Over(devices)
      /\ \A a \in FreeRanges : a \in Ranges /\ Within(a) \subseteq PagesIn(list)
  BY <1>2 DEF PlacesStand, Apart, Over, FreeRanges, PagesIn
<1>5. \A a \in Ranges : Within(a) # {}
  <2> TAKE a \in Ranges
  <2>1. a.base \in Int /\ a.base \in Within(a)
    <3>1. a.base \in Nat /\ a.count \in Nat /\ a.count > 0
      BY WithinIs
    <3>2. a.base <= a.base /\ a.base < a.base + a.count /\ a.base \in Int
      BY <3>1
    <3> QED
      BY <3>2, WithinIs
  <2> QED
    BY <2>1
<1>6. \A a, b \in FreeRanges : a # b => Within(a) \cap Within(b) = {}
  <2> TAKE a, b \in FreeRanges
  <2>1. PICK j \in 1 .. n, k \in 1 .. n : a = list[j] /\ b = list[k]
    BY <1>2 DEF FreeRanges
  <2>2. a # b => j # k
    BY <2>1
  <2>3. j # k => Within(list[j]) \cap Within(list[k]) = {}
    BY <1>2, PlacesApart DEF PlacesStand
  <2> QED
    BY <2>1, <2>2, <2>3
<1>7. /\ \A a, b \in large : a # b => Within(a) \cap Within(b) = {}
      /\ \A a, b \in devices : a # b => Within(a) \cap Within(b) = {}
  BY DEF PlacesStand, Apart
<1>8. /\ PagesIn(list) \cap (Over(large) \cup Over(devices) \cup Slabs \cup forfeit) = {}
      /\ Over(large) \cap (Over(devices) \cup Slabs \cup forfeit) = {}
      /\ Over(devices) \cap (Slabs \cup forfeit) = {} /\ Slabs \cap forfeit = {}
      /\ PagesIn(list) \cup Over(large) \cup Over(devices) \cup Slabs \cup forfeit = 0 .. bump - 1
  BY <1>3 DEF Divided
<1>9. \A a, b \in held : a # b => Within(a) \cap Within(b) = {}
  <2> TAKE a, b \in held
  <2>1. CASE a \in large
    BY <1>1, <1>4, <1>7, <1>8, <2>1
  <2>2. CASE a \in devices
    BY <1>1, <1>4, <1>7, <1>8, <2>2
  <2>3. CASE a \in FreeRanges
    BY <1>1, <1>4, <1>6, <1>8, <2>3
  <2> QED
    BY <1>1, <2>1, <2>2, <2>3
<1>10. \A a \in held : Within(a) \cap (Slabs \cup forfeit) = {}
  BY <1>1, <1>4, <1>8
<1>11. \A a, b \in places : a # b => a \cap b = {}
  <2> TAKE a, b \in places
  <2>1. \/ \E r \in held : a = Within(r)
        \/ \E p \in Slabs \cup forfeit : a = {p}
    BY <1>1
  <2>2. \/ \E r \in held : b = Within(r)
        \/ \E p \in Slabs \cup forfeit : b = {p}
    BY <1>1
  <2> QED
    BY <1>9, <1>10, <2>1, <2>2
<1>12. large \cap devices = {} /\ FreeRanges \cap (large \cup devices) = {}
  <2>1. \A a \in large : a \notin devices /\ a \notin FreeRanges
    BY <1>4, <1>5, <1>8
  <2>2. \A a \in devices : a \notin FreeRanges
    BY <1>4, <1>5, <1>8
  <2> QED
    BY <2>1, <2>2
<1>13. UNION places = 0 .. bump - 1
  <2>1. \A p : p \in PagesIn(list) <=> \E r \in FreeRanges : p \in Within(r)
    BY DEF PagesIn, FreeRanges
  <2>2. \A p : p \in Over(large) <=> \E r \in large : p \in Within(r)
    BY DEF Over
  <2>3. \A p : p \in Over(devices) <=> \E r \in devices : p \in Within(r)
    BY DEF Over
  <2>4. \A p : p \in UNION places <=> \/ \E r \in held : p \in Within(r)
                                      \/ p \in Slabs \cup forfeit
    BY <1>1
  <2>5. UNION places = PagesIn(list) \cup Over(large) \cup Over(devices) \cup Slabs \cup forfeit
    BY <1>1, <2>1, <2>2, <2>3, <2>4
  <2> QED
    BY <1>8, <2>5
<1>14. \A p \in forfeit : p \notin Slabs
  BY <1>8
<1> QED
  BY <1>1, <1>9, <1>11, <1>12, <1>13, <1>14 DEF PagesInOnePlace

(* The objects by slabs, as the property has them.                         *)
LEMMA SoundObjects ==
    ASSUME HeapSound(slabs, objects, live, given)
    PROVE  ObjectsInOnePlace
<1>1. slabs \in [ArenaPage -> Class \cup {"none"}]
  BY DEF HeapSound
<1>2. \A c \in Class : ObjectsOf[c] \in Nat \ {0} /\ c # "none"
  BY ArenaAssumption DEF Class
<1>3. ASSUME NEW c \in Class
      PROVE  /\ IsInjective(objects[c])
             /\ ToSet(objects[c]) = (UNION {ObjectsIn(p) : p \in {q \in Slabs : slabs[q] = c}}) \ given
  <2>1. IsInjective(objects[c]) /\ objects[c] \in Seq(Things)
    BY DEF HeapSound
  <2>2. \A x \in ToSet(objects[c]) : x \in Things
    BY <2>1 DEF ToSet
  <2> DEFINE all == UNION {ObjectsIn(p) : p \in {q \in Slabs : slabs[q] = c}}
  <2>3. \A x : x \in all <=> \E p \in ArenaPage : slabs[p] = c /\ x \in ObjectsIn(p)
    BY <1>2 DEF Slabs
  <2> HIDE DEF all
  <2>4. \A x : x \in all <=> \E p \in ArenaPage : slabs[p] = c /\ x \in ObjectsIn(p)
    BY <2>3
  <2>5. ASSUME NEW p \in ArenaPage, slabs[p] = c
        PROVE  \A x : x \in ObjectsIn(p) <=> \E k \in 1 .. ObjectsOf[c] : x = <<p, k>>
    BY <2>5 DEF ObjectsIn
  <2>6. \A x : x \in all <=> x \in Things /\ slabs[x[1]] = c /\ x[2] \in 1 .. ObjectsOf[c]
    <3> TAKE x
    <3>1. ASSUME x \in all
          PROVE  x \in Things /\ slabs[x[1]] = c /\ x[2] \in 1 .. ObjectsOf[c]
      <4>1. PICK p \in ArenaPage : slabs[p] = c /\ x \in ObjectsIn(p)
        BY <2>4, <3>1
      <4>2. PICK k \in 1 .. ObjectsOf[c] : x = <<p, k>>
        BY <2>5, <4>1
      <4>3. k \in Nat
        BY <1>2
      <4> QED
        BY <4>1, <4>2, <4>3 DEF Things
    <3>2. ASSUME x \in Things, slabs[x[1]] = c, x[2] \in 1 .. ObjectsOf[c]
          PROVE  x \in all
      <4>1. x[1] \in ArenaPage /\ x = <<x[1], x[2]>>
        BY <3>2 DEF Things
      <4>2. x \in ObjectsIn(x[1])
        BY <2>5, <3>2, <4>1
      <4> QED
        BY <2>4, <3>2, <4>1, <4>2
    <3> QED
      BY <3>1, <3>2
  <2>7. \A x \in Things :
           x \in ToSet(objects[c]) <=> slabs[x[1]] = c /\ x[2] \in 1 .. ObjectsOf[c] /\ x \notin given
    BY DEF HeapSound
  <2>8. ToSet(objects[c]) = all \ given
    BY <2>2, <2>6, <2>7
  <2> QED
    BY <2>1, <2>8 DEF all
<1>4. ASSUME NEW p \in Slabs
      PROVE  live[p] = Cardinality(given \cap ObjectsIn(p))
  <2>1. p \in ArenaPage /\ slabs[p] # "none"
    BY DEF Slabs
  <2>2. live[p] = Cardinality({x \in given : x[1] = p})
    BY <2>1 DEF HeapSound
  <2>3. \A x \in given : x \in Things /\ x[2] \in 1 .. ObjectsOf[slabs[x[1]]]
    BY DEF HeapSound
  <2>4. \A x : x \in ObjectsIn(p) <=> \E k \in 1 .. ObjectsOf[slabs[p]] : x = <<p, k>>
    BY DEF ObjectsIn
  <2>5. ASSUME NEW x \in given
        PROVE  x \in ObjectsIn(p) <=> x[1] = p
    <3>1. x = <<x[1], x[2]>>
      BY <2>3 DEF Things
    <3>2. x[1] = p => x \in ObjectsIn(p)
      BY <2>3, <2>4, <3>1
    <3>3. x \in ObjectsIn(p) => x[1] = p
      BY <2>4
    <3> QED
      BY <3>2, <3>3
  <2>6. given \cap ObjectsIn(p) = {x \in given : x[1] = p}
    BY <2>5
  <2> QED
    BY <2>2, <2>6
<1> QED
  BY <1>3, <1>4 DEF ObjectsInOnePlace

(* The invariant implies the property.                                     *)
LEMMA ArenaStands ==
    ASSUME ArenaInv
    PROVE  ArenaSound
<1>1. PlacesStand /\ UseStands /\ HeapSound(slabs, objects, live, given)
  BY DEF ArenaInv
<1>2. ListCoalesced
  <2>1. PICK n \in Nat : n = Len(list) /\ DOMAIN list = 1 .. n
    BY <1>1 DEF PlacesStand, Ascending
  <2>2. Len(list) <= ListCapacity
    BY <1>1 DEF PlacesStand
  <2>3. \A j, k \in 1 .. n : j < k => list[j].base + list[j].count < list[k].base
    BY <1>1, <2>1 DEF PlacesStand, Ascending
  <2>4. \A k \in 2 .. n : k - 1 \in 1 .. n /\ k \in 1 .. n /\ k - 1 < k
    OBVIOUS
  <2>5. \A k \in 2 .. n : list[k - 1].base + list[k - 1].count < list[k].base
    BY <2>3, <2>4
  <2> QED
    BY <2>1, <2>2, <2>5 DEF ListCoalesced
<1>3. PagesInOnePlace /\ ObjectsInOnePlace
  BY <1>1, SoundPlaces, SoundObjects
<1>4. /\ \A p \in ArenaPage :
            mapped[p] = IF p \in Over(devices) THEN "device"
                        ELSE IF p \in Over(large) \cup Slabs THEN "frame" ELSE "none"
      /\ inUse = Cardinality(Over(large) \cup Slabs)
  BY <1>1 DEF UseStands, MappedBy
<1> QED
  BY <1>2, <1>3, <1>4 DEF ArenaSound

(* ArenaSound, of vmm.c and heap.c, whatever the order of the calls and    *)
(* wherever the frames run out: no page and no object is held twice or     *)
(* lost, and each page is mapped as what it is held for.                   *)
THEOREM ArenaStaysSound == ArenaInit /\ [][ArenaNext]_arenaVars => []ArenaSound
<1>1. ArenaInit => ArenaInv
  BY ArenaBegins
<1>2. ArenaInv /\ [ArenaNext]_arenaVars => ArenaInv'
  BY ArenaGoesOn
<1>3. ArenaInv => ArenaSound
  BY ArenaStands
<1> QED
  BY <1>1, <1>2, <1>3, PTL
=============================================================================
