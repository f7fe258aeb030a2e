---------------------------- MODULE VolumeProofs ----------------------------
(***************************************************************************)
(* The files of the volume, for any sizes of it: whatever calls are made   *)
(* of ext2, in any order, and whatever allocation of theirs is refused,    *)
(* names, links, blocks and counts agree while the volume is mounted, and  *)
(* so they do on what an unmount or a stop leaves under the clean mark.    *)
(*                                                                         *)
(*   names of inodes    NamesStand, LinksStand    Reached, not lost        *)
(*   blocks of inodes   Books                     pointed at once          *)
(*   an operation       Stepped, Worked, Firm     one inode in hand        *)
(*   the volume         Sturdy, NamesHold         between operations       *)
(*   mounted, at rest   Mounted, Rests            SoundInv                 *)
(***************************************************************************)
EXTENDS StorageProofs

(***************************************************************************)
(* The names of a directory, block by block.                               *)
(***************************************************************************)
NameIn(v, r, k, n) == IF IsNames(v, r, k) THEN EntriesAt(v, r, k).names[n] ELSE 0
NamedOnce(v, r) ==
    \A n \in Name : \A j, k \in 0 .. r.size - 1 : NameIn(v, r, j, n) # 0 /\ NameIn(v, r, k, n) # 0 => j = k

LEMMA BlocksOf ==
    ASSUME VolumeAssumption, NEW r \in InodeRecord
    PROVE  /\ r.size \in Nat /\ 0 .. r.size - 1 \subseteq Nat /\ 0 .. r.size - 1 \subseteq Indices
           /\ r.size \in 0 .. PerTable + 1
<1>1. r.size \in 0 .. PerTable + 1 /\ PerTable \in Nat
  BY InodeIs DEF VolumeAssumption
<1> QED
  BY <1>1 DEF Indices

LEMMA NameInIs ==
    ASSUME VolumeAssumption, NEW v, Formed(v), NEW r \in InodeRecord, NEW k \in Indices, NEW n \in Name
    PROVE  NameIn(v, r, k, n) \in Inode \cup {0}
<1>1. CASE ~IsNames(v, r, k)
  BY <1>1 DEF NameIn
<1>2. CASE IsNames(v, r, k)
  <2>1. BlockAt(v, r, k) \in DiskBlock
    BY <1>2, PointerIs DEF IsNames
  <2>2. EntriesAt(v, r, k) \in Content /\ EntriesAt(v, r, k).kind = "names"
    BY <1>2, <2>1 DEF Formed, EntriesAt, IsNames
  <2>3. EntriesAt(v, r, k).names \in NameRows
    BY <2>2, ContentIs
  <2>4. EntriesAt(v, r, k).names[n] \in 0 .. Inodes
    BY <2>3 DEF NameRows
  <2>5. EntriesAt(v, r, k).names[n] \in Inode \cup {0}
    BY <2>4 DEF Inode, VolumeAssumption
  <2> QED
    BY <1>2, <2>5 DEF NameIn
<1> QED
  BY <1>1, <1>2

(* Ext2DirectoryFind takes the first block that has the name.              *)
Having(v, r, n) == {k \in 0 .. r.size - 1 : NameIn(v, r, k, n) # 0}
LEMMA LookupByBlock ==
    ASSUME VolumeAssumption, NEW v, NEW r \in InodeRecord, NEW n
    PROVE  /\ Having(v, r, n) = {} => Lookup(v, r, n) = 0
           /\ Having(v, r, n) # {} =>
                 /\ Min(Having(v, r, n)) \in Having(v, r, n)
                 /\ Lookup(v, r, n) = NameIn(v, r, Min(Having(v, r, n)), n)
<1>1. PICK at : at = Having(v, r, n)
  OBVIOUS
<1>2. at = {k \in 0 .. r.size - 1 : IsNames(v, r, k) /\ EntriesAt(v, r, k).names[n] # 0}
  BY <1>1 DEF Having, NameIn
<1>3. CASE at = {}
  BY <1>1, <1>2, <1>3 DEF Lookup
<1>4. CASE at # {}
  <2>1. at \subseteq Nat
    BY <1>1, BlocksOf DEF Having
  <2>2. PICK k : k = Min(at) /\ k \in at
    BY <1>4, <2>1, LeastMember
  <2>3. Lookup(v, r, n) = EntriesAt(v, r, k).names[n]
    BY <1>2, <1>4, <2>2 DEF Lookup
  <2>4. NameIn(v, r, k, n) = EntriesAt(v, r, k).names[n]
    BY <1>2, <2>2 DEF NameIn
  <2> QED
    BY <1>1, <1>4, <2>2, <2>3, <2>4
<1> QED
  BY <1>1, <1>3, <1>4

LEMMA LookupFinds ==
    ASSUME VolumeAssumption, NEW v, Formed(v), NEW r \in InodeRecord, NEW n \in Name
    PROVE  /\ Lookup(v, r, n) \in Inode \cup {0}
           /\ Lookup(v, r, n) # 0 => \E k \in 0 .. r.size - 1 : NameIn(v, r, k, n) = Lookup(v, r, n)
           /\ Lookup(v, r, n) = 0 => \A k \in 0 .. r.size - 1 : NameIn(v, r, k, n) = 0
           /\ NamedOnce(v, r) => \A k \in 0 .. r.size - 1 : NameIn(v, r, k, n) # 0 => Lookup(v, r, n) = NameIn(v, r, k, n)
<1>1. PICK at : at = Having(v, r, n)
  OBVIOUS
<1>2. CASE at = {}
  <2>1. \A k \in 0 .. r.size - 1 : NameIn(v, r, k, n) = 0
    BY <1>1, <1>2 DEF Having
  <2> QED
    BY <1>1, <1>2, <2>1, LookupByBlock
<1>3. CASE at # {}
  <2>1. PICK k : k \in at /\ Lookup(v, r, n) = NameIn(v, r, k, n)
    BY <1>1, <1>3, LookupByBlock
  <2>2. k \in 0 .. r.size - 1 /\ NameIn(v, r, k, n) # 0
    BY <1>1, <2>1 DEF Having
  <2>3. NameIn(v, r, k, n) \in Inode \cup {0}
    BY <2>2, BlocksOf, NameInIs
  <2>4. NamedOnce(v, r) => \A j \in 0 .. r.size - 1 : NameIn(v, r, j, n) # 0 => j = k
    BY <2>2 DEF NamedOnce
  <2> QED
    BY <2>1, <2>2, <2>3, <2>4
<1> QED
  BY <1>2, <1>3

(* A name that is in the same blocks, and leads from each to the same.     *)
LEMMA LookupSameName ==
    ASSUME VolumeAssumption, NEW v, NEW u, NEW r \in InodeRecord, NEW q \in InodeRecord, NEW n,
           Having(u, q, n) = Having(v, r, n), \A k \in Having(v, r, n) : NameIn(u, q, k, n) = NameIn(v, r, k, n)
    PROVE  Lookup(u, q, n) = Lookup(v, r, n)
<1>1. PICK at : at = Having(v, r, n) /\ at = Having(u, q, n)
  OBVIOUS
<1>2. CASE at = {}
  BY <1>1, <1>2, LookupByBlock
<1>3. CASE at # {}
  <2>1. PICK k : k = Min(at)
    OBVIOUS
  <2>2. k \in at /\ Lookup(v, r, n) = NameIn(v, r, k, n) /\ Lookup(u, q, n) = NameIn(u, q, k, n)
    BY <1>1, <1>3, <2>1, LookupByBlock
  <2> QED
    BY <1>1, <2>2
<1> QED
  BY <1>2, <1>3
(* Two directories with the same names in the same blocks.                 *)
SameNames(v, r, u, q) ==
    /\ q.size = r.size
    /\ \A k \in 0 .. r.size - 1 : \A n \in Name : NameIn(u, q, k, n) = NameIn(v, r, k, n)
LEMMA LookupSame ==
    ASSUME VolumeAssumption, NEW v, NEW u, NEW r \in InodeRecord, NEW q \in InodeRecord, SameNames(v, r, u, q)
    PROVE  /\ \A n \in Name : Lookup(u, q, n) = Lookup(v, r, n)
           /\ NamedOnce(v, r) => NamedOnce(u, q)
<1>1. \A n \in Name : Having(u, q, n) = Having(v, r, n) /\ \A k \in Having(v, r, n) : NameIn(u, q, k, n) = NameIn(v, r, k, n)
  BY DEF Having, SameNames
<1>2. \A n \in Name : Lookup(u, q, n) = Lookup(v, r, n)
  BY <1>1, LookupSameName
<1>3. NamedOnce(v, r) => NamedOnce(u, q)
  BY DEF NamedOnce, SameNames
<1> QED
  BY <1>2, <1>3

LEMMA BodyNames ==
    ASSUME VolumeAssumption, NEW v, NEW u, NEW r \in InodeRecord, NEW q \in InodeRecord, NEW X, BodyBut(v, r, u, q, X)
    PROVE  /\ \A k \in Indices \ X : \A n : NameIn(u, q, k, n) = NameIn(v, r, k, n)
           /\ X = {} /\ q.size = r.size => SameNames(v, r, u, q)
<1>1. \A k \in Indices \ X : \A n : NameIn(u, q, k, n) = NameIn(v, r, k, n)
  BY DEF BodyBut, NameIn, IsNames, EntriesAt
<1>2. X = {} /\ q.size = r.size => SameNames(v, r, u, q)
  BY <1>1, BlocksOf DEF SameNames
<1> QED
  BY <1>1, <1>2

(* An inode on the volume, and the same in memory, which may have a table  *)
(* of null pointers besides: Ext2InodeBlockAllocate failed halfway.        *)
Behind(v, d, r) ==
    /\ SameShape(r, d) /\ d.direct = r.direct
    /\ d.table # r.table => d.table = 0 /\ \A p \in Place \ {0, 1} : PointerAt(v, r, p) = 0
LEMMA BehindBody ==
    ASSUME VolumeAssumption, NEW v, Formed(v), NEW d \in InodeRecord, NEW r \in InodeRecord, Behind(v, d, r)
    PROVE  \A k \in Indices : BlockAt(v, d, k) = BlockAt(v, r, k)
<1> SUFFICES ASSUME NEW k \in Indices
             PROVE  BlockAt(v, d, k) = BlockAt(v, r, k)
  OBVIOUS
<1>1. CASE k = 0
  BY <1>1 DEF Behind, BlockAt
<1>2. CASE k # 0 /\ d.table = r.table
  BY <1>2 DEF Behind, BlockAt
<1>3. CASE k # 0 /\ d.table # r.table
  <2>1. PlaceOf(k) \in Place \ {0, 1}
    BY <1>3, PlaceOfIs
  <2>2. BlockAt(v, r, k) = 0
    BY <1>3, <2>1, PointerIs DEF Behind
  <2> QED
    BY <1>3, <2>2 DEF Behind, BlockAt
<1> QED
  BY <1>1, <1>2, <1>3

LEMMA BehindStays ==
    ASSUME VolumeAssumption, NEW v, Formed(v), NEW u, Formed(u), NEW d, NEW r \in InodeRecord, NEW q \in InodeRecord,
           Behind(v, d, r), SamePointers(v, r, u, q), SameShape(r, q)
    PROVE  Behind(u, d, q)
<1>1. q.direct = r.direct /\ q.table = r.table
  BY PointerIs DEF SamePointers
<1> QED
  BY <1>1 DEF Behind, SameShape, SamePointers

LEMMA BehindRefused ==
    ASSUME NEW s, NEW t, NEW d, s.i \in InodeRecord, Behind(s.v, d, s.i), Refused(s, t)
    PROVE  Behind(t.v, d, t.i)
<1>1. CASE t.v = s.v /\ t.i = s.i
  BY <1>1
<1>2. CASE TableMade(s, t)
  <2>1. PICK b : b = t.i.table
    OBVIOUS
  <2>2. t.i = [s.i EXCEPT !.table = b]
    BY <1>2, <2>1 DEF TableMade
  <2>3. t.i.kind = s.i.kind /\ t.i.links = s.i.links /\ t.i.size = s.i.size /\ t.i.direct = s.i.direct
    BY <2>2 DEF InodeRecord
  <2>4. d.table = 0 /\ \A p \in Place \ {0, 1} : PointerAt(t.v, t.i, p) = 0
    BY <1>2 DEF TableMade, Behind
  <2> QED
    BY <2>3, <2>4 DEF Behind, SameShape
<1> QED
  BY <1>1, <1>2 DEF Refused

(***************************************************************************)
(* A volume and the inodes in memory that stand well together.             *)
(***************************************************************************)
(* One inode d of the volume v, which is r in memory.                      *)
Tallies(v, d, r, used, tight) ==
    /\ Behind(v, d, r)
    /\ d.kind = "dir" => NamedOnce(v, d)
    /\ ~used => d.size = 0
    /\ tight => d = r /\ (d.size = 0 => d.direct = 0 /\ d.table = 0)
Sturdy(v, N, tight) ==
    /\ N \in [Inode -> InodeRecord]
    /\ Books(v, N, tight) /\ InodeCount(v)
    /\ \A i \in Inode : Tallies(v, InodeIn(v, i), N[i], i \in v[InodeMap], tight)
(* An operation that has the inode x in hand.                              *)
Firm(s, x, M, tight) == Sane(s) /\ x \in Inode /\ Sturdy(s.v, M, tight) /\ M[x] = s.i

(* What is found under a name, and the inodes of which that, and what the  *)
(* names of others rest on, is as it was.                                  *)
Look(v, j, n) == Lookup(v, InodeIn(v, j), n)
Alike(v, u, X) ==
    \A j \in Inode \ X :
        /\ InodeIn(u, j).kind = InodeIn(v, j).kind /\ InodeIn(u, j).links = InodeIn(v, j).links
        /\ \A n \in Name : Look(u, j, n) = Look(v, j, n)
LEMMA AlikeOn ==
    ASSUME NEW v, NEW u, NEW w, NEW X, NEW Y
    PROVE  /\ Alike(v, u, X) /\ Alike(u, w, Y) => Alike(v, w, X \cup Y)
           /\ Alike(v, v, {})
  BY DEF Alike

LEMMA FormedIs ==
    ASSUME NEW v, Formed(v)
    PROVE  \A i \in Inode : InodeIn(v, i) \in InodeRecord
  BY DEF Formed
LEMMA UntouchedBody ==
    ASSUME VolumeAssumption, NEW v, Formed(v), NEW u, Formed(u), NEW r \in InodeRecord, Untouched(v, u, r)
    PROVE  SamePointers(v, r, u, r) /\ BodyBut(v, r, u, r, {})
<1>1. SamePointers(v, r, u, r)
  BY UntouchedIs
<1>2. \A k \in Indices : /\ PlaceOf(k) \in Place /\ BlockAt(v, r, k) = PointerAt(v, r, PlaceOf(k))
                         /\ BlockAt(u, r, k) = PointerAt(u, r, PlaceOf(k))
  BY PointerIs
<1> QED
  BY <1>1, <1>2 DEF BodyBut, SamePointers, Untouched

LEMMA TalliesOn ==
    ASSUME VolumeAssumption, NEW v, Formed(v), NEW u, Formed(u), NEW d \in InodeRecord, NEW r \in InodeRecord,
           NEW used, NEW tight, Tallies(v, d, r, used, tight), Untouched(v, u, r)
    PROVE  Tallies(u, d, r, used, tight) /\ \A n \in Name : Lookup(u, d, n) = Lookup(v, d, n)
<1>1. SamePointers(v, r, u, r) /\ BodyBut(v, r, u, r, {})
  BY UntouchedBody
<1>2. Behind(v, d, r)
  BY DEF Tallies
<1>3. Behind(u, d, r)
  BY <1>1, <1>2, BehindStays DEF SameShape
<1>4. \A k \in Indices : BlockAt(v, d, k) = BlockAt(v, r, k) /\ BlockAt(u, d, k) = BlockAt(u, r, k)
  BY <1>2, <1>3, BehindBody
<1>5. BodyBut(v, d, u, d, {})
  BY <1>1, <1>4 DEF BodyBut
<1>6. SameNames(v, d, u, d)
  BY <1>5, BodyNames
<1>7. (\A n \in Name : Lookup(u, d, n) = Lookup(v, d, n)) /\ (NamedOnce(v, d) => NamedOnce(u, d))
  BY <1>6, LookupSame
<1> QED
  BY <1>3, <1>7 DEF Tallies

LEMMA FirmUnder ==
    ASSUME NEW s, NEW x, NEW M, NEW tight, Firm(s, x, M, tight)
    PROVE  /\ Under(s, x, M, tight) /\ Formed(s.v) /\ s.i \in InodeRecord /\ InodeIn(s.v, x) \in InodeRecord
           /\ Tallies(s.v, InodeIn(s.v, x), s.i, x \in s.v[InodeMap], tight)
           /\ Sane(s) /\ x \in Inode /\ M \in [Inode -> InodeRecord]
<1>1. Sane(s) /\ x \in Inode /\ Sturdy(s.v, M, tight) /\ M[x] = s.i
  BY DEF Firm
<1>2. M \in [Inode -> InodeRecord] /\ Books(s.v, M, tight)
  BY <1>1 DEF Sturdy
<1>3. With(M, x, s.i) = M
  BY <1>1, <1>2 DEF With
<1>4. Under(s, x, M, tight)
  BY <1>1, <1>2, <1>3 DEF Under
<1>5. Formed(s.v) /\ s.i \in InodeRecord
  BY <1>1, SaneIsFormed DEF Sane
<1>6. InodeIn(s.v, x) \in InodeRecord
  BY <1>1, <1>5, FormedIs
<1>7. Tallies(s.v, InodeIn(s.v, x), s.i, x \in s.v[InodeMap], tight)
  BY <1>1 DEF Sturdy
<1> QED
  BY <1>1, <1>2, <1>4, <1>5, <1>6, <1>7
(* The other inodes while one was worked upon.                             *)
LEMMA OthersTally ==
    ASSUME VolumeAssumption, NEW v, Formed(v), NEW u, Formed(u), NEW M \in [Inode -> InodeRecord], NEW x \in Inode,
           NEW tight, \A i \in Inode : Tallies(v, InodeIn(v, i), M[i], i \in v[InodeMap], tight), Spares(v, u, x, M)
    PROVE  /\ \A j \in Inode \ {x} : Tallies(u, InodeIn(u, j), M[j], j \in u[InodeMap], tight)
           /\ Alike(v, u, {x})
<1>1. ASSUME NEW j \in Inode \ {x}
      PROVE  /\ Tallies(u, InodeIn(u, j), M[j], j \in u[InodeMap], tight)
             /\ InodeIn(u, j) = InodeIn(v, j) /\ \A n \in Name : Look(u, j, n) = Look(v, j, n)
  <2>1. InodeIn(u, j) = InodeIn(v, j) /\ Untouched(v, u, M[j])
    BY DEF Spares
  <2>2. PICK d \in InodeRecord : d = InodeIn(v, j)
    BY FormedIs
  <2>3. PICK r \in InodeRecord : r = M[j]
    OBVIOUS
  <2>4. PICK used : used = (j \in v[InodeMap]) /\ used = (j \in u[InodeMap])
    BY DEF Spares, InodesKept
  <2>5. Tallies(v, d, r, used, tight) /\ Untouched(v, u, r)
    BY <2>1, <2>2, <2>3, <2>4
  <2>6. Tallies(u, d, r, used, tight) /\ \A n \in Name : Lookup(u, d, n) = Lookup(v, d, n)
    BY <2>5, TalliesOn
  <2> QED
    BY <2>1, <2>2, <2>3, <2>4, <2>6 DEF Look
<1> QED
  BY <1>1 DEF Alike

LEMMA WorkedAlike ==
    ASSUME VolumeAssumption, NEW s, NEW x, NEW M, NEW tight, Firm(s, x, M, tight), NEW t, Worked(s, t, x, M, tight)
    PROVE  Alike(s.v, t.v, {x}) /\ InodesKept(s.v, t.v)
<1>1. /\ Formed(s.v) /\ x \in Inode /\ M \in [Inode -> InodeRecord]
      /\ \A i \in Inode : Tallies(s.v, InodeIn(s.v, i), M[i], i \in s.v[InodeMap], tight)
  BY FirmUnder DEF Firm, Sturdy
<1>2. Spares(s.v, t.v, x, M) /\ Formed(t.v)
  BY SaneIsFormed DEF Worked, Under
<1>3. Alike(s.v, t.v, {x})
  BY <1>1, <1>2, OthersTally
<1> QED
  BY <1>2, <1>3 DEF Spares

LEMMA FirmAfter ==
    ASSUME VolumeAssumption, NEW s, NEW x, NEW M, NEW tight, Firm(s, x, M, tight), NEW t, Worked(s, t, x, M, tight),
           NEW loose, loose => tight, Tallies(t.v, InodeIn(t.v, x), t.i, x \in s.v[InodeMap], loose)
    PROVE  Firm(t, x, With(M, x, t.i), loose) /\ Alike(s.v, t.v, {x}) /\ InodesKept(s.v, t.v)
<1>1. /\ Formed(s.v) /\ x \in Inode /\ M \in [Inode -> InodeRecord]
      /\ \A i \in Inode : Tallies(s.v, InodeIn(s.v, i), M[i], i \in s.v[InodeMap], tight)
      /\ InodeCount(s.v)
  BY FirmUnder DEF Firm, Sturdy
<1>2. Spares(s.v, t.v, x, M) /\ Sane(t) /\ Books(t.v, With(M, x, t.i), tight) /\ t.i \in InodeRecord /\ Formed(t.v)
  BY SaneIsFormed DEF Worked, Under, Sane
<1>3. InodesKept(s.v, t.v)
  BY <1>2 DEF Spares
<1>4. PICK N : N = With(M, x, t.i) /\ N \in [Inode -> InodeRecord] /\ N[x] = t.i /\ \A j \in Inode \ {x} : N[j] = M[j]
  BY <1>1, <1>2, WithIs
<1>5. /\ \A j \in Inode \ {x} : Tallies(t.v, InodeIn(t.v, j), M[j], j \in t.v[InodeMap], tight)
      /\ Alike(s.v, t.v, {x})
  BY <1>1, <1>2, OthersTally
<1>6. \A j \in Inode : Tallies(t.v, InodeIn(t.v, j), N[j], j \in t.v[InodeMap], loose)
  <2>1. \A j \in Inode \ {x} : Tallies(t.v, InodeIn(t.v, j), N[j], j \in t.v[InodeMap], loose)
    BY <1>4, <1>5 DEF Tallies
  <2>2. (x \in t.v[InodeMap]) = (x \in s.v[InodeMap])
    BY <1>3 DEF InodesKept
  <2>3. Tallies(t.v, InodeIn(t.v, x), N[x], x \in t.v[InodeMap], loose)
    BY <1>4, <2>2
  <2> QED
    BY <2>1, <2>3
<1>7. InodeCount(t.v)
  BY <1>1, <1>3 DEF InodeCount, InodesKept
<1>8. Books(t.v, N, loose)
  BY <1>2, <1>4 DEF Books
<1> QED
  BY <1>1, <1>2, <1>3, <1>4, <1>5, <1>6, <1>7, <1>8 DEF Firm, Sturdy
(* Where nothing need be lost, something may be.                           *)
LEMMA SturdyLoose ==
    ASSUME NEW v, NEW N, NEW tight, Sturdy(v, N, tight), NEW loose, loose => tight
    PROVE  Sturdy(v, N, loose)
  BY DEF Sturdy, Books, Tallies
(* Another inode taken in hand.                                            *)
LEMMA FirmOther ==
    ASSUME NEW s, NEW x, NEW M, NEW tight, Firm(s, x, M, tight), NEW y \in Inode, NEW t, Sane(t), t.v = s.v, t.i = M[y]
    PROVE  Firm(t, y, M, tight)
  BY DEF Firm

(* A name put into the k-th block of a directory, or taken out of it; the  *)
(* directory may have grown by that block.                                 *)
NamePut(v, r, u, q, k, n, i) ==
    /\ k \in 0 .. q.size - 1 /\ r.size <= q.size /\ NameIn(u, q, k, n) = i
    /\ \A l \in 0 .. q.size - 1 : \A m \in Name : ~(l = k /\ m = n) =>
          NameIn(u, q, l, m) = IF l < r.size THEN NameIn(v, r, l, m) ELSE 0
LEMMA OtherNames ==
    ASSUME VolumeAssumption, NEW v, NEW u, NEW r \in InodeRecord, NEW q \in InodeRecord,
           NEW k, NEW n \in Name, NEW i, NamePut(v, r, u, q, k, n, i)
    PROVE  \A m \in Name \ {n} : Lookup(u, q, m) = Lookup(v, r, m)
<1> SUFFICES ASSUME NEW m \in Name \ {n}
             PROVE  Lookup(u, q, m) = Lookup(v, r, m)
  OBVIOUS
<1>1. r.size \in Nat /\ q.size \in Nat /\ r.size <= q.size
  BY BlocksOf DEF NamePut
<1>2. \A l \in 0 .. q.size - 1 : NameIn(u, q, l, m) = IF l < r.size THEN NameIn(v, r, l, m) ELSE 0
  BY DEF NamePut
<1>3. \A l : l \in Having(u, q, m) <=> l \in Having(v, r, m)
  BY <1>1, <1>2 DEF Having
<1>4. \A l \in Having(v, r, m) : NameIn(u, q, l, m) = NameIn(v, r, l, m)
  BY <1>1, <1>2 DEF Having
<1>5. Having(u, q, m) = Having(v, r, m)
  BY <1>3
<1> QED
  BY <1>4, <1>5, LookupSameName

LEMMA NameGained ==
    ASSUME VolumeAssumption, NEW v, Formed(v), NEW u, Formed(u), NEW r \in InodeRecord, NEW q \in InodeRecord,
           NEW k, NEW n \in Name, NEW i, i # 0, NamePut(v, r, u, q, k, n, i), Lookup(v, r, n) = 0, NamedOnce(v, r)
    PROVE  Lookup(u, q, n) = i /\ NamedOnce(u, q)
<1>1. r.size \in Nat /\ q.size \in Nat /\ r.size <= q.size
  BY BlocksOf DEF NamePut
<1>2. \A l \in 0 .. r.size - 1 : NameIn(v, r, l, n) = 0
  BY LookupFinds
<1>3. \A l \in 0 .. q.size - 1 : \A m \in Name :
         NameIn(u, q, l, m) # 0 => (l = k /\ m = n) \/ (l \in 0 .. r.size - 1 /\ m # n /\ NameIn(v, r, l, m) # 0)
  BY <1>1, <1>2 DEF NamePut
<1>4. NamedOnce(u, q)
  BY <1>3 DEF NamedOnce
<1>5. k \in 0 .. q.size - 1 /\ NameIn(u, q, k, n) = i
  BY DEF NamePut
<1> QED
  BY <1>4, <1>5, LookupFinds

LEMMA NameGone ==
    ASSUME VolumeAssumption, NEW v, Formed(v), NEW u, Formed(u), NEW r \in InodeRecord, NEW q \in InodeRecord,
           NEW k, NEW n \in Name, NamePut(v, r, u, q, k, n, 0), NameIn(v, r, k, n) # 0, NamedOnce(v, r), q.size = r.size
    PROVE  Lookup(u, q, n) = 0 /\ NamedOnce(u, q)
<1>1. r.size \in Nat /\ k \in 0 .. r.size - 1 /\ NameIn(u, q, k, n) = 0
  BY BlocksOf DEF NamePut
<1>2. \A l \in 0 .. q.size - 1 : \A m \in Name : ~(l = k /\ m = n) => NameIn(u, q, l, m) = NameIn(v, r, l, m)
  BY <1>1 DEF NamePut
<1>3. \A l \in 0 .. q.size - 1 : \A m \in Name : NameIn(u, q, l, m) # 0 => NameIn(v, r, l, m) # 0
  BY <1>1, <1>2
<1>4. NamedOnce(u, q)
  BY <1>3 DEF NamedOnce
<1>5. ASSUME NEW l \in 0 .. q.size - 1
      PROVE  NameIn(u, q, l, n) = 0
  <2>1. CASE l = k
    BY <1>1, <2>1
  <2>2. CASE l # k
    <3>1. NameIn(v, r, l, n) = 0
      BY <1>1, <2>2 DEF NamedOnce
    <3> QED
      BY <1>2, <2>2, <3>1
  <2> QED
    BY <2>1, <2>2
<1>6. Lookup(u, q, n) = 0
  BY <1>5, LookupFinds
<1> QED
  BY <1>4, <1>6

(* One slot of a block of a directory written.                             *)
LEMMA NameSet ==
    ASSUME VolumeAssumption, NEW s, NEW x, NEW N, NEW tight, Under(s, x, N, tight), s.ok,
           NEW k \in 0 .. s.i.size - 1, IsNames(s.v, s.i, k), NEW n \in Name, NEW i \in Inode \cup {0},
           NEW t, t = SetName(s, BlockAt(s.v, s.i, k), n, i)
    PROVE  /\ Same(s, t) /\ Stepped(s, t, x, N, tight) /\ SamePointers(s.v, s.i, t.v, t.i)
           /\ NamePut(s.v, s.i, t.v, t.i, k, n, i)
<1>1. Sane(s) /\ s.i \in InodeRecord /\ Formed(s.v)
  BY SaneIsFormed DEF Under, Sane
<1>2. k \in Indices /\ s.i.size \in Nat
  BY <1>1, BlocksOf
<1>3. PICK b : b = BlockAt(s.v, s.i, k) /\ b \in DiskBlock /\ b # 0
  BY <1>1, <1>2, PointerIs DEF IsNames
<1>4. PICK names : names = s.v[Area(b)].names /\ names \in NameRows
  BY <1>1, <1>3, NamesAtIs DEF EntriesAt
<1>5. PICK new : new = [names EXCEPT ![n] = i] /\ new \in NameRows
  <2>1. i \in 0 .. Inodes
    BY DEF Inode, VolumeAssumption
  <2>2. [names EXCEPT ![n] = i] \in NameRows
    BY <1>4, <2>1 DEF NameRows
  <2> QED
    BY <2>2
<1>6. new[n] = i /\ \A m \in Name \ {n} : new[m] = names[m]
  BY <1>4, <1>5 DEF NameRows
<1>7. PICK z : z = Names(new) /\ t = Put(s, Area(b), z) /\ z \in Content
  BY <1>3, <1>4, <1>5, ContentIs DEF SetName
<1>8. /\ Same(s, t) /\ HasPut(s, t, Area(b), z) /\ Stepped(s, t, x, N, tight)
      /\ BlockAt(t.v, t.i, k) = b /\ BodyBut(s.v, s.i, t.v, t.i, {k})
      /\ SamePointers(s.v, s.i, t.v, t.i)
  <2>0. Same(s, t) /\ HasPut(s, t, Area(b), z)
    BY <1>2, <1>3, <1>7, AreaRewritten
  <2>5. Stepped(s, t, x, N, tight)
    BY <1>2, <1>3, <1>7, AreaRewritten
  <2>1. Same(s, t) /\ HasPut(s, t, Area(b), z) /\ Stepped(s, t, x, N, tight)
    BY <2>0, <2>5
  <2>2. SamePointers(s.v, s.i, t.v, t.i)
    BY <1>2, <1>3, <1>7, AreaRewritten
  <2>3. BodyBut(s.v, s.i, t.v, t.i, {k})
    BY <1>2, <1>3, <1>7, AreaRewritten
  <2>4. BlockAt(t.v, t.i, k) = b
    <3>1. Formed(t.v) /\ t.i \in InodeRecord
      BY <2>1, SaneIsFormed DEF Stepped, Under, Sane
    <3>2. PlaceOf(k) \in Place /\ BlockAt(s.v, s.i, k) = PointerAt(s.v, s.i, PlaceOf(k))
      BY <1>1, <1>2, PointerIs
    <3>3. BlockAt(t.v, t.i, k) = PointerAt(t.v, t.i, PlaceOf(k))
      BY <1>2, <3>1, PointerIs
    <3> QED
      BY <1>3, <2>2, <3>2, <3>3 DEF SamePointers
  <2> QED
    BY <2>1, <2>2, <2>3, <2>4
<1>9. t.i = s.i
  BY <1>8 DEF Same
<1>10. t.v[Area(b)] = Names(new)
  BY <1>7, <1>8 DEF HasPut
<1>11. \A m : NameIn(t.v, t.i, k, m) = new[m] /\ NameIn(s.v, s.i, k, m) = names[m]
  BY <1>3, <1>4, <1>8, <1>10 DEF NameIn, IsNames, EntriesAt, Names
<1>12. \A l \in Indices \ {k} : \A m : NameIn(t.v, t.i, l, m) = NameIn(s.v, s.i, l, m)
  BY <1>1, <1>8, <1>9, BodyNames
<1>13. \A l \in 0 .. s.i.size - 1 : l \in Indices /\ l < s.i.size
  BY <1>1, <1>2, BlocksOf
<1>14. ASSUME NEW l \in 0 .. s.i.size - 1, NEW m \in Name, ~(l = k /\ m = n)
       PROVE  NameIn(t.v, t.i, l, m) = NameIn(s.v, s.i, l, m)
  <2>1. CASE l = k
    BY <1>6, <1>11, <1>14, <2>1
  <2>2. CASE l # k
    BY <1>12, <1>13, <2>2
  <2> QED
    BY <2>1, <2>2
<1>15. NamePut(s.v, s.i, t.v, t.i, k, n, i)
  BY <1>2, <1>6, <1>9, <1>11, <1>13, <1>14 DEF NamePut
<1> QED
  BY <1>8, <1>15

(* A directory grows by the block just got, and the name goes into it.     *)
LEMMA GrowDoes ==
    ASSUME VolumeAssumption, NEW a, NEW x, NEW N, NEW tight, Under(a, x, N, tight), a.ok,
           NEW k \in Indices, k = a.i.size, NEW g, g = a.got, g = BlockAt(a.v, a.i, k), g # 0,
           NEW n \in Name, NEW i \in Inode, NEW t, t = Grow(a, x, n, i)
    PROVE  /\ t.ok /\ Worked(a, t, x, N, tight) /\ InodeIn(t.v, x) = t.i /\ t.i.size > 0
           /\ NamePut(a.v, a.i, t.v, t.i, k, n, i)
<1>1. Sane(a) /\ a.i \in InodeRecord /\ Formed(a.v) /\ x \in Inode /\ k \in Nat /\ k <= PerTable /\ PerTable \in Nat
  <2>1. Sane(a) /\ a.i \in InodeRecord /\ Formed(a.v) /\ x \in Inode
    BY SaneIsFormed DEF Under, Sane
  <2>2. PerTable \in Nat
    BY DEF VolumeAssumption
  <2> QED
    BY <2>1, <2>2 DEF Indices
<1>2. PICK z : z = Names(NoNames) /\ z \in Content /\ z.kind = "names" /\ z.names = NoNames
  <2>1. Names(NoNames) \in Content /\ Names(NoNames).kind = "names" /\ Names(NoNames).names = NoNames
    BY EmptyIs, ContentIs DEF Names
  <2> QED
    BY <2>1
<1>3. PICK c : c = Put(a, Area(g), z)
  OBVIOUS
<1>4. Same(a, c) /\ HasPut(a, c, Area(g), z) /\ Stepped(a, c, x, N, tight)
  <2>1. z \in Content
    BY <1>2
  <2>2. Same(a, c) /\ HasPut(a, c, Area(g), z)
    BY <1>3, <2>1, AreaRewritten
  <2>3. Stepped(a, c, x, N, tight)
    BY <1>3, <2>1, AreaRewritten
  <2> QED
    BY <2>2, <2>3
<1>5. BodyBut(a.v, a.i, c.v, c.i, {k}) /\ SamePointers(a.v, a.i, c.v, c.i)
  BY <1>2, <1>3, AreaRewritten
<1>6. Sane(c) /\ c.i = a.i /\ c.ok /\ Under(c, x, N, tight) /\ Formed(c.v) /\ c.got = g
  BY <1>4, SaneIsFormed DEF Same, Stepped, Under
<1>7. BlockAt(c.v, c.i, k) = g
  <2>1. PlaceOf(k) \in Place /\ BlockAt(a.v, a.i, k) = PointerAt(a.v, a.i, PlaceOf(k))
    BY <1>1, PointerIs
  <2>2. BlockAt(c.v, c.i, k) = PointerAt(c.v, c.i, PlaceOf(k))
    BY <1>1, <1>6, PointerIs
  <2> QED
    BY <1>5, <2>1, <2>2 DEF SamePointers
<1>8. c.v[Area(g)] = z
  BY <1>4 DEF HasPut
<1>9. PICK r : r = [c.i EXCEPT !.size = k + 1] /\ r \in InodeRecord
  <2>1. k + 1 \in 0 .. PerTable + 1
    BY <1>1
  <2> QED
    BY <1>1, <1>6, <2>1, InodeIs
<1>10. r.kind = a.i.kind /\ r.links = a.i.links /\ r.direct = c.i.direct /\ r.table = c.i.table /\ r.size = k + 1
  BY <1>1, <1>6, <1>9 DEF InodeRecord
<1>11. PICK b : b = HasInHand(c, r)
  OBVIOUS
<1>12. Sane(b) /\ b.v = c.v /\ b.i = r /\ b.ok = c.ok /\ b.got = c.got
  <2>1. Sane(c) /\ r \in InodeRecord
    BY <1>6, <1>9
  <2> QED
    BY <1>11, <2>1, InHandIs
<1>13. Under(b, x, N, tight)
  BY <1>6, <1>9, <1>10, <1>12, ShapeChanged
<1>14. Worked(c, b, x, N, tight)
  BY <1>6, <1>10, <1>12, <1>13, SparesAll DEF Worked
<1>15. PICK d : d = WriteInode(b, x, r)
  OBVIOUS
<1>16. Sane(d) /\ Same(b, d) /\ InodeWritten(b.v, d.v, x, r)
  BY <1>1, <1>6, <1>9, <1>12, <1>15, InodeIsWritten
<1>17. d.i = r /\ d.ok
  BY <1>6, <1>12, <1>16 DEF Same
<1>18. Worked(b, d, x, N, tight) /\ InodeIn(d.v, x) = d.i
  BY <1>12, <1>13, <1>16, <1>17, ItselfWritten
<1>19. Under(d, x, N, tight) /\ Formed(d.v)
  BY <1>16, <1>18, SaneIsFormed DEF Worked
<1>20. AreasKept(c.v, d.v) /\ BodyBut(c.v, r, d.v, d.i, {})
  <2>1. AreasKept(b.v, d.v)
    <3>1. InodeWritten(b.v, d.v, x, r) /\ x \in Inode
      BY <1>1, <1>16
    <3> QED
      BY <3>1, WrittenKeeps
  <2>2. Formed(b.v)
    BY <1>12, SaneIsFormed
  <2>3. BodyBut(b.v, r, d.v, r, {})
    BY <1>9, <2>1, <2>2, AreasPoint
  <2> QED
    BY <1>12, <1>17, <2>1, <2>3
<1>21. t = SetName(d, g, n, i)
  <2>1. c.i.size = k
    BY <1>6
  <2>2. [Put(a, Area(a.got), Names(NoNames)) EXCEPT !.i.size = @ + 1] = b
    BY <1>2, <1>3, <1>9, <1>11, <2>1 DEF HasInHand
  <2> QED
    BY <1>12, <1>15, <2>2 DEF Grow
<1>22. \A l \in Indices : BlockAt(c.v, r, l) = BlockAt(c.v, c.i, l)
  BY <1>10 DEF BlockAt
<1>23. BlockAt(d.v, d.i, k) = g /\ d.v[Area(g)] = z
  BY <1>7, <1>8, <1>20, <1>22 DEF BodyBut
<1>24. IsNames(d.v, d.i, k) /\ k \in 0 .. d.i.size - 1
  BY <1>1, <1>2, <1>10, <1>17, <1>23 DEF IsNames, EntriesAt
<1>25. Same(d, t) /\ Stepped(d, t, x, N, tight) /\ NamePut(d.v, d.i, t.v, t.i, k, n, i)
  <2>1. i \in Inode \cup {0}
    OBVIOUS
  <2>2. t = SetName(d, BlockAt(d.v, d.i, k), n, i)
    BY <1>21, <1>23
  <2> QED
    BY <1>17, <1>19, <1>24, <2>1, <2>2, NameSet
<1>26. t.i = r /\ t.ok
  BY <1>17, <1>25 DEF Same
<1>27. InodeIn(t.v, x) = t.i
  BY <1>1, <1>17, <1>18, <1>25, <1>26 DEF Stepped, InodesAside, InodeIn
<1>28. Worked(a, t, x, N, tight)
  <2>1. Worked(a, c, x, N, tight) /\ Worked(d, t, x, N, tight)
    BY <1>4, <1>25, WorkedOn
  <2>2. Worked(a, b, x, N, tight)
    BY <1>14, <2>1, WorkedOn
  <2>3. Worked(a, d, x, N, tight)
    BY <1>18, <2>2, WorkedOn
  <2> QED
    BY <2>1, <2>3, WorkedOn
<1>29. \A l \in Indices : \A m : NameIn(d.v, d.i, l, m) = NameIn(c.v, c.i, l, m)
  BY <1>20, <1>22 DEF BodyBut, NameIn, IsNames, EntriesAt
<1>30. \A l \in Indices \ {k} : \A m : NameIn(d.v, d.i, l, m) = NameIn(a.v, a.i, l, m)
  <2>1. \A l \in Indices \ {k} : \A m : NameIn(c.v, c.i, l, m) = NameIn(a.v, a.i, l, m)
    BY <1>1, <1>5, <1>6, BodyNames
  <2> QED
    BY <1>29, <2>1
<1>31. \A m \in Name : NameIn(d.v, d.i, k, m) = 0
  BY <1>2, <1>23, <1>24 DEF NameIn, EntriesAt, NoNames
<1>32. NamePut(a.v, a.i, t.v, t.i, k, n, i)
  <2>1. t.i.size = k + 1 /\ d.i.size = k + 1 /\ a.i.size = k
    BY <1>10, <1>17, <1>26
  <2>2. k \in 0 .. t.i.size - 1 /\ NameIn(t.v, t.i, k, n) = i
    BY <1>25 DEF NamePut
  <2>3. ASSUME NEW l \in 0 .. t.i.size - 1, NEW m \in Name, ~(l = k /\ m = n)
        PROVE  NameIn(t.v, t.i, l, m) = IF l < k THEN NameIn(a.v, a.i, l, m) ELSE 0
    <3>1. NameIn(t.v, t.i, l, m) = NameIn(d.v, d.i, l, m)
      BY <1>1, <1>25, <2>1, <2>3 DEF NamePut
    <3>2. l \in Indices /\ (l < k \/ l = k)
      BY <1>1, <2>1 DEF Indices
    <3> QED
      BY <1>1, <1>30, <1>31, <3>1, <3>2
  <2> QED
    BY <1>1, <2>1, <2>2, <2>3 DEF NamePut
<1> QED
  BY <1>1, <1>10, <1>26, <1>27, <1>28, <1>32

(* Ext2DirectoryInsert, of a name that is not there: it is found then, and *)
(* the other names as before; or else nothing is changed, but for an empty *)
(* table in memory.                                                        *)
NameAdded(s, t, n, i) ==
    /\ NamedOnce(t.v, t.i) /\ Lookup(t.v, t.i, n) = i
    /\ \A m \in Name \ {n} : Lookup(t.v, t.i, m) = Lookup(s.v, s.i, m)
InPlace(s, t) == InodesAside(s.v, t.v) /\ t.i = s.i /\ SamePointers(s.v, s.i, t.v, t.i)
NotAdded(s, t) == SameNames(s.v, s.i, t.v, t.i) /\ Refused(s, t) /\ InodesAside(s.v, t.v)
LEMMA InsertWorks ==
    ASSUME VolumeAssumption, NEW s, NEW x, NEW N, NEW tight, Under(s, x, N, tight), s.ok,
           NEW n \in Name, NEW i \in Inode, Lookup(s.v, s.i, n) = 0, NamedOnce(s.v, s.i),
           NEW t, t = Insert(s, x, n, i)
    PROVE  /\ Worked(s, t, x, N, tight)
           /\ t.ok => NameAdded(s, t, n, i) /\ (InPlace(s, t) \/ (InodeIn(t.v, x) = t.i /\ t.i.size > 0))
           /\ ~t.ok => NotAdded(s, t)
<1>1. Sane(s) /\ s.i \in InodeRecord /\ Formed(s.v) /\ s.i.size \in 0 .. PerTable + 1 /\ PerTable \in Nat
  <2>1. Sane(s) /\ s.i \in InodeRecord /\ Formed(s.v)
    BY SaneIsFormed DEF Under, Sane
  <2>2. PerTable \in Nat
    BY DEF VolumeAssumption
  <2> QED
    BY <2>1, <2>2, InodeIs
<1>2. i # 0
  BY DEF Inode
<1>3. PICK room : room = {k \in 0 .. s.i.size - 1 :
                            IsNames(s.v, s.i, k) /\ Used(EntriesAt(s.v, s.i, k).names) < DirSlots}
  OBVIOUS
<1>4. CASE room # {}
  <2>1. PICK k : k = Min(room) /\ k \in room
    <3>1. room \subseteq Nat
      BY <1>1, <1>3
    <3> QED
      BY <1>4, <3>1, LeastMember
  <2>2. t = SetName(s, BlockAt(s.v, s.i, k), n, i)
    BY <1>3, <1>4, <2>1 DEF Insert
  <2>3. k \in 0 .. s.i.size - 1 /\ IsNames(s.v, s.i, k) /\ i \in Inode \cup {0}
    BY <1>3, <2>1
  <2>4. Same(s, t) /\ Stepped(s, t, x, N, tight) /\ SamePointers(s.v, s.i, t.v, t.i)
    BY <2>2, <2>3, NameSet
  <2>5. NamePut(s.v, s.i, t.v, t.i, k, n, i)
    BY <2>2, <2>3, NameSet
  <2>6. t.i = s.i /\ t.ok
    BY <2>4 DEF Same
  <2>7. Formed(t.v) /\ t.i \in InodeRecord
    BY <2>4, SaneIsFormed DEF Stepped, Under, Sane
  <2>8. NameAdded(s, t, n, i)
    <3>1. Lookup(t.v, t.i, n) = i /\ NamedOnce(t.v, t.i)
      BY <1>1, <1>2, <2>5, <2>7, NameGained
    <3>2. \A m \in Name \ {n} : Lookup(t.v, t.i, m) = Lookup(s.v, s.i, m)
      BY <1>1, <2>5, <2>7, OtherNames
    <3> QED
      BY <3>1, <3>2 DEF NameAdded
  <2>9. Worked(s, t, x, N, tight) /\ InPlace(s, t)
    BY <2>4, <2>6, WorkedOn DEF InPlace, Stepped
  <2> QED
    BY <2>6, <2>8, <2>9
<1>5. CASE room = {} /\ s.i.size > PerTable
  <2>1. t = [s EXCEPT !.ok = FALSE]
    BY <1>3, <1>5 DEF Insert, Refuse
  <2>2. Sane(t) /\ t.v = s.v /\ t.i = s.i /\ t.ok = FALSE
    BY <1>1, <2>1, OkIs
  <2>3. Worked(s, t, x, N, tight)
    BY <2>2, SparesAll DEF Worked, Under
  <2> QED
    BY <2>2, <2>3 DEF NotAdded, SameNames, Refused, InodesAside
<1>6. CASE room = {} /\ ~(s.i.size > PerTable)
  <2>1. PICK k : k = s.i.size /\ k \in Indices
    BY <1>1, <1>6 DEF Indices
  <2>2. PICK a : a = AllocateAt(s, k)
    OBVIOUS
  <2>3. Stepped(s, a, x, N, tight)
    BY <2>1, <2>2, AllocateAtDoes
  <2>4. Under(a, x, N, tight) /\ SameShape(s.i, a.i) /\ InodesAside(s.v, a.v) /\ Formed(a.v) /\ a.i \in InodeRecord
    BY <2>3, SaneIsFormed DEF Stepped, Under, Sane
  <2>5. t = Grow(a, x, n, i)
    BY <1>3, <1>6, <2>1, <2>2 DEF Insert
  <2>6. CASE ~a.ok
    <3>1. t = a
      BY <2>5, <2>6 DEF Grow
    <3>2. BodyBut(s.v, s.i, a.v, a.i, {}) /\ Refused(s, a)
      BY <2>1, <2>2, <2>6, AllocateAtDoes DEF Refused
    <3>3. SameNames(s.v, s.i, a.v, a.i)
      BY <1>1, <2>4, <3>2, BodyNames DEF SameShape
    <3> QED
      BY <2>3, <2>4, <2>6, <3>1, <3>2, <3>3, WorkedOn DEF NotAdded
  <2>7. CASE a.ok
    <3>1. a.got \in DiskBlock
      <4>1. Sane(s)
        BY <1>1
      <4> QED
        BY <2>1, <2>2, <2>7, <4>1, AllocateAtIs
    <3>2. a.got # 0
      BY <3>1 DEF DiskBlock
    <3>3. a.got = BlockAt(a.v, a.i, k) /\ BodyBut(s.v, s.i, a.v, a.i, {k})
      <4>1. CASE BlockAt(s.v, s.i, k) = 0
        BY <2>1, <2>2, <2>7, <4>1, AllocateAtDoes DEF NewAt
      <4>2. CASE BlockAt(s.v, s.i, k) # 0
        <5>1. a.v = s.v /\ a.i = s.i /\ a.got = BlockAt(s.v, s.i, k)
          BY <2>1, <2>2, <2>7, <4>2, AllocateAtDoes
        <5> QED
          BY <5>1 DEF BodyBut
      <4> QED
        BY <4>1, <4>2
    <3>4. k = a.i.size
      BY <2>1, <2>4 DEF SameShape
    <3>5. t.ok /\ Worked(a, t, x, N, tight) /\ InodeIn(t.v, x) = t.i /\ t.i.size > 0
      BY <2>1, <2>4, <2>5, <2>7, <3>2, <3>3, <3>4, GrowDoes
    <3>6. NamePut(a.v, a.i, t.v, t.i, k, n, i)
      BY <2>1, <2>4, <2>5, <2>7, <3>2, <3>3, <3>4, GrowDoes
    <3>7. Formed(t.v) /\ t.i \in InodeRecord
      BY <3>5, SaneIsFormed DEF Worked, Under, Sane
    <3>8. \A l \in Indices \ {k} : \A m : NameIn(a.v, a.i, l, m) = NameIn(s.v, s.i, l, m)
      BY <1>1, <2>4, <3>3, BodyNames
    <3>9. NamePut(s.v, s.i, t.v, t.i, k, n, i)
      <4>1. t.i.size \in Nat /\ \A l \in 0 .. t.i.size - 1 : l \in Indices
        BY <3>7, BlocksOf
      <4>2. \A l \in 0 .. t.i.size - 1 : l < k => l \in Indices \ {k}
        BY <1>1, <2>1, <4>1
      <4> QED
        BY <2>1, <3>4, <3>6, <3>8, <4>2 DEF NamePut
    <3>10. NameAdded(s, t, n, i)
      <4>1. Lookup(t.v, t.i, n) = i /\ NamedOnce(t.v, t.i)
        BY <1>1, <1>2, <3>7, <3>9, NameGained
      <4>2. \A m \in Name \ {n} : Lookup(t.v, t.i, m) = Lookup(s.v, s.i, m)
        BY <1>1, <3>7, <3>9, OtherNames
      <4> QED
        BY <4>1, <4>2 DEF NameAdded
    <3>11. Worked(s, t, x, N, tight)
      BY <2>3, <3>5, WorkedOn
    <3> QED
      BY <3>5, <3>10, <3>11
  <2> QED
    BY <2>6, <2>7
<1> QED
  BY <1>4, <1>5, <1>6

(* The same of a volume and a directory that stand well.                   *)
Inserted(s, t, x, n, i) ==
    /\ Look(t.v, x, n) = IF t.ok THEN i ELSE 0
    /\ \A m \in Name \ {n} : Look(t.v, x, m) = Look(s.v, x, m)
    /\ t.i.kind = s.i.kind /\ t.i.links = s.i.links
    /\ InodeIn(t.v, x).kind = s.i.kind /\ InodeIn(t.v, x).links = s.i.links
LEMMA BehindLooks ==
    ASSUME VolumeAssumption, NEW v, Formed(v), NEW d \in InodeRecord, NEW r \in InodeRecord, Behind(v, d, r)
    PROVE  /\ SameNames(v, r, v, d) /\ SameNames(v, d, v, r)
           /\ \A n \in Name : Lookup(v, d, n) = Lookup(v, r, n)
           /\ NamedOnce(v, d) <=> NamedOnce(v, r)
<1>1. BodyBut(v, r, v, d, {}) /\ BodyBut(v, d, v, r, {})
  BY BehindBody DEF BodyBut
<1>2. d.size = r.size
  BY DEF Behind, SameShape
<1>3. SameNames(v, r, v, d) /\ SameNames(v, d, v, r)
  BY <1>1, <1>2, BodyNames
<1> QED
  BY <1>3, LookupSame
InsertedFirm(s, t, x, M, tight) == Firm(t, x, With(M, x, t.i), tight /\ t.ok)
LEMMA InsertDoes ==
    ASSUME VolumeAssumption, NEW s, NEW x, NEW M, NEW tight, Firm(s, x, M, tight), s.ok, s.i.kind = "dir",
           x \in s.v[InodeMap], NEW n \in Name, NEW i \in Inode, Look(s.v, x, n) = 0, NEW t, t = Insert(s, x, n, i)
    PROVE  /\ InsertedFirm(s, t, x, M, tight) /\ Inserted(s, t, x, n, i)
           /\ Alike(s.v, t.v, {x}) /\ InodesKept(s.v, t.v)
<1>1. PICK d : d = InodeIn(s.v, x) /\ d \in InodeRecord
  BY FirmUnder
<1>2. /\ Under(s, x, M, tight) /\ Formed(s.v) /\ s.i \in InodeRecord
      /\ Tallies(s.v, d, s.i, x \in s.v[InodeMap], tight) /\ x \in Inode
  BY <1>1, FirmUnder
<1>3. Behind(s.v, d, s.i) /\ d.kind = "dir" /\ NamedOnce(s.v, d) /\ (tight => d = s.i)
  BY <1>2 DEF Tallies, Behind, SameShape
<1>4. Lookup(s.v, s.i, n) = 0 /\ NamedOnce(s.v, s.i) /\ \A m \in Name : Look(s.v, x, m) = Lookup(s.v, s.i, m)
  BY <1>1, <1>2, <1>3, BehindLooks DEF Look
<1>5. /\ Worked(s, t, x, M, tight)
      /\ t.ok => NameAdded(s, t, n, i) /\ (InPlace(s, t) \/ (InodeIn(t.v, x) = t.i /\ t.i.size > 0))
      /\ ~t.ok => NotAdded(s, t)
  BY <1>2, <1>4, InsertWorks
<1>6. Formed(t.v) /\ t.i \in InodeRecord /\ t.i.kind = s.i.kind /\ t.i.links = s.i.links
  BY <1>5, SaneIsFormed DEF Worked, Under, Sane
<1>7. PICK e : e = InodeIn(t.v, x) /\ e \in InodeRecord
  BY <1>2, <1>6, FormedIs
<1>8. InodesAside(s.v, t.v) => e = d
  BY <1>1, <1>2, <1>7 DEF InodesAside, InodeIn
<1>9. Behind(t.v, e, t.i)
  <2>1. CASE t.ok /\ InPlace(s, t)
    BY <1>2, <1>3, <1>6, <1>8, <2>1, BehindStays DEF InPlace, SameShape
  <2>2. CASE t.ok /\ e = t.i
    BY <2>2 DEF Behind, SameShape
  <2>3. CASE ~t.ok
    BY <1>2, <1>3, <1>5, <1>8, <2>3, BehindRefused DEF NotAdded
  <2> QED
    BY <1>5, <1>7, <2>1, <2>2, <2>3
<1>10. NamedOnce(t.v, t.i)
  <2>1. CASE t.ok
    BY <1>5, <2>1 DEF NameAdded
  <2>2. CASE ~t.ok
    BY <1>2, <1>4, <1>5, <1>6, <2>2, LookupSame DEF NotAdded
  <2> QED
    BY <2>1, <2>2
<1>11. NamedOnce(t.v, e) /\ \A m \in Name : Look(t.v, x, m) = Lookup(t.v, t.i, m)
  BY <1>6, <1>7, <1>9, <1>10, BehindLooks DEF Look
<1>12. Inserted(s, t, x, n, i)
  <2>1. e.kind = s.i.kind /\ e.links = s.i.links
    BY <1>6, <1>9 DEF Behind, SameShape
  <2>2. CASE t.ok
    BY <1>4, <1>5, <1>6, <1>7, <1>11, <2>1, <2>2 DEF NameAdded, Inserted
  <2>3. CASE ~t.ok
    <3>1. \A m \in Name : Lookup(t.v, t.i, m) = Lookup(s.v, s.i, m)
      BY <1>2, <1>5, <1>6, <2>3, LookupSame DEF NotAdded
    <3> QED
      BY <1>4, <1>6, <1>7, <1>11, <2>1, <2>3, <3>1 DEF Inserted
  <2> QED
    BY <2>2, <2>3
<1>13. tight /\ t.ok => e = t.i /\ (e.size = 0 => e.direct = 0 /\ e.table = 0)
  <2>1. CASE InPlace(s, t)
    BY <1>2, <1>3, <1>8, <2>1 DEF InPlace, Tallies
  <2>2. CASE e = t.i /\ t.i.size > 0
    BY <2>2
  <2> QED
    BY <1>5, <1>7, <2>1, <2>2
<1>14. Tallies(t.v, InodeIn(t.v, x), t.i, x \in s.v[InodeMap], tight /\ t.ok)
  BY <1>7, <1>9, <1>11, <1>13 DEF Tallies
<1>15. Firm(t, x, With(M, x, t.i), tight /\ t.ok) /\ Alike(s.v, t.v, {x}) /\ InodesKept(s.v, t.v)
  BY <1>5, <1>14, FirmAfter
<1> QED
  BY <1>12, <1>15 DEF InsertedFirm

LEMMA NothingIn ==
    ASSUME VolumeAssumption, NEW v, NEW r \in InodeRecord, r.size = 0
    PROVE  NamedOnce(v, r) /\ \A n \in Name : Lookup(v, r, n) = 0
<1>1. \A k : k \notin 0 .. r.size - 1
  OBVIOUS
<1>2. \A n : Having(v, r, n) = {}
  BY <1>1 DEF Having
<1>3. \A n \in Name : Lookup(v, r, n) = 0
  BY <1>2, LookupByBlock
<1> QED
  BY <1>1, <1>3 DEF NamedOnce

LEMMA BehindSelf ==
    ASSUME NEW v, NEW r
    PROVE  Behind(v, r, r)
  BY DEF Behind, SameShape
LEMMA InodesSame ==
    ASSUME NEW v, NEW u, InodesAside(v, u)
    PROVE  \A j \in Inode : InodeIn(u, j) = InodeIn(v, j)
  BY DEF InodesAside, InodeIn

(* Ext2DirectoryRemove of a name that is there.                            *)
NameTaken(s, t, x, n) ==
    /\ Look(t.v, x, n) = 0 /\ \A m \in Name \ {n} : Look(t.v, x, m) = Look(s.v, x, m)
    /\ \A j \in Inode : InodeIn(t.v, j) = InodeIn(s.v, j)
LEMMA RemoveNameDoes ==
    ASSUME VolumeAssumption, NEW s, NEW x, NEW M, NEW tight, Firm(s, x, M, tight), s.ok, s.i.kind = "dir",
           NEW n \in Name, Look(s.v, x, n) # 0, NEW t, t = RemoveName(s, n)
    PROVE  /\ Same(s, t) /\ Firm(t, x, M, tight) /\ NameTaken(s, t, x, n)
           /\ Alike(s.v, t.v, {x}) /\ InodesKept(s.v, t.v)
<1>1. PICK d : d = InodeIn(s.v, x) /\ d \in InodeRecord
  BY FirmUnder
<1>2. /\ Under(s, x, M, tight) /\ Formed(s.v) /\ s.i \in InodeRecord /\ Sane(s)
      /\ Tallies(s.v, d, s.i, x \in s.v[InodeMap], tight) /\ x \in Inode /\ M \in [Inode -> InodeRecord]
  BY <1>1, FirmUnder
<1>3. Behind(s.v, d, s.i) /\ d.kind = "dir" /\ NamedOnce(s.v, d)
  BY <1>2 DEF Tallies, Behind, SameShape
<1>4. Lookup(s.v, s.i, n) # 0 /\ NamedOnce(s.v, s.i) /\ \A m \in Name : Look(s.v, x, m) = Lookup(s.v, s.i, m)
  BY <1>1, <1>2, <1>3, BehindLooks DEF Look
<1>5. PICK k \in 0 .. s.i.size - 1 :
         /\ k = CHOOSE j \in 0 .. s.i.size - 1 : IsNames(s.v, s.i, j) /\ EntriesAt(s.v, s.i, j).names[n] # 0
         /\ IsNames(s.v, s.i, k) /\ EntriesAt(s.v, s.i, k).names[n] # 0
  <2>1. \E j \in 0 .. s.i.size - 1 : IsNames(s.v, s.i, j) /\ EntriesAt(s.v, s.i, j).names[n] # 0
    BY <1>2, <1>4, LookupIs
  <2> QED
    BY <2>1
<1>6. t = SetName(s, BlockAt(s.v, s.i, k), n, 0)
  BY <1>5 DEF RemoveName
<1>7. NameIn(s.v, s.i, k, n) # 0
  BY <1>5 DEF NameIn
<1>8. Same(s, t) /\ Stepped(s, t, x, M, tight) /\ SamePointers(s.v, s.i, t.v, t.i)
  BY <1>2, <1>5, <1>6, NameSet
<1>9. NamePut(s.v, s.i, t.v, t.i, k, n, 0)
  BY <1>2, <1>5, <1>6, NameSet
<1>10. t.i = s.i /\ t.ok /\ Formed(t.v) /\ InodesAside(s.v, t.v) /\ Worked(s, t, x, M, tight)
  BY <1>8, SaneIsFormed, WorkedOn DEF Same, Stepped, Under
<1>11. \A j \in Inode : InodeIn(t.v, j) = InodeIn(s.v, j)
  BY <1>10, InodesSame
<1>12. Lookup(t.v, t.i, n) = 0 /\ NamedOnce(t.v, t.i)
  BY <1>2, <1>4, <1>7, <1>9, <1>10, NameGone
<1>13. \A m \in Name \ {n} : Lookup(t.v, t.i, m) = Lookup(s.v, s.i, m)
  BY <1>2, <1>9, <1>10, OtherNames
<1>14. Behind(t.v, d, t.i)
  BY <1>1, <1>2, <1>3, <1>8, <1>10, BehindStays DEF SameShape
<1>15. NamedOnce(t.v, d) /\ \A m \in Name : Look(t.v, x, m) = Lookup(t.v, t.i, m)
  BY <1>1, <1>2, <1>10, <1>11, <1>12, <1>14, BehindLooks DEF Look
<1>16. Tallies(t.v, InodeIn(t.v, x), t.i, x \in s.v[InodeMap], tight)
  BY <1>1, <1>2, <1>10, <1>11, <1>14, <1>15 DEF Tallies
<1>17. Firm(t, x, With(M, x, t.i), tight) /\ Alike(s.v, t.v, {x}) /\ InodesKept(s.v, t.v)
  <2>1. PICK loose : loose = tight /\ (loose => tight)
    OBVIOUS
  <2>2. Firm(t, x, With(M, x, t.i), loose) /\ Alike(s.v, t.v, {x}) /\ InodesKept(s.v, t.v)
    <3>1. Worked(s, t, x, M, tight) /\ Tallies(t.v, InodeIn(t.v, x), t.i, x \in s.v[InodeMap], loose) /\ (loose => tight)
      BY <1>10, <1>16, <2>1
    <3>2. Firm(t, x, With(M, x, t.i), loose)
      BY <3>1, FirmAfter
    <3>3. Alike(s.v, t.v, {x}) /\ InodesKept(s.v, t.v)
      BY <3>1, WorkedAlike
    <3> QED
      BY <3>2, <3>3
  <2> QED
    BY <2>1, <2>2
<1>18. With(M, x, t.i) = M
  BY <1>2, <1>10 DEF With, Firm
<1> QED
  BY <1>4, <1>8, <1>11, <1>12, <1>13, <1>15, <1>17, <1>18 DEF NameTaken

(* Ext2TruncateFile.                                                       *)
Cleared(s, t, x) ==
    /\ InodeIn(t.v, x) = t.i /\ t.i.size = 0 /\ t.i.kind = s.i.kind /\ t.i.links = s.i.links
    /\ \A n \in Name : Look(t.v, x, n) = 0
LEMMA ClearDoes ==
    ASSUME VolumeAssumption, NEW s, NEW x, NEW M, NEW tight, Firm(s, x, M, tight), s.ok,
           NEW t, t = TruncateToNothing(s, x)
    PROVE  /\ t.ok /\ Firm(t, x, With(M, x, t.i), tight) /\ Cleared(s, t, x)
           /\ Alike(s.v, t.v, {x}) /\ InodesKept(s.v, t.v)
<1>1. Under(s, x, M, tight) /\ Tallies(s.v, InodeIn(s.v, x), s.i, x \in s.v[InodeMap], tight) /\ x \in Inode
  BY FirmUnder
<1>2. t.ok /\ Worked(s, t, x, M, tight) /\ Emptied(s, t, x)
  BY <1>1, TruncateDoes
<1>3. PICK q \in InodeRecord : q = t.i
  BY <1>2 DEF Worked, Under, Sane
<1>4. InodeIn(t.v, x) = q /\ q.size = 0 /\ q.kind = s.i.kind /\ q.links = s.i.links
  BY <1>2, <1>3 DEF Emptied, Worked
<1>5. tight => q.direct = 0 /\ q.table = 0
  <2>1. CASE s.i.size = 0
    BY <1>1, <1>2, <1>3, <2>1 DEF Emptied, Tallies
  <2>2. CASE s.i.size # 0
    BY <1>2, <1>3, <2>2 DEF Emptied
  <2> QED
    BY <2>1, <2>2
<1>6. NamedOnce(t.v, q) /\ \A n \in Name : Lookup(t.v, q, n) = 0
  BY <1>4, NothingIn
<1>7. Tallies(t.v, InodeIn(t.v, x), t.i, x \in s.v[InodeMap], tight)
  BY <1>3, <1>4, <1>5, <1>6, BehindSelf DEF Tallies
<1>8. Firm(t, x, With(M, x, t.i), tight) /\ Alike(s.v, t.v, {x}) /\ InodesKept(s.v, t.v)
  <2>1. PICK loose : loose = tight /\ (loose => tight)
    OBVIOUS
  <2>2. Firm(t, x, With(M, x, t.i), loose) /\ Alike(s.v, t.v, {x}) /\ InodesKept(s.v, t.v)
    <3>1. Worked(s, t, x, M, tight) /\ Tallies(t.v, InodeIn(t.v, x), t.i, x \in s.v[InodeMap], loose) /\ (loose => tight)
      BY <1>2, <1>7, <2>1
    <3>2. Firm(t, x, With(M, x, t.i), loose)
      BY <3>1, FirmAfter
    <3>3. Alike(s.v, t.v, {x}) /\ InodesKept(s.v, t.v)
      BY <3>1, WorkedAlike
    <3> QED
      BY <3>2, <3>3
  <2> QED
    BY <2>1, <2>2
<1>9. Cleared(s, t, x)
  BY <1>3, <1>4, <1>6 DEF Cleared, Look
<1> QED
  BY <1>2, <1>8, <1>9

(* Ext2WriteFile.                                                          *)
SameHead(s, t, x) ==
    /\ t.i.kind = s.i.kind /\ t.i.links = s.i.links
    /\ InodeIn(t.v, x).kind = s.i.kind /\ InodeIn(t.v, x).links = s.i.links
Altered(s, t, x, M, loose) ==
    /\ Firm(t, x, With(M, x, t.i), loose) /\ SameHead(s, t, x)
    /\ Alike(s.v, t.v, {x}) /\ InodesKept(s.v, t.v)
Filled(s, t, x, M, tight) == Altered(s, t, x, M, tight /\ t.ok)
LEMMA FillDoes ==
    ASSUME VolumeAssumption, NEW s, NEW x, NEW M, NEW tight, Firm(s, x, M, tight), s.ok, s.i.kind = "file",
           x \in s.v[InodeMap], NEW index \in Indices, NEW count \in 1 .. 2, index + count <= PerTable + 1,
           NEW t, t = WriteBlocks(s, x, index, count)
    PROVE  Filled(s, t, x, M, tight)
<1>1. /\ Under(s, x, M, tight) /\ Tallies(s.v, InodeIn(s.v, x), s.i, x \in s.v[InodeMap], tight) /\ x \in Inode
      /\ s.i \in InodeRecord
  BY FirmUnder
<1>2. /\ Worked(s, t, x, M, tight)
      /\ \/ InodeIn(t.v, x) = t.i /\ t.i.size > 0
         \/ ~t.ok /\ InodesAside(s.v, t.v) /\ Refused(s, t)
  BY <1>1, WriteBlocksDoes
<1>3. PICK e : e = InodeIn(t.v, x)
  OBVIOUS
<1>4. t.i.kind = s.i.kind /\ t.i.links = s.i.links
  BY <1>2 DEF Worked
<1>5. Behind(t.v, e, t.i) /\ (t.ok => e = t.i /\ e.size > 0)
  <2>1. CASE e = t.i /\ t.i.size > 0
    BY <2>1, BehindSelf
  <2>2. CASE ~t.ok /\ InodesAside(s.v, t.v) /\ Refused(s, t)
    <3>1. e = InodeIn(s.v, x)
      BY <1>1, <1>3, <2>2, InodesSame
    <3> QED
      BY <1>1, <2>2, <3>1, BehindRefused DEF Tallies
  <2> QED
    BY <1>2, <1>3, <2>1, <2>2
<1>6. e.kind = s.i.kind /\ e.links = s.i.links
  BY <1>4, <1>5 DEF Behind, SameShape
<1>7. Tallies(t.v, InodeIn(t.v, x), t.i, x \in s.v[InodeMap], tight /\ t.ok)
  BY <1>3, <1>5, <1>6 DEF Tallies
<1>8. Firm(t, x, With(M, x, t.i), tight /\ t.ok) /\ Alike(s.v, t.v, {x}) /\ InodesKept(s.v, t.v)
  BY <1>2, <1>7, FirmAfter
<1> QED
  BY <1>3, <1>4, <1>6, <1>8 DEF SameHead, Altered, Filled

(* The map of inodes written with the two counts of them, and the count of *)
(* directories.                                                            *)
InodesCounted(v, u, map, more) ==
    /\ u[InodeMap] = map /\ AllBut(v, u, {Super, Group, InodeMap}) /\ BlocksKept(v, u)
    /\ u[Group].directories = v[Group].directories + more
    /\ InodeCount(v) => InodeCount(u)
Regrouped(g, h, by, more) ==
    /\ h.freeInodes = g.freeInodes + by /\ h.directories = g.directories + more
    /\ h.freeBlocks = g.freeBlocks
LEMMA RegroupedIs ==
    ASSUME NEW group \in GroupRecord, NEW by \in Int, NEW directory \in BOOLEAN, NEW count \in Int
    PROVE  Regrouped(group, GroupWith(group, by, directory, count), by, IF directory THEN count ELSE 0)
<1>1. group.directories \in Int /\ group.freeInodes \in Int /\ group.freeBlocks \in Int
      /\ group = [freeBlocks |-> group.freeBlocks, freeInodes |-> group.freeInodes, directories |-> group.directories]
  BY DEF GroupRecord
<1>2. PICK n : n = (IF directory THEN group.directories + count ELSE group.directories)
  OBVIOUS
<1>3. GroupWith(group, by, directory, count) = [group EXCEPT !.freeInodes = group.freeInodes + by, !.directories = n]
  BY <1>2 DEF GroupWith, GroupRecord
<1>4. PICK m : m = group.freeInodes + by
  OBVIOUS
<1>5. PICK h : h = [group EXCEPT !.freeInodes = m, !.directories = n]
  OBVIOUS
<1>6. h.freeInodes = m /\ h.directories = n /\ h.freeBlocks = group.freeBlocks
  BY <1>1, <1>5 DEF GroupRecord
<1>7. n = group.directories + (IF directory THEN count ELSE 0)
  BY <1>1, <1>2
<1> QED
  BY <1>3, <1>4, <1>5, <1>6, <1>7 DEF Regrouped

LEMMA InodeMapCounted ==
    ASSUME VolumeAssumption, NEW s, Sane(s), s.ok, NEW map \in SUBSET Inode,
           NEW by \in Int, Cardinality(map) = Cardinality(s.v[InodeMap]) - by, Cardinality(s.v[InodeMap]) \in Nat,
           NEW directory \in BOOLEAN, NEW count \in Int,
           NEW a, a = Put(s, InodeMap, map), NEW group, group = GroupWith(a.v[Group], by, directory, count),
           NEW t, t = Adjust(Put(a, Group, group), Super, "freeInodes", by)
    PROVE  Sane(t) /\ Same(s, t) /\ InodesCounted(s.v, t.v, map, IF directory THEN count ELSE 0)
<1>1. Sane(a) /\ Same(s, a) /\ HasPut(s, a, InodeMap, map)
  <2>1. MayHold(InodeMap, map)
    BY VersionHeld
  <2> QED
    BY <2>1, PutKeeps, PutShows, OtherBuffers, StructureIs
<1>2. PICK more : more = IF directory THEN count ELSE 0
  OBVIOUS
<1>3. group \in GroupRecord /\ Regrouped(a.v[Group], group, by, more)
  <2>1. a.v[Group] \in GroupRecord
    BY <1>1, ViewIs
  <2> QED
    BY <1>2, <2>1, GroupWithIs, RegroupedIs
<1>4. PICK c : c = Put(a, Group, group)
  OBVIOUS
<1>5. a.ok
  BY <1>1 DEF Same
<1>6. Sane(c) /\ Same(a, c) /\ HasPut(a, c, Group, group)
  <2>1. MayHold(Group, group)
    BY <1>3, VersionHeld
  <2> QED
    BY <1>1, <1>4, <1>5, <2>1, PutKeeps, PutShows, OtherBuffers, StructureIs
<1>7. t = Adjust(c, Super, "freeInodes", by)
  BY <1>4
<1>8. Sane(t) /\ Same(c, t)
  BY <1>6, <1>7, AdjustSuper
<1>9. c.ok
  BY <1>5, <1>6 DEF Same
<1>10. /\ t.v[Super].freeInodes = c.v[Super].freeInodes + by /\ t.v[Super].freeBlocks = c.v[Super].freeBlocks
       /\ \A y \in Structure \ {Super} : t.v[y] = c.v[y]
  <2>1. Super \in {Super, Group} /\ "freeInodes" \in {"freeBlocks", "freeInodes"} /\ by \in Int
    OBVIOUS
  <2>2. Adjusted(c.v, t.v, Super, "freeInodes", by)
    BY <1>6, <1>7, <1>9, <2>1, AdjustShows
  <2> QED
    BY <2>2 DEF Adjusted, AllBut
<1>11. \A y \in Structure \ {InodeMap} : a.v[y] = s.v[y]
  BY <1>1 DEF HasPut
<1>12. c.v[Group] = group /\ \A y \in Structure \ {Group} : c.v[y] = a.v[y]
  BY <1>6 DEF HasPut
<1>13. /\ a.v[Super] = s.v[Super] /\ a.v[Group] = s.v[Group] /\ a.v[BlockMap] = s.v[BlockMap] /\ a.v[InodeMap] = map
       /\ c.v[Super] = a.v[Super] /\ c.v[BlockMap] = a.v[BlockMap] /\ c.v[InodeMap] = a.v[InodeMap]
       /\ t.v[Group] = c.v[Group] /\ t.v[BlockMap] = c.v[BlockMap] /\ t.v[InodeMap] = c.v[InodeMap]
  BY <1>1, <1>10, <1>11, <1>12, StructureIs, BuffersApart DEF HasPut
<1>14. /\ t.v[Group].freeInodes = s.v[Group].freeInodes + by /\ t.v[Group].directories = s.v[Group].directories + more
       /\ t.v[Group].freeBlocks = s.v[Group].freeBlocks
  BY <1>3, <1>12, <1>13 DEF Regrouped
<1>15. AllBut(s.v, t.v, {Super, Group, InodeMap})
  BY <1>10, <1>11, <1>12 DEF AllBut
<1>16. BlocksKept(s.v, t.v)
  BY <1>10, <1>13, <1>14 DEF BlocksKept
<1>17. InodeCount(s.v) => InodeCount(t.v)
  <2>1. Inodes \in Int /\ Cardinality(s.v[InodeMap]) \in Int
    BY DEF VolumeAssumption
  <2>2. t.v[Super].freeInodes = s.v[Super].freeInodes + by /\ t.v[InodeMap] = map
    BY <1>10, <1>13
  <2> QED
    BY <1>14, <2>1, <2>2 DEF InodeCount
<1>18. Same(s, t)
  BY <1>1, <1>6, <1>8, KeptOn
<1>19. t.v[InodeMap] = map
  BY <1>13
<1> QED
  BY <1>2, <1>8, <1>14, <1>15, <1>16, <1>17, <1>18, <1>19 DEF InodesCounted

(* Ext2AllocateInode and Ext2FreeInode.                                    *)
InodeTaken(v, u, i, directory) ==
    i \in Inode \ v[InodeMap] /\ InodesCounted(v, u, v[InodeMap] \cup {i}, IF directory THEN 1 ELSE 0)
LEMMA InodeIsTaken ==
    ASSUME VolumeAssumption, NEW s, Sane(s), s.ok, NEW directory \in BOOLEAN, NEW t, t = AllocateInode(s, directory)
    PROVE  /\ Sane(t) /\ t.i = s.i
           /\ t.ok => InodeTaken(s.v, t.v, t.got, directory)
           /\ ~t.ok => t.v = s.v
<1>1. PICK free : free = Inode \ s.v[InodeMap]
  OBVIOUS
<1>2. CASE s.v[Super].freeInodes = 0 \/ s.v[Group].freeInodes = 0 \/ free = {}
  <2>1. t = Refuse(s)
    BY <1>1, <1>2 DEF AllocateInode
  <2>2. t.v = s.v
    BY <2>1, FieldsIs DEF Refuse
  <2> QED
    BY <2>1, <2>2, RefuseIs DEF Kept
<1>3. CASE ~(s.v[Super].freeInodes = 0 \/ s.v[Group].freeInodes = 0 \/ free = {})
  <2>1. PICK i : i = Min(free) /\ i \in free
    <3>1. free \subseteq Nat
      BY <1>1 DEF Inode
    <3> QED
      BY <1>3, <3>1, LeastMember
  <2>2. i \in Inode /\ i \notin s.v[InodeMap] /\ s.v[InodeMap] \subseteq Inode
    BY <1>1, <2>1, ViewIs
  <2>3. PICK map : map = s.v[InodeMap] \cup {i}
    OBVIOUS
  <2>4. Cardinality(map) = Cardinality(s.v[InodeMap]) + 1 /\ Cardinality(s.v[InodeMap]) \in Nat
    BY <2>2, <2>3, InodesFinite, FS_Subset, OneMoreUsed
  <2>5. PICK a : a = Put(s, InodeMap, map)
    OBVIOUS
  <2>6. PICK group : group = GroupWith(a.v[Group], -1, directory, 1)
    OBVIOUS
  <2>7. PICK d : d = Adjust(Put(a, Group, group), Super, "freeInodes", -1)
    OBVIOUS
  <2>8. Sane(d) /\ Same(s, d) /\ InodesCounted(s.v, d.v, map, IF directory THEN 1 ELSE 0)
    <3>1. map \in SUBSET Inode /\ Cardinality(map) = Cardinality(s.v[InodeMap]) - (-1) /\ -1 \in Int /\ 1 \in Int
      BY <2>2, <2>3, <2>4
    <3> QED
      BY <2>4, <2>5, <2>6, <2>7, <3>1, InodeMapCounted
  <2>9. t = Gets(d, i)
    BY <1>1, <1>3, <2>1, <2>3, <2>5, <2>6, <2>7 DEF AllocateInode, GroupWith, Gets
  <2>10. Gotten(d, t, i)
    BY <2>8, <2>9, GotIs
  <2>11. InodeTaken(s.v, t.v, t.got, directory)
    BY <2>2, <2>3, <2>8, <2>10 DEF InodeTaken, Gotten
  <2>12. t.i = s.i /\ t.ok = s.ok
    BY <2>8, <2>10 DEF Gotten, Same
  <2>13. Sane(t)
    BY <2>10 DEF Gotten
  <2> QED
    BY <2>11, <2>12, <2>13
<1> QED
  BY <1>2, <1>3

LEMMA InodeIsFreed ==
    ASSUME VolumeAssumption, NEW s, Sane(s), s.ok, NEW directory \in BOOLEAN, NEW i \in s.v[InodeMap],
           NEW t, t = FreeInode(s, i, directory)
    PROVE  Sane(t) /\ Same(s, t) /\ InodesCounted(s.v, t.v, s.v[InodeMap] \ {i}, IF directory THEN -1 ELSE 0)
<1>1. PICK map : map = s.v[InodeMap] \ {i}
  OBVIOUS
<1>2. s.v[InodeMap] \subseteq Inode
  BY ViewIs
<1>3. Cardinality(map) = Cardinality(s.v[InodeMap]) - 1 /\ Cardinality(s.v[InodeMap]) \in Nat
  BY <1>1, <1>2, InodesFinite, FS_Subset, OneFewerUsed
<1>4. PICK a : a = Put(s, InodeMap, map)
  OBVIOUS
<1>5. PICK group : group = GroupWith(a.v[Group], 1, directory, -1)
  OBVIOUS
<1>6. t = Adjust(Put(a, Group, group), Super, "freeInodes", 1)
  BY <1>1, <1>4, <1>5 DEF FreeInode, GroupWith
<1>7. Sane(t) /\ Same(s, t) /\ InodesCounted(s.v, t.v, map, IF directory THEN -1 ELSE 0)
  <2>1. map \in SUBSET Inode /\ 1 \in Int /\ -1 \in Int
    BY <1>1, <1>2
  <2> QED
    BY <1>3, <1>4, <1>5, <1>6, <2>1, InodeMapCounted
<1> QED
  BY <1>1, <1>7

(* What is said of the inodes by volumes with the same blocks.             *)
InodesStay(v, u, X) == \A j \in Inode \ X : InodeIn(u, j) = InodeIn(v, j)
LEMMA OthersStay ==
    ASSUME VolumeAssumption, NEW v, Formed(v), NEW u, Formed(u), AreasKept(v, u), NEW X, InodesStay(v, u, X)
    PROVE  /\ Alike(v, u, X)
           /\ \A j \in Inode \ X : \A r \in InodeRecord : \A used, tight :
                 Tallies(v, InodeIn(v, j), r, used, tight) => Tallies(u, InodeIn(u, j), r, used, tight)
<1>1. ASSUME NEW j \in Inode \ X, NEW r \in InodeRecord, NEW used, NEW tight, Tallies(v, InodeIn(v, j), r, used, tight)
      PROVE  Tallies(u, InodeIn(u, j), r, used, tight)
  <2>1. PICK d \in InodeRecord : d = InodeIn(v, j) /\ d = InodeIn(u, j)
    BY FormedIs DEF InodesStay
  <2>2. Untouched(v, u, r)
    BY AreasPoint
  <2>3. Tallies(v, d, r, used, tight)
    BY <1>1, <2>1
  <2> QED
    BY <2>1, <2>2, <2>3, TalliesOn
<1>2. ASSUME NEW j \in Inode \ X, NEW n \in Name
      PROVE  Look(u, j, n) = Look(v, j, n)
  <2>1. PICK d \in InodeRecord : d = InodeIn(v, j) /\ d = InodeIn(u, j)
    BY FormedIs DEF InodesStay
  <2>2. SameNames(v, d, u, d)
    BY AreasPoint, BodyNames
  <2> QED
    BY <2>1, <2>2, LookupSame DEF Look
<1>3. Alike(v, u, X)
  BY <1>2 DEF Alike, InodesStay
<1> QED
  BY <1>1, <1>3

(* The map of inodes altered, where what is free has nothing.              *)
LEMMA MapChanged ==
    ASSUME VolumeAssumption, NEW v, Formed(v), NEW u, Formed(u), NEW M, NEW tight, Sturdy(v, M, tight),
           NEW map, NEW more, InodesCounted(v, u, map, more), \A j \in Inode \ map : InodeIn(v, j).size = 0
    PROVE  Sturdy(u, M, tight) /\ Alike(v, u, {}) /\ InodesStay(v, u, {}) /\ u[InodeMap] = map
<1>1. AllBut(v, u, {Super, Group, InodeMap}) /\ u[InodeMap] = map /\ BlocksKept(v, u)
  BY DEF InodesCounted
<1>2. InodesStay(v, u, {})
  <2>1. \A j \in Inode : Table(j) \in Structure \ {Super, Group, InodeMap}
    BY StructureIs, BuffersApart
  <2> QED
    BY <1>1, <2>1 DEF InodesStay, InodeIn, AllBut
<1>3. AreasKept(v, u)
  <2>1. \A b \in DiskBlock : Area(b) \in Structure \ {Super, Group, InodeMap}
    BY StructureIs, BuffersApart
  <2> QED
    BY <1>1, <2>1 DEF AreasKept, AllBut
<1>4. M \in [Inode -> InodeRecord] /\ Books(v, M, tight) /\ InodeCount(v)
  BY DEF Sturdy
<1>5. Alike(v, u, {})
  BY <1>2, <1>3, OthersStay
<1>6. ASSUME NEW j \in Inode
      PROVE  Tallies(u, InodeIn(u, j), M[j], j \in map, tight)
  <2>1. M[j] \in InodeRecord /\ j \in Inode \ {}
    BY <1>4
  <2>2. Tallies(v, InodeIn(v, j), M[j], j \in map, tight)
    <3>1. Tallies(v, InodeIn(v, j), M[j], j \in v[InodeMap], tight)
      BY DEF Sturdy
    <3> QED
      BY <3>1 DEF Tallies
  <2> QED
    BY <1>2, <1>3, <2>1, <2>2, OthersStay
<1>7. Books(u, M, tight)
  <2>1. Root \in Inode
    BY DEF Root, Inode, VolumeAssumption
  <2>2. PICK r \in InodeRecord : r = M[Root]
    BY <1>4, <2>1
  <2>3. With(M, Root, r) = M
    BY <1>4, <2>1, <2>2 DEF With
  <2>4. Books(v, With(M, Root, r), tight)
    BY <1>4, <2>3
  <2>5. Books(u, With(M, Root, r), tight)
    BY <1>1, <1>3, <1>4, <2>1, <2>4, BooksSame
  <2> QED
    BY <2>3, <2>5
<1>8. InodeCount(u)
  BY <1>4 DEF InodesCounted
<1> QED
  BY <1>1, <1>2, <1>4, <1>5, <1>6, <1>7, <1>8 DEF Sturdy

(* One inode written, the ledger being right with it.                      *)
LEMMA InodePutRight ==
    ASSUME VolumeAssumption, NEW v, Formed(v), NEW u, Formed(u), NEW M, NEW tight, Sturdy(v, M, tight),
           NEW i \in Inode, NEW q \in InodeRecord, InodeWritten(v, u, i, q), Books(u, With(M, i, q), tight),
           Tallies(u, q, q, i \in v[InodeMap], tight)
    PROVE  Sturdy(u, With(M, i, q), tight) /\ Alike(v, u, {i}) /\ InodesKept(v, u)
<1>1. AreasKept(v, u) /\ InodesKept(v, u)
  BY WrittenKeeps
<1>2. InodesStay(v, u, {i}) /\ InodeIn(u, i) = q
  BY DEF InodesStay, InodeWritten
<1>3. Alike(v, u, {i})
  BY <1>1, <1>2, OthersStay
<1>4. M \in [Inode -> InodeRecord] /\ InodeCount(v)
  BY DEF Sturdy
<1>5. PICK N : N = With(M, i, q) /\ N \in [Inode -> InodeRecord] /\ N[i] = q /\ \A j \in Inode \ {i} : N[j] = M[j]
  BY <1>4, WithIs
<1>6. u[InodeMap] = v[InodeMap]
  BY <1>1 DEF InodesKept
<1>7. ASSUME NEW j \in Inode
      PROVE  Tallies(u, InodeIn(u, j), N[j], j \in u[InodeMap], tight)
  <2>1. CASE j = i
    BY <1>2, <1>5, <1>6, <2>1
  <2>2. CASE j # i
    <3>1. M[j] \in InodeRecord /\ j \in Inode \ {i} /\ N[j] = M[j]
      BY <1>4, <1>5, <2>2
    <3>2. Tallies(v, InodeIn(v, j), M[j], j \in u[InodeMap], tight)
      BY <1>6 DEF Sturdy
    <3> QED
      BY <1>1, <1>2, <3>1, <3>2, OthersStay
  <2> QED
    BY <2>1, <2>2
<1>8. InodeCount(u)
  BY <1>1, <1>4 DEF InodeCount, InodesKept
<1> QED
  BY <1>1, <1>3, <1>5, <1>7, <1>8 DEF Sturdy

(* An inode written with what it has in memory, or with another count of   *)
(* links.                                                                  *)
SameBlocks(r, q) == q.kind = r.kind /\ q.size = r.size /\ q.direct = r.direct /\ q.table = r.table
LEMMA RecordWritten ==
    ASSUME VolumeAssumption, NEW v, Formed(v), NEW u, Formed(u), NEW M, NEW tight, Sturdy(v, M, tight),
           NEW i \in Inode, NEW q \in InodeRecord, SameBlocks(M[i], q), InodeWritten(v, u, i, q)
    PROVE  /\ Sturdy(u, With(M, i, q), tight) /\ Alike(v, u, {i}) /\ InodesKept(v, u)
           /\ \A n \in Name : Look(u, i, n) = Look(v, i, n)
<1>1. M \in [Inode -> InodeRecord] /\ Books(v, M, tight) /\ Tallies(v, InodeIn(v, i), M[i], i \in v[InodeMap], tight)
  BY DEF Sturdy
<1>2. PICK r \in InodeRecord : r = M[i]
  BY <1>1
<1>3. PICK d \in InodeRecord : d = InodeIn(v, i)
  BY FormedIs
<1>4. AreasKept(v, u) /\ BlocksKept(v, u)
  BY WrittenKeeps
<1>5. q.direct = r.direct /\ q.table = r.table /\ q.kind = r.kind /\ q.size = r.size
  BY <1>2 DEF SameBlocks
<1>6. Books(u, With(M, i, q), tight)
  <2>1. Books(v, With(M, i, r), tight)
    <3>1. With(M, i, r) = M
      BY <1>1, <1>2 DEF With
    <3> QED
      BY <1>1, <3>1
  <2> QED
    BY <1>1, <1>4, <1>5, <2>1, BooksSame
<1>7. Tallies(v, d, r, i \in v[InodeMap], tight)
  BY <1>1, <1>2, <1>3
<1>8. Behind(v, d, r) /\ d.kind = r.kind /\ d.size = r.size
  BY <1>7 DEF Tallies, Behind, SameShape
<1>9. SameNames(v, r, v, d) /\ SameNames(v, d, v, r)
  BY <1>8, BehindLooks
<1>10. SameNames(v, r, u, q)
  <2>1. BodyBut(v, r, u, r, {})
    BY <1>4, AreasPoint
  <2>2. BodyBut(v, r, u, q, {})
    BY <1>5, <2>1 DEF BodyBut, BlockAt
  <2> QED
    BY <1>5, <2>2, BodyNames
<1>11. (\A n \in Name : Lookup(u, q, n) = Lookup(v, d, n)) /\ (NamedOnce(v, d) => NamedOnce(u, q))
  <2>1. \A n \in Name : Lookup(u, q, n) = Lookup(v, r, n)
    BY <1>10, LookupSame
  <2>2. \A n \in Name : Lookup(v, r, n) = Lookup(v, d, n)
    BY <1>9, LookupSame
  <2>3. (NamedOnce(v, d) => NamedOnce(v, r)) /\ (NamedOnce(v, r) => NamedOnce(u, q))
    BY <1>9, <1>10, LookupSame
  <2> QED
    BY <2>1, <2>2, <2>3
<1>12. Tallies(u, q, q, i \in v[InodeMap], tight)
  BY <1>5, <1>7, <1>8, <1>11, BehindSelf DEF Tallies
<1>13. InodeIn(u, i) = q
  BY DEF InodeWritten
<1>14. \A n \in Name : Look(u, i, n) = Look(v, i, n)
  BY <1>3, <1>11, <1>13 DEF Look
<1>15. Sturdy(u, With(M, i, q), tight) /\ Alike(v, u, {i}) /\ InodesKept(v, u)
  BY <1>6, <1>12, InodePutRight
<1> QED
  BY <1>14, <1>15

(* The ledger with an inode that had nothing, as one without blocks.       *)
NoBlocks(q) == q.direct = 0 /\ q.table = 0
LEMMA NoBlocksPoint ==
    ASSUME VolumeAssumption, NEW v, Formed(v), NEW q \in InodeRecord, NoBlocks(q)
    PROVE  \A p \in Place : PointerAt(v, q, p) = 0
<1>1. PointerAt(v, q, 0) = 0 /\ PointerAt(v, q, 1) = 0 /\ \A p \in Place \ {0, 1} : PointerAt(v, q, p) = 0
  BY PointerIs DEF NoBlocks
<1> QED
  BY <1>1

LEMMA BooksNothing ==
    ASSUME VolumeAssumption, NEW v, Formed(v), NEW u, Formed(u), NEW M, NEW tight, Sturdy(v, M, tight),
           NEW i \in Inode, InodeIn(v, i).size = 0, NEW q \in InodeRecord, NoBlocks(q),
           AreasKept(v, u), BlocksKept(v, u)
    PROVE  Books(u, With(M, i, q), tight)
<1>1. M \in [Inode -> InodeRecord] /\ Books(v, M, tight) /\ Tallies(v, InodeIn(v, i), M[i], i \in v[InodeMap], tight)
  BY DEF Sturdy
<1>2. PICK r \in InodeRecord : r = M[i]
  BY <1>1
<1>3. OthersPoint(v, u, i, M)
  BY <1>1, AreasPoint
<1>4. \A p \in Place : PointerAt(u, q, p) = 0
  BY NoBlocksPoint
<1>5. Books(v, With(M, i, r), tight)
  <2>1. With(M, i, r) = M
    BY <1>1, <1>2 DEF With
  <2> QED
    BY <1>1, <2>1
<1>6. u[BlockMap] = v[BlockMap] /\ BlockCount(u)
  BY <1>1 DEF BlocksKept, BlockCount, Books
<1>7. CASE tight
  <2>1. NoBlocks(r)
    BY <1>1, <1>2, <1>7 DEF Tallies, NoBlocks
  <2>2. SamePointers(v, r, u, q)
    BY <1>4, <2>1, NoBlocksPoint DEF SamePointers
  <2> QED
    BY <1>1, <1>3, <1>5, <1>6, <2>2, BooksStay
<1>8. CASE ~tight
  <2>1. Books(u, With(M, i, q), FALSE)
    <3>1. \A p \in Place : PointerAt(u, q, p) = PointerAt(v, r, p) \/ PointerAt(u, q, p) = 0
      BY <1>4
    <3> QED
      BY <1>1, <1>3, <1>5, <1>6, <3>1, BooksForget
  <2> QED
    BY <1>8, <2>1 DEF Books
<1> QED
  BY <1>7, <1>8

(* Such an inode written, without blocks.                                  *)
LEMMA RecordForgotten ==
    ASSUME VolumeAssumption, NEW v, Formed(v), NEW u, Formed(u), NEW M, NEW tight, Sturdy(v, M, tight),
           NEW i \in Inode, InodeIn(v, i).size = 0, NEW q \in InodeRecord, NoBlocks(q), q.size = 0,
           InodeWritten(v, u, i, q)
    PROVE  /\ Sturdy(u, With(M, i, q), tight) /\ Alike(v, u, {i}) /\ InodesKept(v, u)
           /\ \A n \in Name : Look(u, i, n) = 0
<1>1. AreasKept(v, u) /\ BlocksKept(v, u)
  BY WrittenKeeps
<1>2. Books(u, With(M, i, q), tight)
  BY <1>1, BooksNothing
<1>3. NamedOnce(u, q) /\ \A n \in Name : Lookup(u, q, n) = 0
  BY NothingIn
<1>4. Tallies(u, q, q, i \in v[InodeMap], tight)
  BY <1>3, BehindSelf DEF Tallies, NoBlocks
<1>5. InodeIn(u, i) = q
  BY DEF InodeWritten
<1>6. Sturdy(u, With(M, i, q), tight) /\ Alike(v, u, {i}) /\ InodesKept(v, u)
  BY <1>2, <1>4, InodePutRight
<1> QED
  BY <1>3, <1>5, <1>6 DEF Look

(* A directory with one block, in which there is no name.                  *)
EmptyDirectory(v, q, g) ==
    /\ q \in InodeRecord /\ q.kind = "dir" /\ q.links = 2 /\ q.size = 1 /\ q.direct = g /\ q.table = 0
    /\ g \in DiskBlock /\ v[Area(g)] = Names(NoNames)
LEMMA EmptyDirectoryNames ==
    ASSUME VolumeAssumption, NEW v, NEW q, NEW g, EmptyDirectory(v, q, g)
    PROVE  NamedOnce(v, q) /\ \A n \in Name : Lookup(v, q, n) = 0
<1>1. q \in InodeRecord /\ q.size = 1 /\ BlockAt(v, q, 0) = g /\ v[Area(g)] = Names(NoNames)
  BY DEF EmptyDirectory, BlockAt
<1>2. \A n \in Name : NameIn(v, q, 0, n) = 0
  BY <1>1 DEF NameIn, EntriesAt, Names, NoNames
<1>3. \A k \in 0 .. q.size - 1 : k = 0
  BY <1>1
<1>4. NamedOnce(v, q)
  BY <1>3 DEF NamedOnce
<1>5. \A n \in Name : Having(v, q, n) = {}
  BY <1>2, <1>3 DEF Having
<1> QED
  BY <1>1, <1>4, <1>5, LookupByBlock

LEMMA DirectoryRecord ==
    ASSUME VolumeAssumption, NEW g \in DiskBlock \cup {0}
    PROVE  \E q \in InodeRecord : /\ q = [NewInode("dir", 2) EXCEPT !.size = 1, !.direct = g]
                                  /\ q.kind = "dir" /\ q.links = 2 /\ q.size = 1 /\ q.direct = g /\ q.table = 0
<1>1. 1 \in 0 .. PerTable + 1 /\ 0 \in 0 .. DiskBlocks /\ g \in 0 .. DiskBlocks
  BY DEF VolumeAssumption, DiskBlock
<1>2. PICK x \in InodeRecord : x = NewInode("dir", 2) /\ x.kind = "dir" /\ x.links = 2 /\ x.table = 0
  <2>1. NewInode("dir", 2) \in InodeRecord
    <3>1. "dir" \in {"none", "file", "dir"} /\ 2 \in Int
      OBVIOUS
    <3> QED
      BY <3>1, EmptyIs
  <2>2. NewInode("dir", 2).kind = "dir" /\ NewInode("dir", 2).links = 2 /\ NewInode("dir", 2).table = 0
    BY DEF NewInode
  <2> QED
    BY <2>1, <2>2
<1>3. PICK y : y = [x EXCEPT !.size = 1]
  OBVIOUS
<1>4. y \in InodeRecord /\ y.kind = "dir" /\ y.links = 2 /\ y.table = 0 /\ y.size = 1
  BY <1>1, <1>2, <1>3 DEF InodeRecord
<1>5. PICK q : q = [y EXCEPT !.direct = g]
  OBVIOUS
<1>6. q \in InodeRecord /\ q.kind = "dir" /\ q.links = 2 /\ q.table = 0 /\ q.size = 1 /\ q.direct = g
  BY <1>1, <1>4, <1>5 DEF InodeRecord
<1>7. q = [NewInode("dir", 2) EXCEPT !.size = 1, !.direct = g]
  BY <1>2, <1>3, <1>5
<1> QED
  BY <1>6, <1>7

LEMMA OneBlockPoints ==
    ASSUME VolumeAssumption, NEW v, Formed(v), NEW q \in InodeRecord, q.table = 0
    PROVE  PointerAt(v, q, 0) = q.direct /\ PointerAt(v, q, 1) = 0 /\ \A p \in Place \ {0, 1} : PointerAt(v, q, p) = 0
  BY PointerIs

(* Ext2CreateDirectory as far as the directory's own block and inode.      *)
DirectoryWrites(s, M, tight, i, b, c, q, d) ==
    /\ Sane(s) /\ s.ok /\ Sturdy(s.v, M, tight)
    /\ i \in Inode /\ i \in s.v[InodeMap] /\ InodeIn(s.v, i).size = 0
    /\ b = AllocateBlock(s) /\ b.ok /\ c = Put(b, Area(b.got), Names(NoNames))
    /\ q = [NewInode("dir", 2) EXCEPT !.size = 1, !.direct = b.got] /\ d = WriteInode(c, i, q)
LEMMA DirectoryMade ==
    ASSUME VolumeAssumption, NEW s, NEW M, NEW tight, NEW i, NEW b, NEW c, NEW q, NEW d,
           DirectoryWrites(s, M, tight, i, b, c, q, d)
    PROVE  /\ Sane(d) /\ d.ok /\ d.i = s.i /\ q \in InodeRecord /\ InodeIn(d.v, i) = q /\ q.kind = "dir" /\ q.links = 2
           /\ Sturdy(d.v, With(M, i, q), tight) /\ Alike(s.v, d.v, {i}) /\ InodesKept(s.v, d.v)
           /\ \A n \in Name : Look(d.v, i, n) = 0
<1> SUFFICES ASSUME Sane(s), s.ok, Sturdy(s.v, M, tight), i \in Inode, i \in s.v[InodeMap], InodeIn(s.v, i).size = 0,
                    b = AllocateBlock(s), b.ok, c = Put(b, Area(b.got), Names(NoNames)),
                    q = [NewInode("dir", 2) EXCEPT !.size = 1, !.direct = b.got], d = WriteInode(c, i, q)
             PROVE  /\ Sane(d) /\ d.ok /\ d.i = s.i /\ q \in InodeRecord /\ InodeIn(d.v, i) = q /\ q.kind = "dir" /\ q.links = 2
                    /\ Sturdy(d.v, With(M, i, q), tight) /\ Alike(s.v, d.v, {i}) /\ InodesKept(s.v, d.v)
                    /\ \A n \in Name : Look(d.v, i, n) = 0
  BY DEF DirectoryWrites
<1>1. Sane(b) /\ b.i = s.i /\ BlockTaken(s.v, b.v, b.got)
  BY BlockIsTaken
<1>2. PICK g \in DiskBlock : g = b.got /\ g \notin s.v[BlockMap]
  BY <1>1 DEF BlockTaken
<1>3. PICK z : z = Names(NoNames) /\ z \in Content
  BY EmptyIs, ContentIs
<1>4. Sane(c) /\ Same(b, c) /\ HasPut(b, c, Area(g), z)
  BY <1>1, <1>2, <1>3, PutAnArea
<1>5. c.ok /\ c.i = s.i /\ Formed(c.v) /\ Formed(s.v)
  BY <1>1, <1>4, SaneIsFormed DEF Same
<1>6. /\ AllBut(s.v, c.v, {Super, Group, BlockMap, Area(g)}) /\ InodesKept(s.v, c.v)
      /\ c.v[BlockMap] = s.v[BlockMap] \cup {g} /\ BlockCount(c.v)
  <2>1. \A y \in Structure \ {Area(g)} : c.v[y] = b.v[y]
    BY <1>4 DEF HasPut
  <2>2. AllBut(s.v, b.v, {Super, Group, BlockMap}) /\ InodesKept(s.v, b.v) /\ b.v[BlockMap] = s.v[BlockMap] \cup {g}
    BY <1>1, <1>2 DEF BlockTaken
  <2>3. {Super, Group, BlockMap, InodeMap} \subseteq Structure \ {Area(g)}
    BY StructureIs, BuffersApart
  <2>4. c.v[Super] = b.v[Super] /\ c.v[Group] = b.v[Group] /\ c.v[BlockMap] = b.v[BlockMap] /\ c.v[InodeMap] = b.v[InodeMap]
    BY <2>1, <2>3
  <2>5. BlockCount(b.v)
    BY <1>1 DEF BlockTaken, Sturdy, Books
  <2>6. AllBut(s.v, c.v, {Super, Group, BlockMap, Area(g)})
    BY <2>1, <2>2 DEF AllBut
  <2>7. InodesKept(s.v, c.v)
    BY <2>2, <2>4 DEF InodesKept
  <2>8. BlockCount(c.v)
    BY <2>4, <2>5 DEF BlockCount
  <2> QED
    BY <2>2, <2>4, <2>6, <2>7, <2>8
<1>7. PICK r \in InodeRecord : r.kind = "dir" /\ r.links = 2 /\ r.size = 1 /\ r.direct = 0 /\ r.table = 0
  <2>1. PICK f : f \in DiskBlock \cup {0} /\ f = 0
    OBVIOUS
  <2>2. \E r \in InodeRecord : r.kind = "dir" /\ r.links = 2 /\ r.size = 1 /\ r.direct = f /\ r.table = 0
    BY <2>1, DirectoryRecord
  <2> QED
    BY <2>1, <2>2
<1>8. q \in InodeRecord /\ q.kind = "dir" /\ q.links = 2 /\ q.size = 1 /\ q.direct = g /\ q.table = 0
  <2>1. PICK o \in InodeRecord : /\ o = [NewInode("dir", 2) EXCEPT !.size = 1, !.direct = g]
                                /\ o.kind = "dir" /\ o.links = 2 /\ o.size = 1 /\ o.direct = g /\ o.table = 0
    <3>1. PICK f : f \in DiskBlock \cup {0} /\ f = g
      BY <1>2
    <3>2. \E o \in InodeRecord : /\ o = [NewInode("dir", 2) EXCEPT !.size = 1, !.direct = f]
                                 /\ o.kind = "dir" /\ o.links = 2 /\ o.size = 1 /\ o.direct = f /\ o.table = 0
      BY <3>1, DirectoryRecord
    <3> QED
      BY <3>1, <3>2
  <2>2. q = o
    BY <1>2, <2>1
  <2> QED
    BY <2>1, <2>2
<1>9. PICK s0 : s0 = HasInHand(s, r)
  OBVIOUS
<1>10. Sane(s0) /\ s0.v = s.v /\ s0.i = r
  BY <1>7, <1>9, InHandIs
<1>11. Under(s0, i, M, tight)
  <2>1. AreasKept(s.v, s.v) /\ BlocksKept(s.v, s.v) /\ NoBlocks(r)
    BY <1>7 DEF AreasKept, BlocksKept, NoBlocks
  <2>2. Books(s.v, With(M, i, r), tight)
    BY <1>5, <1>7, <2>1, BooksNothing
  <2> QED
    BY <1>10, <2>2 DEF Under, Sturdy
<1>12. PICK t0 : t0 = HasInHand(c, q)
  OBVIOUS
<1>13. Sane(t0) /\ t0.v = c.v /\ t0.i = q
  BY <1>4, <1>8, <1>12, InHandIs
<1>14. \A p \in Place : PointerAt(s0.v, s0.i, p) = 0
  BY <1>5, <1>7, <1>10, NoBlocksPoint DEF NoBlocks
<1>15. PointerAt(t0.v, t0.i, 0) = g /\ \A p \in Place \ {0} : PointerAt(t0.v, t0.i, p) = 0
  <2>1. PointerAt(c.v, q, 0) = g /\ PointerAt(c.v, q, 1) = 0 /\ \A p \in Place \ {0, 1} : PointerAt(c.v, q, p) = 0
    <3>1. PICK o \in InodeRecord : o = q /\ o.table = 0 /\ o.direct = g
      BY <1>8
    <3>2. PointerAt(c.v, o, 0) = o.direct /\ PointerAt(c.v, o, 1) = 0 /\ \A p \in Place \ {0, 1} : PointerAt(c.v, o, p) = 0
      <4>1. Formed(c.v) /\ o \in InodeRecord /\ o.table = 0
        BY <1>5, <3>1
      <4> QED
        BY <4>1, OneBlockPoints
    <3> QED
      BY <3>1, <3>2
  <2> QED
    BY <1>13, <2>1
<1>16. NotOthers(s0.v, i, M, g)
  <2>1. g \in DiskBlock \ s0.v[BlockMap]
    BY <1>2, <1>10
  <2> QED
    BY <1>11, <2>1, NobodyElse
<1>17. Stepped(s0, t0, i, M, tight)
  <2>1. SameShape(s0.i, t0.i) /\ 0 \in Place /\ g \in DiskBlock \ s0.v[BlockMap]
    <3>1. 0 \in Place
      BY <1>5, <1>7, PointerIs
    <3> QED
      BY <1>2, <1>7, <1>8, <1>10, <1>13, <3>1 DEF SameShape
  <2>2. /\ AllBut(s0.v, t0.v, {Super, Group, BlockMap, Area(g)}) /\ InodesKept(s0.v, t0.v)
        /\ t0.v[BlockMap] = s0.v[BlockMap] \cup {g} /\ BlockCount(t0.v)
    BY <1>6, <1>10, <1>13
  <2>3. PointerAt(s0.v, s0.i, 0) = 0 /\ \A p \in Place \ {0} : PointerAt(t0.v, t0.i, p) = PointerAt(s0.v, s0.i, p)
    BY <1>14, <1>15, <2>1
  <2>4. PointerAt(t0.v, t0.i, 0) = g
    BY <1>15
  <2> QED
    <3>1. PointerGiven(s0, t0, 0, g, g)
      BY <2>1, <2>2, <2>3, <2>4 DEF PointerGiven
    <3>2. g \in DiskBlock
      BY <1>2
    <3> QED
      BY <1>11, <1>13, <1>16, <3>1, <3>2, BlockPointed
<1>18. Sane(d) /\ Same(c, d) /\ InodeWritten(c.v, d.v, i, q)
  BY <1>4, <1>5, <1>8, InodeIsWritten
<1>19. PICK d0 : d0 = HasInHand(d, q)
  OBVIOUS
<1>20. Sane(d0) /\ d0.v = d.v /\ d0.i = q
  BY <1>8, <1>18, <1>19, InHandIs
<1>21. Worked(t0, d0, i, M, tight)
  <2>1. Under(t0, i, M, tight) /\ d0.i = t0.i /\ InodeWritten(t0.v, d0.v, i, t0.i)
    BY <1>13, <1>17, <1>18, <1>20 DEF Stepped
  <2> QED
    BY <1>20, <2>1, ItselfWritten
<1>22. Worked(s0, d0, i, M, tight)
  BY <1>17, <1>21, WorkedOn
<1>23. Spares(s.v, d.v, i, M) /\ Books(d.v, With(M, i, q), tight) /\ Formed(d.v)
  BY <1>10, <1>18, <1>20, <1>22, SaneIsFormed DEF Worked, Under
<1>24. M \in [Inode -> InodeRecord] /\ InodeCount(s.v) /\ \A j \in Inode : Tallies(s.v, InodeIn(s.v, j), M[j], j \in s.v[InodeMap], tight)
  BY DEF Sturdy
<1>25. /\ \A j \in Inode \ {i} : Tallies(d.v, InodeIn(d.v, j), M[j], j \in d.v[InodeMap], tight)
       /\ Alike(s.v, d.v, {i})
  BY <1>5, <1>23, <1>24, OthersTally
<1>26. InodesKept(s.v, d.v)
  BY <1>23 DEF Spares
<1>27. InodeIn(d.v, i) = q /\ d.v[Area(g)] = z
  <2>1. AreasKept(c.v, d.v)
    BY <1>8, <1>18, WrittenKeeps
  <2> QED
    BY <1>2, <1>4, <1>18, <2>1 DEF InodeWritten, AreasKept, HasPut
<1>28. NamedOnce(d.v, q) /\ \A n \in Name : Lookup(d.v, q, n) = 0
  <2>1. EmptyDirectory(d.v, q, g)
    BY <1>2, <1>3, <1>8, <1>27 DEF EmptyDirectory
  <2> QED
    BY <2>1, EmptyDirectoryNames
<1>29. PICK N : N = With(M, i, q) /\ N \in [Inode -> InodeRecord] /\ N[i] = q /\ \A j \in Inode \ {i} : N[j] = M[j]
  BY <1>8, <1>24, WithIs
<1>30. ASSUME NEW j \in Inode
       PROVE  Tallies(d.v, InodeIn(d.v, j), N[j], j \in d.v[InodeMap], tight)
  <2>1. CASE j = i
    <3>1. i \in d.v[InodeMap]
      BY <1>26 DEF InodesKept
    <3>2. Tallies(d.v, InodeIn(d.v, i), N[i], i \in d.v[InodeMap], tight)
      <4>1. Behind(d.v, q, q)
        BY BehindSelf
      <4>2. Tallies(d.v, q, q, i \in d.v[InodeMap], tight)
        BY <1>8, <1>28, <3>1, <4>1 DEF Tallies
      <4> QED
        BY <1>27, <1>29, <4>2
    <3> QED
      BY <2>1, <3>2
  <2>2. CASE j # i
    BY <1>25, <1>29, <2>2
  <2> QED
    BY <2>1, <2>2
<1>31. Sturdy(d.v, N, tight)
  <2>1. InodeCount(d.v)
    BY <1>24, <1>26 DEF InodeCount, InodesKept
  <2> QED
    BY <1>23, <1>29, <1>30, <2>1 DEF Sturdy
<1>32. d.ok /\ d.i = s.i
  BY <1>5, <1>18 DEF Same
<1>33. \A n \in Name : Look(d.v, i, n) = 0
  BY <1>27, <1>28 DEF Look
<1> QED
  BY <1>8, <1>18, <1>25, <1>26, <1>27, <1>29, <1>31, <1>32, <1>33

(***************************************************************************)
(* The names and the links of a volume.                                    *)
(***************************************************************************)
Entries(v) == {t \in NamesOf(v) : t[3] # 0}
LinksOf(v) == [i \in Inode |-> InodeIn(v, i).links]
NamesHold(v, tight) ==
    /\ NamesStand(Entries(v), v[InodeMap], Directories(v))
    /\ LinksStand(Entries(v), Directories(v), LinksOf(v))
    /\ tight => /\ v[InodeMap] = Reached(Entries(v))
                /\ v[Group].directories = Cardinality(Directories(v))
LEMMA EntriesAre ==
    ASSUME NEW v
    PROVE  /\ \A t : t \in Entries(v) <=>
                 \E dir \in Directories(v), n \in Name : t = <<dir, n, Look(v, dir, n)>> /\ Look(v, dir, n) # 0
           /\ \A t \in Entries(v) : /\ t[1] \in Directories(v) /\ t[2] \in Name /\ t[3] = Look(v, t[1], t[2])
                                    /\ t[3] # 0 /\ t = <<t[1], t[2], t[3]>>
<1>1. \A t : t \in Entries(v) <=>
         \E dir \in Directories(v), n \in Name : t = <<dir, n, Look(v, dir, n)>> /\ Look(v, dir, n) # 0
  BY DEF Entries, NamesOf, Look
<1>2. ASSUME NEW t \in Entries(v)
      PROVE  /\ t[1] \in Directories(v) /\ t[2] \in Name /\ t[3] = Look(v, t[1], t[2])
             /\ t[3] # 0 /\ t = <<t[1], t[2], t[3]>>
  <2>1. PICK dir \in Directories(v), n \in Name : t = <<dir, n, Look(v, dir, n)>> /\ Look(v, dir, n) # 0
    BY <1>1
  <2> QED
    BY <2>1
<1> QED
  BY <1>1, <1>2

LEMMA DirectoriesAre ==
    ASSUME NEW v
    PROVE  \A i : i \in Directories(v) <=> i \in v[InodeMap] /\ InodeIn(v, i).kind = "dir"
  BY DEF Directories
LEMMA LinksOfIs ==
    ASSUME NEW v
    PROVE  \A i \in Inode : LinksOf(v)[i] = InodeIn(v, i).links
  BY DEF LinksOf

(* A name found more, or less.                                             *)
LEMMA EntriesWith ==
    ASSUME NEW v, NEW u, NEW dir \in Directories(v), NEW n \in Name, NEW i, i # 0,
           Look(v, dir, n) = 0, Look(u, dir, n) = i, \A m \in Name \ {n} : Look(u, dir, m) = Look(v, dir, m),
           \A j \in Directories(v) \ {dir} : \A m \in Name : Look(u, j, m) = Look(v, j, m),
           Directories(v) \subseteq Directories(u),
           \A j \in Directories(u) \ Directories(v) : \A m \in Name : Look(u, j, m) = 0
    PROVE  Entries(u) = Entries(v) \cup {<<dir, n, i>>} /\ \A t \in Entries(v) : ~(t[1] = dir /\ t[2] = n)
<1>1. ASSUME NEW t \in Entries(u)
      PROVE  t \in Entries(v) \cup {<<dir, n, i>>}
  <2>1. PICK j \in Directories(u), m \in Name : t = <<j, m, Look(u, j, m)>> /\ Look(u, j, m) # 0
    BY EntriesAre
  <2>2. CASE j = dir /\ m = n
    BY <2>1, <2>2
  <2>3. CASE ~(j = dir /\ m = n)
    <3>1. j \in Directories(v)
      BY <2>1
    <3>2. Look(u, j, m) = Look(v, j, m)
      BY <2>3, <3>1
    <3> QED
      BY <2>1, <3>1, <3>2, EntriesAre
  <2> QED
    BY <2>2, <2>3
<1>2. ASSUME NEW t \in Entries(v)
      PROVE  t \in Entries(u) /\ ~(t[1] = dir /\ t[2] = n)
  <2>1. PICK j \in Directories(v), m \in Name : t = <<j, m, Look(v, j, m)>> /\ Look(v, j, m) # 0
    BY EntriesAre
  <2>2. ~(j = dir /\ m = n)
    BY <2>1
  <2>3. j \in Directories(u) /\ Look(u, j, m) = Look(v, j, m)
    BY <2>2
  <2>4. t \in Entries(u)
    BY <2>1, <2>3, EntriesAre
  <2> QED
    BY <2>1, <2>2, <2>4
<1>3. <<dir, n, i>> \in Entries(u)
  <2>1. dir \in Directories(u)
    OBVIOUS
  <2> QED
    BY <2>1, EntriesAre
<1> QED
  BY <1>1, <1>2, <1>3

LEMMA EntriesWithout ==
    ASSUME NEW v, NEW u, NEW dir \in Directories(v), NEW n \in Name, NEW i, i # 0,
           Look(v, dir, n) = i, Look(u, dir, n) = 0, \A m \in Name \ {n} : Look(u, dir, m) = Look(v, dir, m),
           \A j \in Directories(u) \ {dir} : \A m \in Name : Look(u, j, m) = Look(v, j, m),
           Directories(u) \subseteq Directories(v),
           \A j \in Directories(v) \ Directories(u) : j # dir /\ \A m \in Name : Look(v, j, m) = 0
    PROVE  Entries(u) = Entries(v) \ {<<dir, n, i>>} /\ <<dir, n, i>> \in Entries(v)
<1>1. ASSUME NEW t \in Entries(u)
      PROVE  t \in Entries(v) /\ t # <<dir, n, i>>
  <2>1. PICK j \in Directories(u), m \in Name : t = <<j, m, Look(u, j, m)>> /\ Look(u, j, m) # 0
    BY EntriesAre
  <2>2. ~(j = dir /\ m = n)
    BY <2>1
  <2>3. j \in Directories(v) /\ Look(u, j, m) = Look(v, j, m)
    BY <2>2
  <2>4. t \in Entries(v)
    BY <2>1, <2>3, EntriesAre
  <2> QED
    BY <2>1, <2>2, <2>4
<1>2. ASSUME NEW t \in Entries(v), t # <<dir, n, i>>
      PROVE  t \in Entries(u)
  <2>1. PICK j \in Directories(v), m \in Name : t = <<j, m, Look(v, j, m)>> /\ Look(v, j, m) # 0
    BY EntriesAre
  <2>2. ~(j = dir /\ m = n)
    BY <1>2, <2>1
  <2>3. j \in Directories(u)
    BY <2>1
  <2>4. Look(u, j, m) = Look(v, j, m)
    BY <2>2, <2>3
  <2> QED
    BY <2>1, <2>3, <2>4, EntriesAre
<1>3. <<dir, n, i>> \in Entries(v)
  BY EntriesAre
<1> QED
  BY <1>1, <1>2, <1>3

(* Nothing that is said of names altered.                                  *)
LEMMA NamesStay ==
    ASSUME NEW v, NEW u, NEW tight, NamesHold(v, tight), Alike(v, u, {}), v[InodeMap] \subseteq Inode,
           u[InodeMap] = v[InodeMap], u[Group].directories = v[Group].directories
    PROVE  NamesHold(u, tight)
<1>1. \A j \in Inode : /\ InodeIn(u, j).kind = InodeIn(v, j).kind /\ InodeIn(u, j).links = InodeIn(v, j).links
                       /\ \A n \in Name : Look(u, j, n) = Look(v, j, n)
  BY DEF Alike
<1>2. Directories(u) = Directories(v) /\ Directories(v) \subseteq Inode
  <2>1. \A i : i \in Directories(v) => i \in Inode
    BY DirectoriesAre
  <2>2. \A i : i \in Directories(u) <=> i \in Directories(v)
    BY <1>1, DirectoriesAre
  <2> QED
    BY <2>1, <2>2
<1>3. \A j \in Directories(v) : \A n \in Name : Look(u, j, n) = Look(v, j, n)
  BY <1>1, <1>2
<1>4. Entries(u) = Entries(v)
  <2>1. \A t : t \in Entries(u) <=>
           \E dir \in Directories(v), n \in Name : t = <<dir, n, Look(v, dir, n)>> /\ Look(v, dir, n) # 0
    <3>1. \A t : t \in Entries(u) <=>
             \E dir \in Directories(u), n \in Name : t = <<dir, n, Look(u, dir, n)>> /\ Look(u, dir, n) # 0
      BY EntriesAre
    <3> QED
      BY <1>2, <1>3, <3>1
  <2>2. \A t : t \in Entries(u) <=> t \in Entries(v)
    BY <2>1, EntriesAre
  <2> QED
    BY <2>2
<1>5. LinksOf(u) = LinksOf(v)
  BY <1>1 DEF LinksOf
<1> QED
  BY <1>2, <1>4, <1>5 DEF NamesHold

(* What a call on names has to have done of a directory: one name leads    *)
(* elsewhere now, and the others to where they did.                        *)
NowLeads(v, u, dir, n, i) == Look(u, dir, n) = i /\ \A m \in Name \ {n} : Look(u, dir, m) = Look(v, dir, m)
SameLinks(v, u, j) == InodeIn(u, j).kind = InodeIn(v, j).kind /\ InodeIn(u, j).links = InodeIn(v, j).links

(* An inode marked used, and not named after all.                          *)
LEMMA NamesLost ==
    ASSUME NEW v, NEW u, NEW tight, NamesHold(v, tight), v[InodeMap] \subseteq Inode,
           NEW i \in Inode \ v[InodeMap], Alike(v, u, {i}), \A n \in Name : Look(u, i, n) = 0,
           u[InodeMap] = v[InodeMap] \cup {i}
    PROVE  NamesHold(u, FALSE)
<1>1. \A j \in Inode \ {i} : SameLinks(v, u, j) /\ \A n \in Name : Look(u, j, n) = Look(v, j, n)
  BY DEF Alike, SameLinks
<1>2. \A j : j \in Directories(v) => j \in Inode \ {i}
  BY DirectoriesAre
<1>3. Directories(v) \subseteq Directories(u) /\ Directories(u) \subseteq Directories(v) \cup {i}
  <2>1. \A j : j \in Directories(v) => j \in Directories(u)
    BY <1>1, <1>2, DirectoriesAre DEF SameLinks
  <2>2. \A j : j \in Directories(u) => j = i \/ j \in Directories(v)
    BY <1>1, DirectoriesAre DEF SameLinks
  <2> QED
    BY <2>1, <2>2
<1>4. Entries(u) = Entries(v)
  <2>1. ASSUME NEW t \in Entries(v)
        PROVE  t \in Entries(u)
    <3>1. PICK j \in Directories(v), n \in Name : t = <<j, n, Look(v, j, n)>> /\ Look(v, j, n) # 0
      BY EntriesAre
    <3>2. j \in Directories(u) /\ Look(u, j, n) = Look(v, j, n)
      BY <1>1, <1>2, <1>3
    <3> QED
      BY <3>1, <3>2, EntriesAre
  <2>2. ASSUME NEW t \in Entries(u)
        PROVE  t \in Entries(v)
    <3>1. PICK j \in Directories(u), n \in Name : t = <<j, n, Look(u, j, n)>> /\ Look(u, j, n) # 0
      BY EntriesAre
    <3>2. j \in Directories(v) /\ Look(u, j, n) = Look(v, j, n)
      BY <1>1, <1>2, <1>3, <3>1
    <3> QED
      BY <3>1, <3>2, EntriesAre
  <2> QED
    BY <2>1, <2>2
<1>5. PICK T : T = Entries(v)
  OBVIOUS
<1>6. PICK D : D = Directories(v)
  OBVIOUS
<1>7. \A j \in Reached(T) : j \in Inode \ {i} /\ LinksOf(u)[j] = LinksOf(v)[j]
  <2>1. Reached(T) \subseteq v[InodeMap]
    BY <1>5 DEF Reached, NamesHold, NamesStand, NamesWithin
  <2>2. \A j \in Reached(T) : j \in Inode \ {i}
    BY <2>1
  <2> QED
    BY <1>1, <2>2, LinksOfIs DEF SameLinks
<1>8. NamesStand(T, v[InodeMap] \cup {i}, Directories(u)) /\ LinksStand(T, Directories(u), LinksOf(u))
  <2>1. NamesStand(T, v[InodeMap], D) /\ LinksStand(T, D, LinksOf(v)) /\ D \subseteq Directories(u) /\ Directories(u) \subseteq D \cup {i}
    BY <1>3, <1>5, <1>6 DEF NamesHold
  <2>2. \A j \in Reached(T) : LinksOf(u)[j] = LinksOf(v)[j]
    BY <1>7
  <2> QED
    BY <2>1, <2>2, InodeLost
<1> QED
  BY <1>4, <1>5, <1>8 DEF NamesHold

(* A file made and named, or given one name more.                          *)
LEMMA NamesFile ==
    ASSUME VolumeAssumption, NEW v, NEW u, NEW tight, NamesHold(v, tight), v[InodeMap] \subseteq Inode,
           NEW dir \in Directories(v), NEW n \in Name, NEW i \in Inode \ Directories(v),
           Look(v, dir, n) = 0, i \in v[InodeMap] => i \in Reached(Entries(v)),
           Alike(v, u, {dir, i}), SameLinks(v, u, dir), NowLeads(v, u, dir, n, i),
           InodeIn(u, i).kind # "dir",
           InodeIn(u, i).links = IF i \in v[InodeMap] THEN InodeIn(v, i).links + 1 ELSE 1,
           u[InodeMap] = v[InodeMap] \cup {i}, u[Group].directories = v[Group].directories
    PROVE  NamesHold(u, tight)
<1>1. \A j \in Inode \ {dir, i} : SameLinks(v, u, j) /\ \A m \in Name : Look(u, j, m) = Look(v, j, m)
  BY DEF Alike, SameLinks
<1>2. \A j : j \in Directories(v) => j \in Inode /\ j # i
  BY DirectoriesAre
<1>3. Directories(u) = Directories(v)
  <2>1. \A j : j \in Directories(v) => j \in Directories(u)
    BY <1>1, <1>2, DirectoriesAre DEF SameLinks
  <2>2. \A j : j \in Directories(u) => j \in Directories(v)
    BY <1>1, DirectoriesAre DEF SameLinks
  <2> QED
    BY <2>1, <2>2
<1>4. i # 0
  BY DEF Inode
<1>5. PICK T : T = Entries(v)
  OBVIOUS
<1>6. PICK D : D = Directories(v) /\ dir \in D
  OBVIOUS
<1>7. Entries(u) = T \cup {<<dir, n, i>>} /\ \A t \in T : ~(t[1] = dir /\ t[2] = n)
  <2>1. Look(u, dir, n) = i /\ \A m \in Name \ {n} : Look(u, dir, m) = Look(v, dir, m)
    BY DEF NowLeads
  <2>2. \A j \in Directories(v) \ {dir} : \A m \in Name : Look(u, j, m) = Look(v, j, m)
    BY <1>1, <1>2
  <2>3. /\ Directories(v) \subseteq Directories(u)
        /\ \A j \in Directories(u) \ Directories(v) : \A m \in Name : Look(u, j, m) = 0
    BY <1>3
  <2> QED
    BY <1>4, <1>5, <2>1, <2>2, <2>3, EntriesWith
<1>8. \A j \in Reached(T) \ {i} : LinksOf(u)[j] = LinksOf(v)[j]
  <2>1. Reached(T) \subseteq Inode
    BY <1>5 DEF Reached, NamesHold, NamesStand, NamesWithin
  <2>2. \A j \in Inode \ {i} : SameLinks(v, u, j)
    BY <1>1
  <2> QED
    BY <2>1, <2>2, LinksOfIs DEF SameLinks
<1>9. LinksOf(u)[i] = IF i \in v[InodeMap] THEN LinksOf(v)[i] + 1 ELSE 1
  BY LinksOfIs
<1>10. /\ NamesStand(Entries(u), v[InodeMap] \cup {i}, D) /\ LinksStand(Entries(u), D, LinksOf(u))
       /\ v[InodeMap] = Reached(T) => v[InodeMap] \cup {i} = Reached(Entries(u))
  <2>1. NamesStand(T, v[InodeMap], D) /\ LinksStand(T, D, LinksOf(v))
    BY <1>5, <1>6 DEF NamesHold
  <2>2. i \in Inode \ D /\ (i \in v[InodeMap] => i \in Reached(T))
    BY <1>5, <1>6
  <2>3. PICK A : A = v[InodeMap]
    OBVIOUS
  <2>4. PICK L : L = LinksOf(v)
    OBVIOUS
  <2>5. PICK K : K = LinksOf(u)
    OBVIOUS
  <2>6. PICK U : U = Entries(u)
    OBVIOUS
  <2>7. NamesStand(U, A \cup {i}, D) /\ LinksStand(U, D, K) /\ StillReached(T, A, U, A \cup {i})
    <3>1. NamesStand(T, A, D) /\ LinksStand(T, D, L)
      BY <2>1, <2>3, <2>4
    <3>2. NamesAnother(T, D, dir, n, i, U)
      BY <1>6, <1>7, <2>6 DEF NamesAnother
    <3>3. NamesAFile(T, A, D, L, dir, n, i, K, U)
      BY <1>8, <1>9, <2>2, <2>3, <2>4, <2>5, <3>2 DEF NamesAFile
    <3> QED
      BY <3>1, <3>3, FileNamed
  <2> QED
    BY <2>3, <2>5, <2>6, <2>7 DEF StillReached
<1> QED
  BY <1>3, <1>5, <1>6, <1>10 DEF NamesHold

(* What the laws of names are about, of two volumes.                       *)
LEMMA NamesTold ==
    ASSUME NEW v, NEW tight, NamesHold(v, tight), v[InodeMap] \subseteq Inode,
           NEW T, T = Entries(v), NEW D, D = Directories(v), NEW L, L = LinksOf(v)
    PROVE  /\ NamesStand(T, v[InodeMap], D) /\ LinksStand(T, D, L)
           /\ Reached(T) \subseteq v[InodeMap] /\ Reached(T) \subseteq Inode
           /\ D \subseteq Inode /\ Root \in D
           /\ tight => v[InodeMap] = Reached(T) /\ v[Group].directories = Cardinality(D)
<1>1. NamesStand(T, v[InodeMap], D) /\ LinksStand(T, D, L)
  BY DEF NamesHold, StillReached
<1>2. Reached(T) \subseteq v[InodeMap] /\ D \subseteq v[InodeMap] /\ Root \in D
  BY <1>1 DEF Reached, NamesStand, NamesWithin
<1> QED
  BY <1>1, <1>2 DEF NamesHold, StillReached

LEMMA DirectoriesFinite ==
    ASSUME VolumeAssumption, NEW D, D \subseteq Inode
    PROVE  IsFiniteSet(D) /\ Cardinality(D) \in Nat
  BY InodesFinite, FS_Subset, FS_CardinalityType

(* A directory made and named.                                             *)
LEMMA NamesDirectory ==
    ASSUME VolumeAssumption, NEW v, NEW u, NEW tight, NamesHold(v, tight), v[InodeMap] \subseteq Inode,
           NEW dir \in Directories(v), dir \in Reached(Entries(v)), NEW n \in Name, NEW i \in Inode \ v[InodeMap],
           Look(v, dir, n) = 0, Alike(v, u, {dir, i}), NowLeads(v, u, dir, n, i),
           InodeIn(u, dir).kind = "dir", InodeIn(u, dir).links = InodeIn(v, dir).links + 1,
           InodeIn(u, i).kind = "dir", InodeIn(u, i).links = 2, \A m \in Name : Look(u, i, m) = 0,
           u[InodeMap] = v[InodeMap] \cup {i}, u[Group].directories = v[Group].directories + 1
    PROVE  NamesHold(u, tight)
<1>1. \A j \in Inode \ {dir, i} : SameLinks(v, u, j) /\ \A m \in Name : Look(u, j, m) = Look(v, j, m)
  BY DEF Alike, SameLinks
<1>2. PICK T : T = Entries(v)
  OBVIOUS
<1>3. PICK D : D = Directories(v)
  OBVIOUS
<1>4. PICK L : L = LinksOf(v)
  OBVIOUS
<1>5. PICK A : A = v[InodeMap]
  OBVIOUS
<1>6. /\ NamesStand(T, A, D) /\ LinksStand(T, D, L) /\ Reached(T) \subseteq Inode /\ D \subseteq Inode /\ D \subseteq A
      /\ tight => A = Reached(T) /\ v[Group].directories = Cardinality(D)
  BY <1>2, <1>3, <1>4, <1>5, NamesTold DEF NamesStand
<1>7. Directories(u) = D \cup {i} /\ i \notin D
  <2>1. \A j : j \in D => j \in Directories(u)
    BY <1>1, <1>3, <1>6, DirectoriesAre DEF SameLinks
  <2>2. \A j : j \in Directories(u) => j = i \/ j \in D
    BY <1>1, <1>3, DirectoriesAre DEF SameLinks
  <2>3. i \in Directories(u) /\ i \notin D
    BY <1>3, DirectoriesAre
  <2> QED
    BY <2>1, <2>2, <2>3
<1>8. i # 0 /\ dir # i /\ dir \in D /\ dir \in Inode
  BY <1>3, <1>6, <1>7 DEF Inode
<1>9. Entries(u) = T \cup {<<dir, n, i>>} /\ \A t \in T : ~(t[1] = dir /\ t[2] = n)
  <2>1. Look(u, dir, n) = i /\ \A m \in Name \ {n} : Look(u, dir, m) = Look(v, dir, m)
    BY DEF NowLeads
  <2>2. \A j \in Directories(v) \ {dir} : \A m \in Name : Look(u, j, m) = Look(v, j, m)
    BY <1>1, <1>3, <1>6, <1>7
  <2>3. /\ Directories(v) \subseteq Directories(u)
        /\ \A j \in Directories(u) \ Directories(v) : \A m \in Name : Look(u, j, m) = 0
    BY <1>3, <1>7
  <2> QED
    BY <1>2, <1>8, <2>1, <2>2, <2>3, EntriesWith
<1>10. PICK U : U = Entries(u)
  OBVIOUS
<1>11. PICK K : K = LinksOf(u)
  OBVIOUS
<1>12. NamesADirectory(T, A, D, L, dir, n, i, K, U)
  <2>1. NamesAnother(T, D, dir, n, i, U)
    BY <1>8, <1>9, <1>10 DEF NamesAnother
  <2>2. \A j \in Reached(T) \ {dir, i} : K[j] = L[j]
    BY <1>1, <1>4, <1>6, <1>11, LinksOfIs DEF SameLinks
  <2>3. K[i] = 2 /\ K[dir] = L[dir] + 1
    BY <1>4, <1>8, <1>11, LinksOfIs
  <2>4. i \in Inode \ A /\ dir \in Reached(T)
    BY <1>2, <1>5
  <2> QED
    BY <2>1, <2>2, <2>3, <2>4 DEF NamesADirectory
<1>13. /\ NamesStand(U, A \cup {i}, D \cup {i}) /\ LinksStand(U, D \cup {i}, K)
       /\ StillReached(T, A, U, A \cup {i})
  <2>1. NamesStand(T, A, D) /\ LinksStand(T, D, L)
    BY <1>6
  <2>2. NamesStand(U, A \cup {i}, D \cup {i})
    BY <1>12, <2>1, DirectoryNamed
  <2>3. LinksStand(U, D \cup {i}, K)
    BY <1>12, <2>1, DirectoryNamed
  <2>4. StillReached(T, A, U, A \cup {i})
    BY <1>12, <2>1, DirectoryNamed
  <2> QED
    BY <2>2, <2>3, <2>4
<1>14. Cardinality(D \cup {i}) = Cardinality(D) + 1
  BY <1>6, <1>7, DirectoriesFinite, OneMoreUsed
<1>15. tight => u[InodeMap] = Reached(U) /\ u[Group].directories = Cardinality(Directories(u))
  BY <1>5, <1>6, <1>7, <1>13, <1>14 DEF StillReached
<1> QED
  BY <1>5, <1>7, <1>10, <1>11, <1>13, <1>15 DEF NamesHold, StillReached

(* What the removal of a name has in common.                               *)
NamesBut(v, u, dir, n, i) ==
    /\ dir \in Directories(v) /\ n \in Name /\ i \in Inode /\ i # dir
    /\ Look(v, dir, n) = i /\ NowLeads(v, u, dir, n, 0)
    /\ Alike(v, u, {dir, i}) /\ InodeIn(u, dir).kind = "dir"
LEMMA FileNameGone ==
    ASSUME NEW v, NEW u, NEW dir, NEW n, NEW i, NamesBut(v, u, dir, n, i), i \notin Directories(v),
           v[InodeMap] \subseteq Inode, u[InodeMap] \subseteq v[InodeMap], v[InodeMap] \subseteq u[InodeMap] \cup {i},
           InodeIn(u, i).kind # "dir" \/ i \notin u[InodeMap], SameLinks(v, u, dir)
    PROVE  /\ Entries(u) = Entries(v) \ {<<dir, n, i>>} /\ <<dir, n, i>> \in Entries(v)
           /\ Directories(u) = Directories(v)
           /\ \A j \in Inode \ {i} : LinksOf(u)[j] = LinksOf(v)[j]
<1>1. /\ dir \in Directories(v) /\ n \in Name /\ i \in Inode /\ i # dir /\ Look(v, dir, n) = i
      /\ Look(u, dir, n) = 0 /\ \A m \in Name \ {n} : Look(u, dir, m) = Look(v, dir, m)
  BY DEF NamesBut, NowLeads
<1>2. \A j \in Inode \ {dir, i} : SameLinks(v, u, j) /\ \A m \in Name : Look(u, j, m) = Look(v, j, m)
  BY DEF Alike, SameLinks, NamesBut
<1>3. \A j : j \in Directories(v) => j \in Inode
  BY DirectoriesAre
<1>4. Directories(u) = Directories(v)
  <2>1. \A j : j \in Directories(v) => j \in Directories(u)
    BY <1>2, <1>3, DirectoriesAre DEF SameLinks
  <2>2. \A j : j \in Directories(u) => j \in Directories(v)
    BY <1>2, DirectoriesAre DEF SameLinks
  <2> QED
    BY <2>1, <2>2
<1>5. i # 0
  BY <1>1 DEF Inode
<1>6. Entries(u) = Entries(v) \ {<<dir, n, i>>} /\ <<dir, n, i>> \in Entries(v)
  <2>1. \A j \in Directories(u) \ {dir} : \A m \in Name : Look(u, j, m) = Look(v, j, m)
    BY <1>2, <1>3, <1>4
  <2>2. /\ Directories(u) \subseteq Directories(v)
        /\ \A j \in Directories(v) \ Directories(u) : j # dir /\ \A m \in Name : Look(v, j, m) = 0
    BY <1>4
  <2> QED
    BY <1>1, <1>5, <2>1, <2>2, EntriesWithout
<1>7. \A j \in Inode \ {i} : LinksOf(u)[j] = LinksOf(v)[j]
  <2>1. \A j \in Inode \ {i} : SameLinks(v, u, j)
    BY <1>2
  <2> QED
    BY <2>1, LinksOfIs DEF SameLinks
<1> QED
  BY <1>4, <1>6, <1>7

(* One name of several of a file taken away.                               *)
LEMMA NamesFewer ==
    ASSUME VolumeAssumption, NEW v, NEW u, NEW tight, NamesHold(v, tight), v[InodeMap] \subseteq Inode,
           NEW dir, NEW n, NEW i, NamesBut(v, u, dir, n, i), i \notin Directories(v), SameLinks(v, u, dir),
           InodeIn(u, i).kind # "dir", InodeIn(u, i).links = InodeIn(v, i).links - 1, InodeIn(u, i).links > 0,
           u[InodeMap] = v[InodeMap], u[Group].directories = v[Group].directories
    PROVE  NamesHold(u, tight)
<1>1. PICK T : T = Entries(v)
  OBVIOUS
<1>2. PICK D : D = Directories(v)
  OBVIOUS
<1>3. PICK L : L = LinksOf(v)
  OBVIOUS
<1>4. PICK A : A = v[InodeMap]
  OBVIOUS
<1>5. PICK U : U = Entries(u)
  OBVIOUS
<1>6. PICK K : K = LinksOf(u)
  OBVIOUS
<1>7. /\ NamesStand(T, A, D) /\ LinksStand(T, D, L) /\ Reached(T) \subseteq Inode
      /\ tight => A = Reached(T) /\ v[Group].directories = Cardinality(D)
  BY <1>1, <1>2, <1>3, <1>4, NamesTold
<1>8. /\ U = T \ {<<dir, n, i>>} /\ <<dir, n, i>> \in T /\ Directories(u) = D
      /\ \A j \in Inode \ {i} : K[j] = L[j]
  BY <1>1, <1>2, <1>3, <1>5, <1>6, FileNameGone
<1>9. i \in Inode
  BY DEF NamesBut
<1>10. K[i] = L[i] - 1 /\ K[i] > 0
  <2>1. K[i] = InodeIn(u, i).links /\ L[i] = InodeIn(v, i).links
    BY <1>3, <1>6, <1>9, LinksOfIs
  <2> QED
    BY <2>1
<1>11. DropsAName(T, D, L, dir, n, i, K, U)
  BY <1>2, <1>7, <1>8, <1>10 DEF DropsAName
<1>12. NamesStand(U, A, D) /\ LinksStand(U, D, K) /\ StillReached(T, A, U, A)
  BY <1>7, <1>11, NameDropped
<1> QED
  BY <1>4, <1>5, <1>6, <1>7, <1>8, <1>12 DEF NamesHold, StillReached

(* The last name of a file taken away, and the file.                       *)
LEMMA NamesLast ==
    ASSUME VolumeAssumption, NEW v, NEW u, NEW tight, NamesHold(v, tight), v[InodeMap] \subseteq Inode,
           NEW dir, NEW n, NEW i, NamesBut(v, u, dir, n, i), i \notin Directories(v), SameLinks(v, u, dir),
           ~(InodeIn(v, i).links - 1 > 0),
           u[InodeMap] = v[InodeMap] \ {i}, u[Group].directories = v[Group].directories
    PROVE  NamesHold(u, tight)
<1>1. PICK T : T = Entries(v)
  OBVIOUS
<1>2. PICK D : D = Directories(v)
  OBVIOUS
<1>3. PICK L : L = LinksOf(v)
  OBVIOUS
<1>4. PICK A : A = v[InodeMap]
  OBVIOUS
<1>5. PICK U : U = Entries(u)
  OBVIOUS
<1>6. PICK K : K = LinksOf(u)
  OBVIOUS
<1>7. /\ NamesStand(T, A, D) /\ LinksStand(T, D, L) /\ Reached(T) \subseteq Inode
      /\ tight => A = Reached(T) /\ v[Group].directories = Cardinality(D)
  BY <1>1, <1>2, <1>3, <1>4, NamesTold
<1>8. /\ U = T \ {<<dir, n, i>>} /\ <<dir, n, i>> \in T /\ Directories(u) = D
      /\ \A j \in Inode \ {i} : K[j] = L[j]
  <2>1. u[InodeMap] \subseteq v[InodeMap] /\ v[InodeMap] \subseteq u[InodeMap] \cup {i} /\ i \notin u[InodeMap]
    OBVIOUS
  <2> QED
    BY <1>1, <1>2, <1>3, <1>5, <1>6, <2>1, FileNameGone
<1>9. ~(L[i] - 1 > 0)
  <2>1. L[i] = InodeIn(v, i).links
    BY <1>3, LinksOfIs DEF NamesBut
  <2> QED
    BY <2>1
<1>11. DropsAFile(T, D, L, dir, n, i, K, U)
  BY <1>2, <1>7, <1>8, <1>9 DEF DropsAFile
<1>12. NamesStand(U, A \ {i}, D) /\ LinksStand(U, D, K) /\ StillReached(T, A, U, A \ {i})
  <2>1. NamesStand(T, A, D) /\ LinksStand(T, D, L)
    BY <1>7
  <2>2. NamesStand(U, A \ {i}, D)
    BY <1>11, <2>1, FileDropped
  <2>3. LinksStand(U, D, K)
    BY <1>11, <2>1, FileDropped
  <2>4. StillReached(T, A, U, A \ {i})
    BY <1>11, <2>1, FileDropped
  <2> QED
    BY <2>2, <2>3, <2>4
<1> QED
  BY <1>4, <1>5, <1>6, <1>7, <1>8, <1>12 DEF NamesHold, StillReached

(* The name of an empty directory taken away, and the directory.           *)
LEMMA NamesEmptied ==
    ASSUME VolumeAssumption, NEW v, NEW u, NEW tight, NamesHold(v, tight), v[InodeMap] \subseteq Inode,
           NEW dir, NEW n, NEW i, NamesBut(v, u, dir, n, i), i \in Directories(v), dir \in Reached(Entries(v)),
           \A m \in Name : Look(v, i, m) = 0, InodeIn(u, dir).links = InodeIn(v, dir).links - 1,
           u[InodeMap] = v[InodeMap] \ {i}, u[Group].directories = v[Group].directories - 1
    PROVE  NamesHold(u, tight)
<1>1. PICK T : T = Entries(v)
  OBVIOUS
<1>2. PICK D : D = Directories(v)
  OBVIOUS
<1>3. PICK L : L = LinksOf(v)
  OBVIOUS
<1>4. PICK A : A = v[InodeMap]
  OBVIOUS
<1>5. PICK U : U = Entries(u)
  OBVIOUS
<1>6. PICK K : K = LinksOf(u)
  OBVIOUS
<1>7. /\ NamesStand(T, A, D) /\ LinksStand(T, D, L) /\ Reached(T) \subseteq Inode /\ D \subseteq Inode
      /\ tight => A = Reached(T) /\ v[Group].directories = Cardinality(D)
  BY <1>1, <1>2, <1>3, <1>4, NamesTold
<1>8. /\ dir \in D /\ n \in Name /\ i \in D /\ i # dir /\ Look(v, dir, n) = i
      /\ Look(u, dir, n) = 0 /\ \A m \in Name \ {n} : Look(u, dir, m) = Look(v, dir, m)
  BY <1>2 DEF NamesBut, NowLeads
<1>9. \A j \in Inode \ {dir, i} : SameLinks(v, u, j) /\ \A m \in Name : Look(u, j, m) = Look(v, j, m)
  BY DEF Alike, SameLinks, NamesBut
<1>10. Directories(u) = D \ {i}
  <2>1. \A j : j \in D \ {i} => j \in Directories(u)
    BY <1>2, <1>7, <1>9, DirectoriesAre DEF SameLinks, NamesBut
  <2>2. \A j : j \in Directories(u) => j \in D \ {i}
    BY <1>2, <1>8, <1>9, DirectoriesAre DEF SameLinks
  <2> QED
    BY <2>1, <2>2
<1>11. U = T \ {<<dir, n, i>>} /\ <<dir, n, i>> \in T
  <2>1. \A j \in Directories(u) \ {dir} : \A m \in Name : Look(u, j, m) = Look(v, j, m)
    BY <1>7, <1>9, <1>10
  <2>2. /\ Directories(u) \subseteq Directories(v)
        /\ \A j \in Directories(v) \ Directories(u) : j # dir /\ \A m \in Name : Look(v, j, m) = 0
    BY <1>2, <1>8, <1>10
  <2>3. i # 0
    BY <1>7, <1>8 DEF Inode
  <2> QED
    BY <1>1, <1>2, <1>5, <1>8, <2>1, <2>2, <2>3, EntriesWithout
<1>12. \A t \in T : t[1] # i
  <2>1. \A t \in T : t[2] \in Name /\ t[3] = Look(v, t[1], t[2]) /\ t[3] # 0
    BY <1>1, EntriesAre
  <2> QED
    BY <2>1
<1>13. DropsADirectory(T, D, L, dir, n, i, K, U)
  <2>1. \A j \in Reached(T) \ {dir, i} : K[j] = L[j]
    BY <1>3, <1>6, <1>7, <1>9, LinksOfIs DEF SameLinks
  <2>2. K[dir] = L[dir] - 1
    <3>1. K[dir] = InodeIn(u, dir).links /\ L[dir] = InodeIn(v, dir).links
      BY <1>3, <1>6, <1>7, <1>8, LinksOfIs
    <3> QED
      BY <3>1
  <2>3. dir \in Reached(T)
    BY <1>1
  <2> QED
    BY <1>8, <1>11, <1>12, <2>1, <2>2, <2>3 DEF DropsADirectory
<1>14. NamesStand(U, A \ {i}, D \ {i}) /\ LinksStand(U, D \ {i}, K) /\ StillReached(T, A, U, A \ {i})
  <2>1. NamesStand(T, A, D) /\ LinksStand(T, D, L)
    BY <1>7
  <2> QED
    BY <1>13, <2>1, DirectoryDropped
<1>15. Cardinality(D \ {i}) = Cardinality(D) - 1
  BY <1>7, <1>8, DirectoriesFinite, OneFewerUsed
<1> QED
  BY <1>4, <1>5, <1>6, <1>7, <1>10, <1>14, <1>15 DEF NamesHold, StillReached

(* The inodes as the volume has them stand for those in memory too.        *)
LEMMA SturdyForgot ==
    ASSUME VolumeAssumption, NEW v, Formed(v), NEW M, NEW tight, Sturdy(v, M, tight),
           NEW N \in [Inode -> InodeRecord], \A i \in Inode : N[i] = M[i] \/ N[i] = InodeIn(v, i)
    PROVE  Sturdy(v, N, tight)
<1>1. /\ M \in [Inode -> InodeRecord] /\ Books(v, M, tight) /\ InodeCount(v)
      /\ \A i \in Inode : Tallies(v, InodeIn(v, i), M[i], i \in v[InodeMap], tight)
  BY DEF Sturdy
<1>2. \A i \in Inode : Tallies(v, InodeIn(v, i), N[i], i \in v[InodeMap], tight)
  <2>1. ASSUME NEW i \in Inode
        PROVE  Tallies(v, InodeIn(v, i), N[i], i \in v[InodeMap], tight)
    <3>1. Tallies(v, InodeIn(v, i), M[i], i \in v[InodeMap], tight)
      BY <1>1
    <3>2. Behind(v, InodeIn(v, i), InodeIn(v, i))
      BY BehindSelf
    <3> QED
      BY <3>1, <3>2 DEF Tallies
  <2> QED
    BY <2>1
<1>3. \A i \in Inode, p \in Place : PointerAt(v, N[i], p) = PointerAt(v, M[i], p) \/ PointerAt(v, N[i], p) = 0
  <2>1. ASSUME NEW i \in Inode, NEW p \in Place
        PROVE  PointerAt(v, N[i], p) = PointerAt(v, M[i], p) \/ PointerAt(v, N[i], p) = 0
    <3>1. CASE N[i] = M[i]
      BY <3>1
    <3>2. CASE N[i] = InodeIn(v, i)
      <4>1. PICK d \in InodeRecord : d = InodeIn(v, i)
        BY FormedIs
      <4>2. PICK r \in InodeRecord : r = M[i]
        BY <1>1
      <4>3. Behind(v, d, r)
        BY <1>1, <4>1, <4>2 DEF Tallies
      <4>4. CASE d.table = r.table
        BY <3>2, <4>1, <4>2, <4>3, <4>4 DEF PointerAt, Behind
      <4>5. CASE d.table # r.table
        <5>1. d.table = 0 /\ d.direct = r.direct
          BY <4>3, <4>5 DEF Behind
        <5>2. PointerAt(v, d, p) = PointerAt(v, r, p) \/ PointerAt(v, d, p) = 0
          BY <5>1 DEF PointerAt
        <5> QED
          BY <3>2, <4>1, <4>2, <5>2
      <4> QED
        BY <4>4, <4>5
    <3> QED
      BY <3>1, <3>2
  <2> QED
    BY <2>1
<1>4. Books(v, N, tight)
  <2>1. CASE tight
    <3>1. \A i \in Inode : N[i] = M[i]
      BY <1>1, <2>1 DEF Tallies
    <3>2. N = M
      BY <1>1, <3>1
    <3> QED
      BY <1>1, <3>2
  <2>2. CASE ~tight
    <3>1. PICK F : F = Pointing(v, M)
      OBVIOUS
    <3>2. PICK G : G = Pointing(v, N)
      OBVIOUS
    <3>3. Owned(F, v[BlockMap])
      BY <1>1, <3>1 DEF Books
    <3>4. \A i \in Inode : \A p \in Place : G[i][p] = F[i][p] \/ G[i][p] = 0
      BY <1>3, <3>1, <3>2, PointingIs
    <3>5. Owned(G, v[BlockMap])
      BY <3>3, <3>4, PointersForgotten
    <3> QED
      BY <1>1, <2>2, <3>2, <3>5 DEF Books
  <2> QED
    BY <2>1, <2>2
<1> QED
  BY <1>1, <1>2, <1>4 DEF Sturdy

(* Where nothing need be lost, something may be.                           *)
LEMMA NamesLoose ==
    ASSUME NEW v, NEW tight, NamesHold(v, tight), NEW loose, loose => tight
    PROVE  NamesHold(v, loose)
  BY DEF NamesHold

(* What is in a file is none of the names' concern.                        *)
LEMMA NamesAside ==
    ASSUME NEW v, NEW u, NEW tight, NamesHold(v, tight), v[InodeMap] \subseteq Inode,
           NEW i \in Inode \ Directories(v), Alike(v, u, {i}), SameLinks(v, u, i),
           u[InodeMap] = v[InodeMap], u[Group].directories = v[Group].directories
    PROVE  NamesHold(u, tight)
<1>1. \A j \in Inode : SameLinks(v, u, j)
  BY DEF Alike, SameLinks
<1>2. Directories(u) = Directories(v) /\ Directories(v) \subseteq Inode
  <2>1. \A j : j \in Directories(v) => j \in Inode
    BY DirectoriesAre
  <2>2. \A j : j \in Directories(u) <=> j \in Directories(v)
    BY <1>1, DirectoriesAre DEF SameLinks
  <2> QED
    BY <2>1, <2>2
<1>3. \A j \in Directories(v) : \A n \in Name : Look(u, j, n) = Look(v, j, n)
  BY <1>2 DEF Alike
<1>4. Entries(u) = Entries(v)
  <2>1. \A t : t \in Entries(u) <=>
           \E dir \in Directories(v), n \in Name : t = <<dir, n, Look(v, dir, n)>> /\ Look(v, dir, n) # 0
    <3>1. \A t : t \in Entries(u) <=>
             \E dir \in Directories(u), n \in Name : t = <<dir, n, Look(u, dir, n)>> /\ Look(u, dir, n) # 0
      BY EntriesAre
    <3> QED
      BY <1>2, <1>3, <3>1
  <2>2. \A t : t \in Entries(u) <=> t \in Entries(v)
    BY <2>1, EntriesAre
  <2> QED
    BY <2>2
<1>5. LinksOf(u) = LinksOf(v)
  BY <1>1 DEF LinksOf, SameLinks
<1> QED
  BY <1>2, <1>4, <1>5 DEF NamesHold

(* One inode worked upon, and right after it.                              *)
LEMMA SturdyAfter ==
    ASSUME VolumeAssumption, NEW v, Formed(v), NEW u, Formed(u), NEW M, NEW tight, Sturdy(v, M, tight),
           NEW x \in Inode, Spares(v, u, x, M), NEW q \in InodeRecord, Books(u, With(M, x, q), tight),
           Tallies(u, InodeIn(u, x), q, x \in v[InodeMap], tight)
    PROVE  Sturdy(u, With(M, x, q), tight) /\ Alike(v, u, {x}) /\ InodesKept(v, u)
<1>1. /\ M \in [Inode -> InodeRecord] /\ InodeCount(v)
      /\ \A i \in Inode : Tallies(v, InodeIn(v, i), M[i], i \in v[InodeMap], tight)
  BY DEF Sturdy
<1>2. InodesKept(v, u)
  BY DEF Spares
<1>3. PICK N : N = With(M, x, q) /\ N \in [Inode -> InodeRecord] /\ N[x] = q /\ \A j \in Inode \ {x} : N[j] = M[j]
  BY <1>1, WithIs
<1>4. /\ \A j \in Inode \ {x} : Tallies(u, InodeIn(u, j), M[j], j \in u[InodeMap], tight)
      /\ Alike(v, u, {x})
  BY <1>1, OthersTally
<1>5. ASSUME NEW j \in Inode
      PROVE  Tallies(u, InodeIn(u, j), N[j], j \in u[InodeMap], tight)
  <2>1. CASE j = x
    <3>1. (x \in u[InodeMap]) = (x \in v[InodeMap])
      BY <1>2 DEF InodesKept
    <3> QED
      BY <1>3, <2>1, <3>1
  <2>2. CASE j # x
    BY <1>3, <1>4, <2>2
  <2> QED
    BY <2>1, <2>2
<1>6. InodeCount(u)
  BY <1>1, <1>2 DEF InodeCount, InodesKept
<1>7. Sturdy(u, N, tight)
  BY <1>3, <1>5, <1>6 DEF Sturdy
<1> QED
  BY <1>2, <1>3, <1>4, <1>7

(***************************************************************************)
(* The calls on names, from beginning to end.                              *)
(***************************************************************************)
(* A call begins, in a directory that names lead to.                       *)
Ready(s, dir, M, tight) ==
    /\ Firm(s, dir, M, tight) /\ s.ok /\ NamesHold(s.v, tight)
    /\ dir \in Directories(s.v) /\ dir \in Reached(Entries(s.v))
(* It has ended: the volume stands well, and of the inodes in use, and in  *)
(* memory, those outside X are what they were.                             *)
Ended(v, u, M, K, X, tight) ==
    /\ Sturdy(u, K, tight) /\ NamesHold(u, tight)
    /\ \A j \in v[InodeMap] \ X : j \in u[InodeMap] /\ InodeIn(u, j).kind = InodeIn(v, j).kind /\ K[j] = M[j]

LEMMA ReadyIs ==
    ASSUME NEW s, NEW dir, NEW M, NEW tight, Ready(s, dir, M, tight)
    PROVE  /\ Sane(s) /\ Formed(s.v) /\ s.ok /\ s.i \in InodeRecord /\ s.i.kind = "dir"
           /\ dir \in Inode /\ dir \in s.v[InodeMap] /\ s.v[InodeMap] \subseteq Inode
           /\ Sturdy(s.v, M, tight) /\ M \in [Inode -> InodeRecord] /\ M[dir] = s.i
           /\ InodeIn(s.v, dir).kind = "dir" /\ InodeIn(s.v, dir).links = s.i.links
           /\ \A j \in Inode \ s.v[InodeMap] : InodeIn(s.v, j).size = 0
<1>1. /\ Firm(s, dir, M, tight) /\ s.ok /\ Formed(s.v) /\ s.i \in InodeRecord /\ Sane(s) /\ dir \in Inode
      /\ M \in [Inode -> InodeRecord]
  BY FirmUnder DEF Ready
<1>2. s.v[InodeMap] \subseteq Inode
  BY <1>1 DEF Formed
<1>3. dir \in s.v[InodeMap] /\ InodeIn(s.v, dir).kind = "dir"
  BY DirectoriesAre DEF Ready
<1>4. Sturdy(s.v, M, tight) /\ M[dir] = s.i
  BY <1>1 DEF Firm
<1>5. \A j \in Inode : Tallies(s.v, InodeIn(s.v, j), M[j], j \in s.v[InodeMap], tight)
  BY <1>4 DEF Sturdy
<1>6. \A j \in Inode \ s.v[InodeMap] : InodeIn(s.v, j).size = 0
  BY <1>5 DEF Tallies
<1>7. s.i.kind = InodeIn(s.v, dir).kind /\ s.i.links = InodeIn(s.v, dir).links
  BY <1>1, <1>4, <1>5 DEF Tallies, Behind, SameShape
<1> QED
  BY <1>1, <1>2, <1>3, <1>4, <1>6, <1>7

(* The allocation of an inode, and the calls that go on with it.           *)
NewlyTaken(s, a, M, tight, i, more) ==
    /\ Sane(a) /\ a.ok /\ a.i = s.i /\ i \in Inode \ s.v[InodeMap] /\ Sturdy(a.v, M, tight)
    /\ Alike(s.v, a.v, {}) /\ InodesStay(s.v, a.v, {}) /\ a.v[InodeMap] = s.v[InodeMap] \cup {i}
    /\ a.v[Group].directories = s.v[Group].directories + more /\ InodeIn(a.v, i).size = 0
LEMMA AllocateInodeDoes ==
    ASSUME VolumeAssumption, NEW s, NEW dir, NEW M, NEW tight, Ready(s, dir, M, tight), NEW directory \in BOOLEAN,
           NEW a, a = AllocateInode(s, directory)
    PROVE  /\ a.ok => NewlyTaken(s, a, M, tight, a.got, IF directory THEN 1 ELSE 0)
           /\ ~a.ok => Sane(a) /\ a.v = s.v /\ a.i = s.i
<1>1. Sane(s) /\ s.ok /\ Formed(s.v) /\ Sturdy(s.v, M, tight) /\ \A j \in Inode \ s.v[InodeMap] : InodeIn(s.v, j).size = 0
  BY ReadyIs
<1>2. /\ Sane(a) /\ a.i = s.i
      /\ a.ok => InodeTaken(s.v, a.v, a.got, directory)
      /\ ~a.ok => a.v = s.v
  BY <1>1, InodeIsTaken
<1>3. ASSUME a.ok
      PROVE  NewlyTaken(s, a, M, tight, a.got, IF directory THEN 1 ELSE 0)
  <2>1. PICK i : i = a.got
    OBVIOUS
  <2>2. PICK more : more = IF directory THEN 1 ELSE 0
    OBVIOUS
  <2>3. PICK map : map = s.v[InodeMap] \cup {i}
    OBVIOUS
  <2>4. i \in Inode \ s.v[InodeMap] /\ InodesCounted(s.v, a.v, map, more)
    BY <1>2, <1>3, <2>1, <2>2, <2>3 DEF InodeTaken
  <2>5. \A j \in Inode \ map : InodeIn(s.v, j).size = 0
    BY <1>1, <2>3
  <2>6. Formed(a.v)
    BY <1>2, SaneIsFormed
  <2>7. Sturdy(a.v, M, tight) /\ Alike(s.v, a.v, {}) /\ InodesStay(s.v, a.v, {}) /\ a.v[InodeMap] = map
    BY <1>1, <2>4, <2>5, <2>6, MapChanged
  <2>8. InodeIn(a.v, i).size = 0
    BY <1>1, <2>4, <2>7 DEF InodesStay
  <2>9. a.v[Group].directories = s.v[Group].directories + more
    BY <2>4 DEF InodesCounted
  <2> QED
    BY <1>2, <1>3, <2>1, <2>2, <2>3, <2>4, <2>7, <2>8, <2>9 DEF NewlyTaken
<1> QED
  BY <1>2, <1>3

(* Nothing but the directory's own record in memory, perhaps, altered.     *)
LEMMA RefusedAtOnce ==
    ASSUME NEW s, NEW dir, NEW M, NEW tight, Ready(s, dir, M, tight), NEW u, u = s.v
    PROVE  Ended(s.v, u, M, M, {}, FALSE)
<1>1. Sturdy(s.v, M, tight) /\ NamesHold(s.v, tight)
  BY DEF Ready, Firm
<1>2. PICK loose : loose = FALSE /\ (loose => tight)
  OBVIOUS
<1>3. Sturdy(u, M, loose) /\ NamesHold(u, loose)
  BY <1>1, <1>2, SturdyLoose, NamesLoose
<1> QED
  BY <1>2, <1>3 DEF Ended

(* An inode marked used, and not named after all.                          *)
LEMMA LostIsEnded ==
    ASSUME NEW s, NEW dir, NEW M, NEW tight, Ready(s, dir, M, tight),
           NEW i \in Inode \ s.v[InodeMap], NEW u, Alike(s.v, u, {i}), \A n \in Name : Look(u, i, n) = 0,
           u[InodeMap] = s.v[InodeMap] \cup {i}, NEW K, Sturdy(u, K, FALSE), NEW X,
           \A j \in s.v[InodeMap] \ X : K[j] = M[j]
    PROVE  Ended(s.v, u, M, K, X, FALSE)
<1>1. s.v[InodeMap] \subseteq Inode /\ NamesHold(s.v, tight)
  BY ReadyIs DEF Ready
<1>2. NamesHold(u, FALSE)
  BY <1>1, NamesLost
<1>3. \A j \in s.v[InodeMap] : j \in u[InodeMap] /\ InodeIn(u, j).kind = InodeIn(s.v, j).kind
  BY <1>1 DEF Alike
<1> QED
  BY <1>2, <1>3 DEF Ended

EndedIn(s, t, dir, M, tight) ==
    /\ Sane(t) /\ t.i.kind = "dir"
    /\ \E K : Ended(s.v, t.v, M, K, {dir}, tight /\ t.ok) /\ K[dir] = t.i
LEMMA EndedWith ==
    ASSUME NEW s, NEW t, NEW dir, NEW M, NEW tight, NEW K, Sane(t), t.i.kind = "dir", K[dir] = t.i,
           t.ok => Ended(s.v, t.v, M, K, {dir}, tight),
           ~t.ok => Ended(s.v, t.v, M, K, {dir}, FALSE)
    PROVE  EndedIn(s, t, dir, M, tight)
<1>1. PICK loose : loose = (tight /\ t.ok)
  OBVIOUS
<1>2. Ended(s.v, t.v, M, K, {dir}, loose)
  <2>1. CASE t.ok
    <3>1. Ended(s.v, t.v, M, K, {dir}, tight) /\ (loose => tight)
      BY <1>1, <2>1
    <3>2. Sturdy(t.v, K, tight) /\ NamesHold(t.v, tight)
      BY <3>1 DEF Ended
    <3>3. Sturdy(t.v, K, loose) /\ NamesHold(t.v, loose)
      BY <3>1, <3>2, SturdyLoose, NamesLoose
    <3> QED
      BY <3>1, <3>3 DEF Ended
  <2>2. CASE ~t.ok
    <3>1. loose = FALSE
      BY <1>1, <2>2
    <3> QED
      BY <2>2, <3>1
  <2> QED
    BY <2>1, <2>2
<1>3. Ended(s.v, t.v, M, K, {dir}, tight /\ t.ok)
  BY <1>1, <1>2
<1> QED
  BY <1>3 DEF EndedIn

LEMMA NotBegun ==
    ASSUME NEW s, NEW dir, NEW M, NEW tight, Ready(s, dir, M, tight), NEW t, Sane(t), ~t.ok, t.v = s.v, t.i = s.i
    PROVE  EndedIn(s, t, dir, M, tight)
<1>1. Ended(s.v, t.v, M, M, {}, FALSE)
  BY RefusedAtOnce
<1>2. Ended(s.v, t.v, M, M, {dir}, FALSE)
  BY <1>1 DEF Ended
<1>3. s.i.kind = "dir" /\ M[dir] = s.i
  BY ReadyIs
<1> QED
  BY <1>2, <1>3, EndedWith

(* What the call itself did, once an inode i had its record q.             *)
NewlyWritten(s, b, M, tight, i, q) ==
    /\ Sane(b) /\ b.ok /\ b.i = s.i /\ q \in InodeRecord /\ Sturdy(b.v, With(M, i, q), tight)
    /\ i \in Inode \ s.v[InodeMap] /\ b.v[InodeMap] = s.v[InodeMap] \cup {i}
    /\ Alike(s.v, b.v, {i}) /\ (\A m \in Name : Look(b.v, i, m) = 0) /\ InodeIn(b.v, i) = q
NewlyNamed(s, b, c, dir, n, i, q, M, K, tight) ==
    /\ Sane(c) /\ Sturdy(c.v, K, tight /\ c.ok) /\ K[dir] = c.i /\ K \in [Inode -> InodeRecord]
    /\ \A j \in s.v[InodeMap] \ {dir} : K[j] = M[j]
    /\ c.i.kind = "dir" /\ c.i.links = s.i.links /\ SameLinks(s.v, c.v, dir)
    /\ Alike(s.v, c.v, {dir, i}) /\ InodesKept(b.v, c.v)
    /\ InodeIn(c.v, i).kind = q.kind /\ InodeIn(c.v, i).links = q.links /\ (\A m \in Name : Look(c.v, i, m) = 0)
    /\ c.ok => NowLeads(s.v, c.v, dir, n, i)
    /\ ~c.ok => Alike(s.v, c.v, {i})
LEMMA InsertedThen ==
    ASSUME VolumeAssumption, NEW s, NEW dir, NEW M, NEW tight, Ready(s, dir, M, tight), NEW n \in Name,
           Look(s.v, dir, n) = 0, NEW b, NEW i, NEW q, NewlyWritten(s, b, M, tight, i, q),
           NEW c, c = Insert(b, dir, n, i), NEW K, K = With(With(M, i, q), dir, c.i)
    PROVE  NewlyNamed(s, b, c, dir, n, i, q, M, K, tight)
<1>0. /\ Sane(b) /\ b.ok /\ b.i = s.i /\ q \in InodeRecord /\ Sturdy(b.v, With(M, i, q), tight)
      /\ i \in Inode \ s.v[InodeMap] /\ b.v[InodeMap] = s.v[InodeMap] \cup {i}
      /\ Alike(s.v, b.v, {i}) /\ (\A m \in Name : Look(b.v, i, m) = 0) /\ InodeIn(b.v, i) = q
  BY DEF NewlyWritten
<1>1. /\ M \in [Inode -> InodeRecord] /\ M[dir] = s.i /\ s.i.kind = "dir" /\ dir \in Inode /\ dir \in s.v[InodeMap]
      /\ InodeIn(s.v, dir).kind = "dir" /\ InodeIn(s.v, dir).links = s.i.links /\ s.v[InodeMap] \subseteq Inode
  BY ReadyIs
<1>2. dir # i
  BY <1>0, <1>1
<1>3. PICK N : N = With(M, i, q) /\ N \in [Inode -> InodeRecord] /\ N[i] = q /\ \A j \in Inode \ {i} : N[j] = M[j]
  BY <1>0, <1>1, WithIs
<1>4. Firm(b, dir, N, tight)
  BY <1>0, <1>1, <1>2, <1>3 DEF Firm
<1>5. /\ Look(b.v, dir, n) = 0 /\ \A m \in Name : Look(b.v, dir, m) = Look(s.v, dir, m)
  BY <1>0, <1>1, <1>2 DEF Alike
<1>6. /\ Firm(c, dir, With(N, dir, c.i), tight /\ c.ok) /\ Inserted(b, c, dir, n, i)
      /\ Alike(b.v, c.v, {dir}) /\ InodesKept(b.v, c.v)
  <2>1. b.i.kind = "dir" /\ dir \in b.v[InodeMap]
    BY <1>0, <1>1
  <2>2. i \in Inode /\ b.ok
    BY <1>0
  <2> QED
    <3>1. InsertedFirm(b, c, dir, N, tight) /\ Inserted(b, c, dir, n, i) /\ Alike(b.v, c.v, {dir}) /\ InodesKept(b.v, c.v)
      BY <1>4, <1>5, <2>1, <2>2, InsertDoes
    <3> QED
      BY <3>1 DEF InsertedFirm
<1>7. Sane(c) /\ Sturdy(c.v, K, tight /\ c.ok) /\ c.i \in InodeRecord
  BY <1>3, <1>6, FirmUnder DEF Firm
<1>8. K[dir] = c.i /\ K \in [Inode -> InodeRecord] /\ \A j \in Inode \ {dir} : K[j] = N[j]
  <2>1. K = With(N, dir, c.i)
    BY <1>3
  <2>2. PICK r \in InodeRecord : r = c.i
    BY <1>7
  <2>3. K = With(N, dir, r) /\ N \in [Inode -> InodeRecord] /\ dir \in Inode
    BY <1>1, <1>3, <2>1, <2>2
  <2>4. K \in [Inode -> InodeRecord] /\ K[dir] = r /\ \A j \in Inode \ {dir} : K[j] = N[j]
    BY <2>3, WithIs
  <2> QED
    BY <2>2, <2>4
<1>9. \A j \in s.v[InodeMap] \ {dir} : K[j] = M[j]
  BY <1>0, <1>1, <1>3, <1>8
<1>10. c.i.kind = "dir" /\ c.i.links = s.i.links /\ SameLinks(s.v, c.v, dir)
  BY <1>0, <1>1, <1>6 DEF Inserted, SameLinks
<1>11. Alike(s.v, c.v, {dir, i})
  <2>1. Alike(s.v, c.v, {i} \cup {dir})
    BY <1>0, <1>6, AlikeOn
  <2>2. {i} \cup {dir} = {dir, i}
    OBVIOUS
  <2> QED
    BY <2>1, <2>2
<1>12. InodeIn(c.v, i).kind = q.kind /\ InodeIn(c.v, i).links = q.links /\ \A m \in Name : Look(c.v, i, m) = 0
  BY <1>0, <1>2, <1>6 DEF Alike
<1>13. c.ok => NowLeads(s.v, c.v, dir, n, i)
  BY <1>5, <1>6 DEF Inserted, NowLeads
<1>14. ASSUME ~c.ok
       PROVE  Alike(s.v, c.v, {i})
  <2>1. \A m \in Name : Look(c.v, dir, m) = Look(s.v, dir, m)
    BY <1>5, <1>6, <1>14 DEF Inserted
  <2> QED
    BY <1>10, <1>11, <2>1 DEF Alike, SameLinks
<1> QED
  BY <1>6, <1>7, <1>8, <1>9, <1>10, <1>11, <1>12, <1>13, <1>14 DEF NewlyNamed

(* Ext2CreateFile.                                                         *)
LEMMA FileRecord ==
    ASSUME VolumeAssumption
    PROVE  \E q \in InodeRecord : /\ q = NewInode("file", 1) /\ q.kind = "file" /\ q.links = 1 /\ q.size = 0
                                  /\ q.direct = 0 /\ q.table = 0
<1>1. NewInode("file", 1) \in InodeRecord
  <2>1. "file" \in {"none", "file", "dir"} /\ 1 \in Int
    OBVIOUS
  <2> QED
    BY <2>1, EmptyIs
<1> QED
  BY <1>1 DEF NewInode
CreatedIn(s, t) ==
    t.ok => t.got \in Inode \ s.v[InodeMap] /\ t.got \in t.v[InodeMap] /\ InodeIn(t.v, t.got).kind = "file"
LEMMA CreateFileDoes ==
    ASSUME VolumeAssumption, NEW s, NEW dir, NEW M, NEW tight, Ready(s, dir, M, tight), NEW n \in Name,
           Look(s.v, dir, n) = 0, NEW t, t = CreateFile(s, dir, n)
    PROVE  EndedIn(s, t, dir, M, tight) /\ CreatedIn(s, t)
<1>1. PICK a : a = AllocateInode(s, FALSE)
  OBVIOUS
<1>2. /\ a.ok => NewlyTaken(s, a, M, tight, a.got, IF FALSE THEN 1 ELSE 0)
      /\ ~a.ok => Sane(a) /\ a.v = s.v /\ a.i = s.i
  BY <1>1, AllocateInodeDoes
<1>3. /\ M \in [Inode -> InodeRecord] /\ M[dir] = s.i /\ s.i.kind = "dir" /\ dir \in Inode /\ dir \in s.v[InodeMap]
      /\ s.v[InodeMap] \subseteq Inode /\ Sturdy(s.v, M, tight)
  BY ReadyIs
<1>4. CASE ~a.ok
  <2>1. t = a
    BY <1>1, <1>4 DEF CreateFile
  <2>2. EndedIn(s, t, dir, M, tight)
    BY <1>2, <1>4, <2>1, NotBegun
  <2> QED
    BY <1>4, <2>1, <2>2 DEF CreatedIn
<1>5. CASE a.ok
  <2>1. PICK i : i = a.got
    OBVIOUS
  <2>2. PICK q \in InodeRecord : q = NewInode("file", 1) /\ q.kind = "file" /\ q.links = 1 /\ q.size = 0
                                 /\ q.direct = 0 /\ q.table = 0
    BY FileRecord
  <2>3. PICK b : b = WriteInode(a, i, q)
    OBVIOUS
  <2>4. PICK c : c = Insert(b, dir, n, i)
    OBVIOUS
  <2>5. t = Gets(c, i)
    BY <1>1, <1>5, <2>1, <2>2, <2>3, <2>4 DEF CreateFile, Gets
  <2>6. /\ Sane(a) /\ a.i = s.i /\ i \in Inode \ s.v[InodeMap] /\ Sturdy(a.v, M, tight)
        /\ Alike(s.v, a.v, {}) /\ a.v[InodeMap] = s.v[InodeMap] \cup {i} /\ Formed(a.v)
        /\ a.v[Group].directories = s.v[Group].directories /\ InodeIn(a.v, i).size = 0
    <3>1. NewlyTaken(s, a, M, tight, i, 0)
      BY <1>2, <1>5, <2>1
    <3>2. a.v[Group].directories = s.v[Group].directories
      <4>1. s.v[Group].directories \in Int
        <5>1. s.v[Group] \in GroupRecord
          BY ReadyIs DEF Formed
        <5> QED
          BY <5>1 DEF GroupRecord
      <4> QED
        BY <3>1, <4>1 DEF NewlyTaken
    <3> QED
      BY <3>1, <3>2, SaneIsFormed DEF NewlyTaken
  <2>7. Sane(b) /\ Same(a, b) /\ InodeWritten(a.v, b.v, i, q)
    BY <1>5, <2>2, <2>3, <2>6, InodeIsWritten
  <2>8. /\ Sturdy(b.v, With(M, i, q), tight) /\ Alike(a.v, b.v, {i}) /\ InodesKept(a.v, b.v)
        /\ \A m \in Name : Look(b.v, i, m) = 0
    <3>1. Formed(b.v) /\ NoBlocks(q)
      BY <2>2, <2>7, SaneIsFormed DEF NoBlocks
    <3>2. Formed(a.v) /\ Sturdy(a.v, M, tight) /\ i \in Inode /\ InodeIn(a.v, i).size = 0
      BY <2>6
    <3>3. q \in InodeRecord /\ q.size = 0 /\ InodeWritten(a.v, b.v, i, q)
      BY <2>2, <2>7
    <3> QED
      BY <3>1, <3>2, <3>3, RecordForgotten
  <2>9. /\ b.ok /\ b.i = s.i /\ InodeIn(b.v, i) = q /\ b.v[InodeMap] = s.v[InodeMap] \cup {i}
        /\ b.v[Group].directories = s.v[Group].directories /\ Alike(s.v, b.v, {i})
    <3>1. Alike(s.v, b.v, {} \cup {i})
      BY <2>6, <2>8, AlikeOn
    <3>2. {} \cup {i} = {i}
      OBVIOUS
    <3> QED
      BY <1>5, <2>6, <2>7, <2>8, <3>1, <3>2 DEF Same, InodeWritten, InodesKept
  <2>10. PICK K : K = With(With(M, i, q), dir, c.i)
    OBVIOUS
  <2>11. /\ Sane(c) /\ Sturdy(c.v, K, tight /\ c.ok) /\ K[dir] = c.i
         /\ \A j \in s.v[InodeMap] \ {dir} : K[j] = M[j]
         /\ c.i.kind = "dir" /\ SameLinks(s.v, c.v, dir)
         /\ Alike(s.v, c.v, {dir, i}) /\ InodesKept(b.v, c.v)
         /\ InodeIn(c.v, i).kind = q.kind /\ InodeIn(c.v, i).links = q.links /\ \A m \in Name : Look(c.v, i, m) = 0
         /\ c.ok => NowLeads(s.v, c.v, dir, n, i)
         /\ ~c.ok => Alike(s.v, c.v, {i})
    <3>1. NewlyWritten(s, b, M, tight, i, q)
      BY <2>2, <2>6, <2>7, <2>8, <2>9 DEF NewlyWritten
    <3>2. NewlyNamed(s, b, c, dir, n, i, q, M, K, tight)
      BY <2>4, <2>10, <3>1, InsertedThen
    <3> QED
      BY <3>2 DEF NewlyNamed
  <2>12. c.v[InodeMap] = s.v[InodeMap] \cup {i} /\ c.v[Group].directories = s.v[Group].directories
    BY <2>9, <2>11 DEF InodesKept
  <2>13. Gotten(c, t, i)
    BY <2>5, <2>11, GotIs
  <2>14. ASSUME c.ok
         PROVE  Ended(s.v, c.v, M, K, {dir}, tight)
    <3>1. NamesHold(s.v, tight) /\ dir \in Directories(s.v)
      BY DEF Ready
    <3>2. i \in Inode \ Directories(s.v)
      BY <2>6, DirectoriesAre
    <3>3. NamesHold(c.v, tight)
      <4>1. NowLeads(s.v, c.v, dir, n, i)
        BY <2>11, <2>14
      <4>2. InodeIn(c.v, i).kind # "dir" /\ InodeIn(c.v, i).links = IF i \in s.v[InodeMap] THEN InodeIn(s.v, i).links + 1 ELSE 1
        BY <2>2, <2>6, <2>11
      <4>3. i \in s.v[InodeMap] => i \in Reached(Entries(s.v))
        BY <2>6
      <4> QED
        BY <1>3, <2>11, <2>12, <3>1, <3>2, <4>1, <4>2, <4>3, NamesFile
    <3>4. Sturdy(c.v, K, tight)
      <4>1. PICK loose : loose = (tight /\ c.ok) /\ (tight => loose)
        BY <2>14
      <4>2. Sturdy(c.v, K, loose)
        BY <2>11, <4>1
      <4> QED
        BY <4>1, <4>2, SturdyLoose
    <3>5. \A j \in s.v[InodeMap] \ {dir} : j \in c.v[InodeMap] /\ InodeIn(c.v, j).kind = InodeIn(s.v, j).kind
      BY <1>3, <2>6, <2>11, <2>12 DEF Alike
    <3> QED
      BY <2>11, <3>3, <3>4, <3>5 DEF Ended
  <2>15. ASSUME ~c.ok
         PROVE  Ended(s.v, c.v, M, K, {dir}, FALSE)
    <3>1. Sturdy(c.v, K, FALSE)
      BY <2>11, <2>15
    <3> QED
      BY <2>6, <2>11, <2>12, <2>15, <3>1, LostIsEnded
  <2>16. EndedIn(s, t, dir, M, tight)
    <3>1. t.v = c.v /\ t.i = c.i /\ t.ok = c.ok /\ Sane(t)
      BY <2>13 DEF Gotten
    <3>2. t.ok => Ended(s.v, t.v, M, K, {dir}, tight)
      BY <2>14, <3>1
    <3>3. ~t.ok => Ended(s.v, t.v, M, K, {dir}, FALSE)
      BY <2>15, <3>1
    <3>4. t.i.kind = "dir" /\ K[dir] = t.i
      BY <2>11, <3>1
    <3> QED
      BY <3>1, <3>2, <3>3, <3>4, EndedWith
  <2>17. CreatedIn(s, t)
    BY <2>2, <2>6, <2>11, <2>12, <2>13 DEF CreatedIn, Gotten
  <2> QED
    BY <2>16, <2>17
<1> QED
  BY <1>4, <1>5

(* A record with another count of links.                                   *)
Recounted(r, q, by) == q \in InodeRecord /\ q.links = r.links + by /\ SameBlocks(r, q)
LEMMA LinksChanged ==
    ASSUME NEW r \in InodeRecord
    PROVE  /\ Recounted(r, [r EXCEPT !.links = @ + 1], 1)
           /\ Recounted(r, [r EXCEPT !.links = @ - 1], -1)
<1>1. ASSUME NEW l \in Int, NEW q, q = [r EXCEPT !.links = l]
      PROVE  q \in InodeRecord /\ q.links = l /\ SameBlocks(r, q)
  <2>1. q \in InodeRecord /\ q.links = l /\ q.kind = r.kind /\ q.size = r.size /\ q.direct = r.direct /\ q.table = r.table
    BY <1>1 DEF InodeRecord
  <2> QED
    BY <2>1 DEF SameBlocks
<1>2. r.links \in Int
  BY DEF InodeRecord
<1>3. r.links + 1 \in Int /\ r.links - 1 \in Int /\ r.links - 1 = r.links + (-1)
  BY <1>2
<1>4. Recounted(r, [r EXCEPT !.links = r.links + 1], 1)
  BY <1>1, <1>3 DEF Recounted
<1>5. Recounted(r, [r EXCEPT !.links = r.links - 1], -1)
  <2>1. PICK q : q = [r EXCEPT !.links = r.links - 1]
    OBVIOUS
  <2>2. q \in InodeRecord /\ q.links = r.links - 1 /\ SameBlocks(r, q)
    BY <1>1, <1>3, <2>1
  <2>3. q.links = r.links + (-1)
    BY <1>3, <2>2
  <2>4. Recounted(r, q, -1)
    BY <2>2, <2>3 DEF Recounted
  <2> QED
    BY <2>1, <2>4
<1> QED
  BY <1>4, <1>5

(* The count of links of the directory in hand altered.                    *)
LinksRecounted(e, t, q, dir, K, tight) ==
    /\ Sane(t) /\ t.ok /\ t.i = q
    /\ Sturdy(t.v, With(K, dir, q), tight) /\ Alike(e.v, t.v, {dir}) /\ InodesKept(e.v, t.v)
    /\ (\A n \in Name : Look(t.v, dir, n) = Look(e.v, dir, n))
    /\ InodeIn(t.v, dir) = q
LEMMA ParentCounted ==
    ASSUME VolumeAssumption, NEW e, Sane(e), e.ok, NEW dir \in Inode, NEW K, NEW tight, Sturdy(e.v, K, tight), K[dir] = e.i,
           NEW by, NEW q, Recounted(e.i, q, by),
           NEW f, f = WriteInode(e, dir, q), NEW t, t = HasInHand(f, q)
    PROVE  LinksRecounted(e, t, q, dir, K, tight)
<1>1. Formed(e.v) /\ e.i \in InodeRecord
  BY SaneIsFormed DEF Sane
<1>2. q \in InodeRecord /\ SameBlocks(e.i, q)
  BY DEF Recounted
<1>3. Sane(f) /\ Same(e, f) /\ InodeWritten(e.v, f.v, dir, q)
  BY <1>2, InodeIsWritten
<1>4. Sane(t) /\ t.v = f.v /\ t.i = q /\ t.ok = f.ok
  BY <1>2, <1>3, InHandIs
<1>5. /\ Sturdy(f.v, With(K, dir, q), tight) /\ Alike(e.v, f.v, {dir}) /\ InodesKept(e.v, f.v)
      /\ \A n \in Name : Look(f.v, dir, n) = Look(e.v, dir, n)
  <2>1. Formed(f.v) /\ SameBlocks(K[dir], q)
    BY <1>2, <1>3, SaneIsFormed
  <2> QED
    BY <1>1, <1>2, <1>3, <2>1, RecordWritten
<1>6. InodeIn(t.v, dir) = q
  BY <1>3, <1>4 DEF InodeWritten
<1>7. t.ok
  BY <1>3, <1>4 DEF Same
<1> QED
  BY <1>4, <1>5, <1>6, <1>7 DEF LinksRecounted

(* Ext2CreateDirectory.                                                    *)
DirectoryBegun(s, a, i, M, tight) ==
    /\ Sane(a) /\ a.ok /\ a.i = s.i /\ i \in Inode \ s.v[InodeMap] /\ Sturdy(a.v, M, tight)
    /\ Alike(s.v, a.v, {}) /\ a.v[InodeMap] = s.v[InodeMap] \cup {i} /\ Formed(a.v)
    /\ a.v[Group].directories = s.v[Group].directories + 1 /\ InodeIn(a.v, i).size = 0
    /\ \A m \in Name : Look(a.v, i, m) = 0
LEMMA DirectoryFails ==
    ASSUME VolumeAssumption, NEW s, NEW dir, NEW M, NEW tight, Ready(s, dir, M, tight),
           NEW a, NEW i, DirectoryBegun(s, a, i, M, tight), NEW t, Sane(t), ~t.ok, t.v = a.v, t.i = s.i
    PROVE  EndedIn(s, t, dir, M, tight)
<1>1. /\ M[dir] = s.i /\ s.i.kind = "dir" /\ s.v[InodeMap] \subseteq Inode
  BY ReadyIs
<1>2. PICK loose : loose = FALSE /\ (loose => tight)
  OBVIOUS
<1>3. Sturdy(t.v, M, loose)
  <2>1. Sturdy(t.v, M, tight)
    BY DEF DirectoryBegun
  <2> QED
    BY <1>2, <2>1, SturdyLoose
<1>4. Alike(s.v, t.v, {i})
  BY DEF Alike, DirectoryBegun
<1>5. Ended(s.v, t.v, M, M, {dir}, FALSE)
  <2>1. Sturdy(t.v, M, FALSE) /\ \A j \in s.v[InodeMap] \ {dir} : M[j] = M[j]
    BY <1>2, <1>3
  <2>2. /\ i \in Inode \ s.v[InodeMap] /\ (\A n \in Name : Look(t.v, i, n) = 0)
        /\ t.v[InodeMap] = s.v[InodeMap] \cup {i}
    BY DEF DirectoryBegun
  <2> QED
    BY <1>4, <2>1, <2>2, LostIsEnded
<1> QED
  BY <1>1, <1>5, EndedWith

LEMMA DirectoryWritten ==
    ASSUME VolumeAssumption, NEW s, NEW dir, NEW M, NEW tight, Ready(s, dir, M, tight),
           NEW a, NEW i, DirectoryBegun(s, a, i, M, tight), NEW b, NEW c, NEW q, NEW d,
           DirectoryWrites(a, M, tight, i, b, c, q, d)
    PROVE  /\ NewlyWritten(s, d, M, tight, i, q) /\ q.kind = "dir" /\ q.links = 2
           /\ d.v[Group].directories = s.v[Group].directories + 1
<1>1. /\ Sane(a) /\ a.ok /\ a.i = s.i /\ i \in Inode \ s.v[InodeMap] /\ Sturdy(a.v, M, tight)
      /\ Alike(s.v, a.v, {}) /\ a.v[InodeMap] = s.v[InodeMap] \cup {i}
      /\ a.v[Group].directories = s.v[Group].directories + 1 /\ InodeIn(a.v, i).size = 0
  BY DEF DirectoryBegun
<1>2. i \in a.v[InodeMap] /\ i \in Inode
  BY <1>1
<1>3. /\ Sane(d) /\ d.ok /\ d.i = a.i /\ q \in InodeRecord /\ InodeIn(d.v, i) = q /\ q.kind = "dir" /\ q.links = 2
      /\ Sturdy(d.v, With(M, i, q), tight) /\ Alike(a.v, d.v, {i}) /\ InodesKept(a.v, d.v)
      /\ \A n \in Name : Look(d.v, i, n) = 0
  BY DirectoryMade
<1>4. Alike(s.v, d.v, {i})
  <2>1. Alike(s.v, d.v, {} \cup {i})
    BY <1>1, <1>3, AlikeOn
  <2>2. {} \cup {i} = {i}
    OBVIOUS
  <2> QED
    BY <2>1, <2>2
<1> QED
  BY <1>1, <1>3, <1>4 DEF NewlyWritten, InodesKept

(* The new directory has its name, and its parent is counted up.           *)
LEMMA DirectoryEnds ==
    ASSUME VolumeAssumption, NEW s, NEW dir, NEW M, NEW tight, Ready(s, dir, M, tight), NEW n \in Name,
           Look(s.v, dir, n) = 0, NEW d, NEW i, NEW q, NewlyWritten(s, d, M, tight, i, q), q.kind = "dir", q.links = 2,
           d.v[Group].directories = s.v[Group].directories + 1,
           NEW e, e = Insert(d, dir, n, i), NEW t, t = ParentRaised(e, dir)
    PROVE  EndedIn(s, t, dir, M, tight)
<1>1. /\ M[dir] = s.i /\ s.i.kind = "dir" /\ dir \in Inode /\ dir \in s.v[InodeMap] /\ s.v[InodeMap] \subseteq Inode
      /\ InodeIn(s.v, dir).links = s.i.links
  BY ReadyIs
<1>2. /\ i \in Inode \ s.v[InodeMap] /\ d.v[InodeMap] = s.v[InodeMap] \cup {i}
  BY DEF NewlyWritten
<1>3. PICK K : K = With(With(M, i, q), dir, e.i)
  OBVIOUS
<1>4. NewlyNamed(s, d, e, dir, n, i, q, M, K, tight)
  BY <1>3, InsertedThen
<1>5. /\ Sane(e) /\ Sturdy(e.v, K, tight /\ e.ok) /\ K[dir] = e.i /\ K \in [Inode -> InodeRecord]
      /\ \A j \in s.v[InodeMap] \ {dir} : K[j] = M[j]
      /\ e.i.kind = "dir" /\ e.i.links = s.i.links /\ SameLinks(s.v, e.v, dir)
      /\ Alike(s.v, e.v, {dir, i}) /\ InodesKept(d.v, e.v)
      /\ InodeIn(e.v, i).kind = "dir" /\ InodeIn(e.v, i).links = 2 /\ (\A m \in Name : Look(e.v, i, m) = 0)
      /\ e.ok => NowLeads(s.v, e.v, dir, n, i)
      /\ ~e.ok => Alike(s.v, e.v, {i})
  BY <1>4 DEF NewlyNamed
<1>6. e.v[InodeMap] = s.v[InodeMap] \cup {i} /\ e.v[Group].directories = s.v[Group].directories + 1
  BY <1>2, <1>5 DEF InodesKept
<1>7. CASE ~e.ok
  <2>1. t = e
    BY <1>7 DEF ParentRaised
  <2>2. Sturdy(e.v, K, FALSE)
    BY <1>5, <1>7
  <2>3. Ended(s.v, e.v, M, K, {dir}, FALSE)
    <3>1. /\ i \in Inode \ s.v[InodeMap] /\ Alike(s.v, e.v, {i}) /\ (\A m \in Name : Look(e.v, i, m) = 0)
          /\ e.v[InodeMap] = s.v[InodeMap] \cup {i} /\ \A j \in s.v[InodeMap] \ {dir} : K[j] = M[j]
      BY <1>2, <1>5, <1>6, <1>7
    <3> QED
      BY <2>2, <3>1, LostIsEnded
  <2>4. /\ Sane(t) /\ t.i.kind = "dir" /\ K[dir] = t.i /\ ~t.ok /\ Ended(s.v, t.v, M, K, {dir}, FALSE)
    BY <1>5, <1>7, <2>1, <2>3
  <2> QED
    BY <2>4, EndedWith
<1>8. CASE e.ok
  <2>1. PICK r : r = [e.i EXCEPT !.links = @ + 1]
    OBVIOUS
  <2>2. PICK f : f = WriteInode(e, dir, r)
    OBVIOUS
  <2>3. t = HasInHand(f, r)
    BY <1>8, <2>1, <2>2 DEF ParentRaised, HasInHand
  <2>4. Sturdy(e.v, K, tight)
    <3>1. PICK loose : loose = (tight /\ e.ok) /\ (tight => loose)
      BY <1>8
    <3>2. Sturdy(e.v, K, loose)
      BY <1>5, <3>1
    <3> QED
      BY <3>1, <3>2, SturdyLoose
  <2>5. Recounted(e.i, r, 1)
    BY <1>5, <2>1, LinksChanged DEF Sane
  <2>6. /\ Sane(t) /\ t.ok /\ t.i.kind = "dir" /\ Sturdy(t.v, With(K, dir, t.i), tight)
        /\ Alike(e.v, t.v, {dir}) /\ InodesKept(e.v, t.v)
        /\ (\A m \in Name : Look(t.v, dir, m) = Look(e.v, dir, m))
        /\ InodeIn(t.v, dir).kind = "dir" /\ InodeIn(t.v, dir).links = InodeIn(s.v, dir).links + 1
    <3>1. LinksRecounted(e, t, r, dir, K, tight)
      BY <1>1, <1>5, <1>8, <2>2, <2>3, <2>4, <2>5, ParentCounted
    <3>2. r.kind = "dir" /\ r.links = InodeIn(s.v, dir).links + 1
      BY <1>1, <1>5, <2>5 DEF Recounted, SameBlocks
    <3> QED
      BY <3>1, <3>2 DEF LinksRecounted
  <2>7. t.i \in InodeRecord
    BY <2>6 DEF Sane
  <2>8. PICK L : L = With(K, dir, t.i) /\ L[dir] = t.i /\ \A j \in Inode \ {dir} : L[j] = K[j]
    BY <1>1, <1>5, <2>7, WithIs
  <2>9. Alike(s.v, t.v, {dir, i})
    <3>1. Alike(s.v, t.v, {dir, i} \cup {dir})
      BY <1>5, <2>6, AlikeOn
    <3>2. {dir, i} \cup {dir} = {dir, i}
      OBVIOUS
    <3> QED
      BY <3>1, <3>2
  <2>10. NowLeads(s.v, t.v, dir, n, i)
    BY <1>5, <1>8, <2>6 DEF NowLeads
  <2>11. /\ InodeIn(t.v, i).kind = "dir" /\ InodeIn(t.v, i).links = 2 /\ \A m \in Name : Look(t.v, i, m) = 0
    BY <1>1, <1>2, <1>5, <2>6 DEF Alike
  <2>12. t.v[InodeMap] = s.v[InodeMap] \cup {i} /\ t.v[Group].directories = s.v[Group].directories + 1
    BY <1>6, <2>6 DEF InodesKept
  <2>13. NamesHold(t.v, tight)
    <3>1. NamesHold(s.v, tight) /\ dir \in Directories(s.v) /\ dir \in Reached(Entries(s.v))
      BY DEF Ready
    <3> QED
      BY <1>1, <1>2, <2>6, <2>9, <2>10, <2>11, <2>12, <3>1, NamesDirectory
  <2>14. Ended(s.v, t.v, M, L, {dir}, tight)
    <3>1. \A j \in s.v[InodeMap] \ {dir} : j \in t.v[InodeMap] /\ InodeIn(t.v, j).kind = InodeIn(s.v, j).kind
      BY <1>1, <1>2, <2>9, <2>12 DEF Alike
    <3>2. \A j \in s.v[InodeMap] \ {dir} : L[j] = M[j]
      BY <1>1, <1>5, <2>8
    <3> QED
      BY <2>6, <2>8, <2>13, <3>1, <3>2 DEF Ended
  <2> QED
    BY <2>6, <2>8, <2>14, EndedWith
<1> QED
  BY <1>7, <1>8

LEMMA CreateDirectoryDoes ==
    ASSUME VolumeAssumption, NEW s, NEW dir, NEW M, NEW tight, Ready(s, dir, M, tight), NEW n \in Name,
           Look(s.v, dir, n) = 0, NEW t, t = CreateDirectory(s, dir, n)
    PROVE  EndedIn(s, t, dir, M, tight)
<1>1. PICK a : a = AllocateInode(s, TRUE)
  OBVIOUS
<1>2. /\ a.ok => NewlyTaken(s, a, M, tight, a.got, IF TRUE THEN 1 ELSE 0)
      /\ ~a.ok => Sane(a) /\ a.v = s.v /\ a.i = s.i
  BY <1>1, AllocateInodeDoes
<1>3. CASE ~a.ok
  <2>1. t = a
    BY <1>1, <1>3 DEF CreateDirectory
  <2> QED
    BY <1>2, <1>3, <2>1, NotBegun
<1>4. CASE a.ok
  <2>1. PICK i : i = a.got
    OBVIOUS
  <2>2. PICK b : b = AllocateBlock(a)
    OBVIOUS
  <2>3. t = PutDirectory(b, i, dir, n)
    BY <1>1, <1>4, <2>1, <2>2 DEF CreateDirectory
  <2>4. DirectoryBegun(s, a, i, M, tight)
    <3>1. NewlyTaken(s, a, M, tight, i, 1)
      BY <1>2, <1>4, <2>1
    <3>2. Formed(a.v) /\ i \in Inode
      BY <3>1, SaneIsFormed DEF NewlyTaken
    <3>3. \A m \in Name : Look(a.v, i, m) = 0
      <4>1. PICK r \in InodeRecord : r = InodeIn(a.v, i)
        BY <3>2, FormedIs
      <4>2. r.size = 0
        BY <3>1, <4>1 DEF NewlyTaken
      <4> QED
        BY <4>1, <4>2, NothingIn DEF Look
    <3> QED
      BY <3>1, <3>2, <3>3 DEF NewlyTaken, DirectoryBegun
  <2>5. Sane(a) /\ a.i = s.i
    BY <2>4 DEF DirectoryBegun
  <2>6. /\ Sane(b) /\ b.i = a.i
        /\ ~b.ok => b.v = a.v
    BY <2>2, <2>5, BlockIsTaken
  <2>7. CASE ~b.ok
    <3>1. t = b
      BY <2>3, <2>7 DEF PutDirectory
    <3> QED
      BY <2>4, <2>5, <2>6, <2>7, <3>1, DirectoryFails
  <2>8. CASE b.ok
    <3>1. PICK c : c = Put(b, Area(b.got), Names(NoNames))
      OBVIOUS
    <3>2. PICK q : q = [NewInode("dir", 2) EXCEPT !.size = 1, !.direct = b.got]
      OBVIOUS
    <3>3. PICK d : d = WriteInode(c, i, q)
      OBVIOUS
    <3>4. PICK e : e = Insert(d, dir, n, i)
      OBVIOUS
    <3>5. t = ParentRaised(e, dir)
      BY <2>3, <2>8, <3>1, <3>2, <3>3, <3>4 DEF PutDirectory
    <3>6. DirectoryWrites(a, M, tight, i, b, c, q, d)
      BY <2>2, <2>4, <2>8, <3>1, <3>2, <3>3 DEF DirectoryWrites, DirectoryBegun
    <3>7. /\ NewlyWritten(s, d, M, tight, i, q) /\ q.kind = "dir" /\ q.links = 2
          /\ d.v[Group].directories = s.v[Group].directories + 1
      BY <2>4, <3>6, DirectoryWritten
    <3> QED
      BY <3>4, <3>5, <3>7, DirectoryEnds
  <2> QED
    BY <2>7, <2>8
<1> QED
  BY <1>3, <1>4

(* Ext2Link: of a file that is named already.                              *)
Linked(s, t, dir, i, M, tight) ==
    /\ Sane(t) /\ t.i.kind = "dir" /\ i # dir /\ i \in t.v[InodeMap] /\ InodeIn(t.v, i).kind = "file"
    /\ \E K : /\ Ended(s.v, t.v, M, K, {dir, i}, tight /\ t.ok) /\ K[dir] = t.i
              /\ K[i] = IF t.ok THEN [M[i] EXCEPT !.links = @ + 1] ELSE M[i]
LEMMA LinkToDoes ==
    ASSUME VolumeAssumption, NEW s, NEW dir, NEW M, NEW tight, Ready(s, dir, M, tight), NEW n \in Name,
           Look(s.v, dir, n) = 0, NEW i \in Reached(Entries(s.v)), M[i].kind = "file",
           NEW t, t = LinkTo(s, dir, n, i, M[i])
    PROVE  Linked(s, t, dir, i, M, tight)
<1>1. /\ Sane(s) /\ Formed(s.v) /\ s.ok /\ s.i \in InodeRecord /\ s.i.kind = "dir" /\ dir \in Inode /\ dir \in s.v[InodeMap]
      /\ s.v[InodeMap] \subseteq Inode /\ Sturdy(s.v, M, tight) /\ M \in [Inode -> InodeRecord] /\ M[dir] = s.i
      /\ InodeIn(s.v, dir).kind = "dir" /\ InodeIn(s.v, dir).links = s.i.links
  BY ReadyIs
<1>2. NamesHold(s.v, tight) /\ dir \in Directories(s.v) /\ Firm(s, dir, M, tight)
  BY DEF Ready
<1>3. i \in s.v[InodeMap] /\ i \in Inode
  <2>1. Reached(Entries(s.v)) \subseteq s.v[InodeMap]
    BY <1>1, <1>2, NamesTold
  <2> QED
    BY <1>1, <2>1
<1>4. InodeIn(s.v, i).kind = "file" /\ InodeIn(s.v, i).links = M[i].links /\ i # dir
  BY <1>1, <1>3 DEF Sturdy, Tallies, Behind, SameShape
<1>5. i \in Inode \ Directories(s.v)
  BY <1>3, <1>4, DirectoriesAre
<1>6. PICK e : e = Insert(s, dir, n, i)
  OBVIOUS
<1>7. /\ Firm(e, dir, With(M, dir, e.i), tight /\ e.ok) /\ Inserted(s, e, dir, n, i)
      /\ Alike(s.v, e.v, {dir}) /\ InodesKept(s.v, e.v)
  <2>1. dir \in s.v[InodeMap] /\ i \in Inode /\ s.ok /\ s.i.kind = "dir"
    BY <1>1, <1>3
  <2>2. Look(s.v, dir, n) = 0 /\ Firm(s, dir, M, tight) /\ e = Insert(s, dir, n, i)
    BY <1>2, <1>6
  <2>3. Firm(e, dir, With(M, dir, e.i), tight /\ e.ok)
    <3>1. InsertedFirm(s, e, dir, M, tight)
      BY <2>1, <2>2, InsertDoes
    <3> QED
      BY <3>1 DEF InsertedFirm
  <2>4. Inserted(s, e, dir, n, i)
    BY <2>1, <2>2, InsertDoes
  <2>5. Alike(s.v, e.v, {dir}) /\ InodesKept(s.v, e.v)
    BY <2>1, <2>2, InsertDoes
  <2> QED
    BY <2>3, <2>4, <2>5
<1>8. Sane(e) /\ e.i \in InodeRecord /\ Formed(e.v)
  BY <1>7, FirmUnder, SaneIsFormed DEF Firm
<1>9. PICK K : K = With(M, dir, e.i) /\ K \in [Inode -> InodeRecord] /\ K[dir] = e.i /\ \A j \in Inode \ {dir} : K[j] = M[j]
  <2>1. PICK o \in InodeRecord : o = e.i
    BY <1>8
  <2>2. /\ With(M, dir, o) \in [Inode -> InodeRecord] /\ With(M, dir, o)[dir] = o
        /\ \A j \in Inode \ {dir} : With(M, dir, o)[j] = M[j]
    BY <1>1, WithIs
  <2> QED
    BY <2>1, <2>2
<1>10. /\ e.i.kind = "dir" /\ SameLinks(s.v, e.v, dir) /\ e.v[InodeMap] = s.v[InodeMap]
       /\ e.v[Group].directories = s.v[Group].directories
       /\ InodeIn(e.v, i).kind = "file" /\ K[i] = M[i]
  <2>1. InodeIn(e.v, i).kind = "file"
    BY <1>3, <1>4, <1>7 DEF Alike
  <2>2. e.i.kind = "dir" /\ SameLinks(s.v, e.v, dir)
    BY <1>1, <1>7 DEF Inserted, SameLinks
  <2> QED
    BY <1>3, <1>4, <1>7, <1>9, <2>1, <2>2 DEF InodesKept
<1>11. PICK r \in InodeRecord : r = M[i]
  BY <1>1, <1>3
<1>12. PICK q : q = [r EXCEPT !.links = @ + 1]
  OBVIOUS
<1>13. q \in InodeRecord /\ q.links = r.links + 1 /\ SameBlocks(r, q)
  <2>1. Recounted(r, q, 1)
    BY <1>12, LinksChanged
  <2> QED
    BY <2>1 DEF Recounted
<1>14. t = WriteInode(e, i, q)
  BY <1>6, <1>11, <1>12 DEF LinkTo
<1>15. CASE ~e.ok
  <2>1. t = e
    BY <1>14, <1>15 DEF WriteInode, Put
  <2>2. Sturdy(e.v, K, FALSE)
    <3>1. PICK loose : loose = (tight /\ e.ok) /\ (FALSE => loose)
      OBVIOUS
    <3>2. Sturdy(e.v, K, loose)
      BY <1>7, <1>9, <3>1 DEF Firm
    <3>3. loose = FALSE
      BY <1>15, <3>1
    <3> QED
      BY <3>2, <3>3
  <2>3. NamesHold(e.v, FALSE)
    <3>1. \A m \in Name : Look(e.v, dir, m) = Look(s.v, dir, m)
      BY <1>7, <1>15 DEF Inserted
    <3>2. Alike(s.v, e.v, {})
      BY <1>7, <1>10, <3>1 DEF Alike, SameLinks
    <3>3. NamesHold(e.v, tight)
      BY <1>1, <1>2, <1>10, <3>2, NamesStay
    <3>4. PICK loose : loose = FALSE /\ (loose => tight)
      OBVIOUS
    <3>5. NamesHold(e.v, loose)
      BY <3>3, <3>4, NamesLoose
    <3> QED
      BY <3>4, <3>5
  <2>4. Ended(s.v, e.v, M, K, {dir, i}, FALSE)
    <3>1. \A j \in s.v[InodeMap] \ {dir, i} : j \in e.v[InodeMap] /\ InodeIn(e.v, j).kind = InodeIn(s.v, j).kind /\ K[j] = M[j]
      BY <1>1, <1>7, <1>9, <1>10 DEF Alike
    <3> QED
      BY <2>2, <2>3, <3>1 DEF Ended
  <2>5. (tight /\ t.ok) = FALSE
    BY <1>15, <2>1
  <2>6. Ended(s.v, t.v, M, K, {dir, i}, tight /\ t.ok)
    BY <2>1, <2>4, <2>5
  <2> QED
    BY <1>3, <1>4, <1>8, <1>9, <1>10, <1>15, <2>1, <2>6 DEF Linked
<1>16. CASE e.ok
  <2>1. Sturdy(e.v, K, tight)
    <3>1. PICK loose : loose = (tight /\ e.ok) /\ (tight => loose)
      BY <1>16
    <3>2. Sturdy(e.v, K, loose)
      BY <1>7, <1>9, <3>1 DEF Firm
    <3> QED
      BY <3>1, <3>2, SturdyLoose
  <2>2. Sane(t) /\ Same(e, t) /\ InodeWritten(e.v, t.v, i, q)
    BY <1>3, <1>8, <1>13, <1>14, <1>16, InodeIsWritten
  <2>3. /\ Sturdy(t.v, With(K, i, q), tight) /\ Alike(e.v, t.v, {i}) /\ InodesKept(e.v, t.v)
    <3>1. Formed(t.v) /\ SameBlocks(K[i], q)
      BY <1>10, <1>11, <1>13, <2>2, SaneIsFormed
    <3> QED
      BY <1>3, <1>8, <1>13, <2>1, <2>2, <3>1, RecordWritten
  <2>4. t.ok /\ t.i = e.i /\ InodeIn(t.v, i) = q
    BY <1>16, <2>2 DEF Same, InodeWritten
  <2>5. PICK L : L = With(K, i, q) /\ L[i] = q /\ \A j \in Inode \ {i} : L[j] = K[j]
    BY <1>3, <1>9, <1>13, WithIs
  <2>6. Alike(s.v, t.v, {dir, i})
    <3>1. Alike(s.v, t.v, {dir} \cup {i})
      BY <1>7, <2>3, AlikeOn
    <3>2. {dir} \cup {i} = {dir, i}
      OBVIOUS
    <3> QED
      BY <3>1, <3>2
  <2>7. SameLinks(s.v, t.v, dir) /\ NowLeads(s.v, t.v, dir, n, i)
    <3>1. /\ InodeIn(t.v, dir).kind = InodeIn(e.v, dir).kind /\ InodeIn(t.v, dir).links = InodeIn(e.v, dir).links
          /\ \A m \in Name : Look(t.v, dir, m) = Look(e.v, dir, m)
      BY <1>1, <1>4, <2>3 DEF Alike
    <3>2. Look(e.v, dir, n) = i /\ \A m \in Name \ {n} : Look(e.v, dir, m) = Look(s.v, dir, m)
      BY <1>7, <1>16 DEF Inserted
    <3> QED
      BY <1>10, <3>1, <3>2 DEF SameLinks, NowLeads
  <2>8. t.v[InodeMap] = s.v[InodeMap] /\ t.v[Group].directories = s.v[Group].directories
    BY <1>10, <2>3 DEF InodesKept
  <2>9. q.kind = "file" /\ q.links = InodeIn(s.v, i).links + 1
    BY <1>4, <1>11, <1>13 DEF SameBlocks
  <2>10. NamesHold(t.v, tight)
    <3>1. InodeIn(t.v, i).kind # "dir" /\ InodeIn(t.v, i).links = IF i \in s.v[InodeMap] THEN InodeIn(s.v, i).links + 1 ELSE 1
      BY <1>3, <2>4, <2>9
    <3>2. t.v[InodeMap] = s.v[InodeMap] \cup {i}
      BY <1>3, <2>8
    <3> QED
      BY <1>1, <1>2, <1>5, <2>6, <2>7, <2>8, <3>1, <3>2, NamesFile
  <2>11. Ended(s.v, t.v, M, L, {dir, i}, tight)
    <3>1. \A j \in s.v[InodeMap] \ {dir, i} : j \in t.v[InodeMap] /\ InodeIn(t.v, j).kind = InodeIn(s.v, j).kind /\ L[j] = M[j]
      BY <1>1, <1>9, <2>5, <2>6, <2>8 DEF Alike
    <3> QED
      BY <2>3, <2>5, <2>10, <3>1 DEF Ended
  <2>12. Ended(s.v, t.v, M, L, {dir, i}, tight /\ t.ok)
    <3>1. PICK loose : loose = (tight /\ t.ok) /\ (loose => tight)
      OBVIOUS
    <3>2. Sturdy(t.v, L, tight) /\ NamesHold(t.v, tight)
      BY <2>11 DEF Ended
    <3>3. Sturdy(t.v, L, loose) /\ NamesHold(t.v, loose)
      BY <3>1, <3>2, SturdyLoose, NamesLoose
    <3> QED
      BY <2>11, <3>1, <3>3 DEF Ended
  <2>13. L[dir] = t.i /\ L[i] = [M[i] EXCEPT !.links = @ + 1]
    BY <1>1, <1>4, <1>9, <1>11, <1>12, <2>4, <2>5
  <2>14. t.i.kind = "dir" /\ i \in t.v[InodeMap] /\ InodeIn(t.v, i).kind = "file"
    BY <1>3, <1>10, <2>4, <2>8, <2>9
  <2> QED
    BY <1>4, <2>2, <2>4, <2>12, <2>13, <2>14 DEF Linked
<1> QED
  BY <1>15, <1>16

(* Ext2Unlink and Ext2RemoveDirectory of what is in memory as it is on the *)
(* volume: the name is taken away.                                         *)
NameOff(s, r, dir, n, i, M, tight) ==
    /\ Sane(r) /\ r.ok /\ r.i = s.i /\ Formed(r.v) /\ Sturdy(r.v, M, tight) /\ InodesKept(s.v, r.v)
    /\ Alike(s.v, r.v, {dir}) /\ NowLeads(s.v, r.v, dir, n, 0) /\ SameLinks(s.v, r.v, dir)
    /\ (\A j \in Inode : InodeIn(r.v, j) = InodeIn(s.v, j))
    /\ i \in Inode /\ i \in s.v[InodeMap] /\ i \in r.v[InodeMap] /\ dir \in Inode /\ dir \in s.v[InodeMap]
    /\ M \in [Inode -> InodeRecord] /\ M[dir] = s.i /\ s.i.kind = "dir" /\ dir \in Directories(s.v)
    /\ Lookup(s.v, s.i, n) = i /\ i # Root
LEMMA NameIsOff ==
    ASSUME VolumeAssumption, NEW s, NEW dir, NEW M, NEW tight, Ready(s, dir, M, tight), NEW n \in Name,
           NEW i, i = Look(s.v, dir, n), i # 0, NEW r, r = RemoveName(s, n)
    PROVE  NameOff(s, r, dir, n, i, M, tight)
<1>1. /\ Sane(s) /\ Formed(s.v) /\ s.ok /\ s.i \in InodeRecord /\ s.i.kind = "dir" /\ dir \in Inode /\ dir \in s.v[InodeMap]
      /\ s.v[InodeMap] \subseteq Inode /\ Sturdy(s.v, M, tight) /\ M \in [Inode -> InodeRecord] /\ M[dir] = s.i
      /\ InodeIn(s.v, dir).kind = "dir" /\ InodeIn(s.v, dir).links = s.i.links
  BY ReadyIs
<1>2. NamesHold(s.v, tight) /\ dir \in Directories(s.v) /\ Firm(s, dir, M, tight)
  BY DEF Ready
<1>3. /\ Same(s, r) /\ Firm(r, dir, M, tight) /\ NameTaken(s, r, dir, n)
      /\ Alike(s.v, r.v, {dir}) /\ InodesKept(s.v, r.v)
  BY <1>1, <1>2, RemoveNameDoes
<1>4. i \in s.v[InodeMap] /\ i # Root
  <2>1. PICK T : T = Entries(s.v)
    OBVIOUS
  <2>2. <<dir, n, i>> \in T
    BY <1>2, <2>1, EntriesAre
  <2>3. NamesStand(T, s.v[InodeMap], Directories(s.v))
    BY <1>2, <2>1 DEF NamesHold
  <2>4. <<dir, n, i>>[3] = i
    OBVIOUS
  <2> QED
    BY <2>2, <2>3, <2>4 DEF NamesStand, NamesWithin
<1>5. Lookup(s.v, s.i, n) = i
  <2>1. PICK d \in InodeRecord : d = InodeIn(s.v, dir)
    BY <1>1, FormedIs
  <2>2. Behind(s.v, d, s.i)
    BY <1>1, <2>1 DEF Sturdy, Tallies
  <2>3. Lookup(s.v, d, n) = Lookup(s.v, s.i, n)
    BY <1>1, <2>2, BehindLooks
  <2> QED
    BY <2>1, <2>3 DEF Look
<1>6. Sane(r) /\ r.ok /\ r.i = s.i /\ Formed(r.v) /\ Sturdy(r.v, M, tight)
  BY <1>1, <1>3, SaneIsFormed DEF Firm, Same
<1>7. /\ NowLeads(s.v, r.v, dir, n, 0) /\ SameLinks(s.v, r.v, dir)
      /\ (\A j \in Inode : InodeIn(r.v, j) = InodeIn(s.v, j))
  BY <1>1, <1>3 DEF NameTaken, NowLeads, SameLinks
<1>8. i \in r.v[InodeMap] /\ i \in Inode
  BY <1>1, <1>3, <1>4 DEF InodesKept
<1> QED
  BY <1>1, <1>2, <1>3, <1>4, <1>5, <1>6, <1>7, <1>8 DEF NameOff

(* What is then done to the inode i leaves the directory as it is.         *)
LEMMA NamesButIs ==
    ASSUME NEW s, NEW r, NEW dir, NEW n \in Name, NEW i, NEW M, NEW tight, NameOff(s, r, dir, n, i, M, tight),
           i # dir, i = Look(s.v, dir, n), NEW u, Alike(r.v, u, {i})
    PROVE  NamesBut(s.v, u, dir, n, i) /\ SameLinks(s.v, u, dir)
<1>1. Alike(s.v, u, {dir, i})
  <2>1. Alike(s.v, u, {dir} \cup {i})
    BY AlikeOn DEF NameOff
  <2>2. {dir} \cup {i} = {dir, i}
    OBVIOUS
  <2> QED
    BY <2>1, <2>2
<1>2. dir \in Inode /\ SameLinks(s.v, r.v, dir) /\ NowLeads(s.v, r.v, dir, n, 0) /\ i \in Inode /\ dir \in Directories(s.v)
  BY DEF NameOff
<1>3. /\ InodeIn(u, dir).kind = InodeIn(r.v, dir).kind /\ InodeIn(u, dir).links = InodeIn(r.v, dir).links
      /\ \A m \in Name : Look(u, dir, m) = Look(r.v, dir, m)
  BY <1>2 DEF Alike
<1>4. SameLinks(s.v, u, dir)
  BY <1>2, <1>3 DEF SameLinks
<1>5. NowLeads(s.v, u, dir, n, 0)
  BY <1>2, <1>3 DEF NowLeads
<1>6. InodeIn(u, dir).kind = "dir"
  BY <1>2, <1>4, DirectoriesAre DEF SameLinks
<1> QED
  BY <1>1, <1>2, <1>4, <1>5, <1>6 DEF NamesBut
LeavesOthers(s, u, dir, i, M, K, tight) ==
    /\ dir \in Inode /\ i \in Inode /\ s.v[InodeMap] \subseteq Inode
    /\ Alike(s.v, u, {dir, i}) /\ InodeIn(u, dir).kind = "dir" /\ s.v[InodeMap] \subseteq u[InodeMap] \cup {i}
    /\ i # dir /\ InodeIn(s.v, dir).kind = "dir"
    /\ (\A j \in Inode \ {i} : K[j] = M[j]) /\ Sturdy(u, K, tight) /\ NamesHold(u, tight)
LEMMA OthersEnd ==
    ASSUME NEW s, NEW u, NEW dir, NEW i, NEW M, NEW K, NEW tight, LeavesOthers(s, u, dir, i, M, K, tight)
    PROVE  Ended(s.v, u, M, K, {i}, tight)
<1>1. \A j \in s.v[InodeMap] \ {i} : j \in u[InodeMap] /\ K[j] = M[j]
  BY DEF LeavesOthers
<1>2. \A j \in s.v[InodeMap] \ {i} : InodeIn(u, j).kind = InodeIn(s.v, j).kind
  BY DEF LeavesOthers, Alike
<1> QED
  BY <1>1, <1>2 DEF LeavesOthers, Ended

(* Ext2Unlink of a file that has other names.                              *)
LEMMA UnlinkFewer ==
    ASSUME VolumeAssumption, NEW s, NEW dir, NEW M, NEW tight, Ready(s, dir, M, tight), NEW n \in Name,
           NEW i, i = Look(s.v, dir, n), NEW r, NameOff(s, r, dir, n, i, M, tight),
           InodeIn(s.v, i).kind = "file", M[i] = InodeIn(s.v, i),
           NEW q, Recounted(M[i], q, -1), q.links > 0,
           NEW a, a = HasInHand(r, q), NEW t, t = WriteInode(a, i, q)
    PROVE  Sane(t) /\ t.ok /\ \E K : Ended(s.v, t.v, M, K, {i}, tight)
<1>1. /\ Sane(r) /\ r.ok /\ Formed(r.v) /\ Sturdy(r.v, M, tight) /\ InodesKept(s.v, r.v)
      /\ i \in Inode /\ i \in s.v[InodeMap] /\ i \in r.v[InodeMap] /\ dir \in Inode
      /\ M \in [Inode -> InodeRecord] /\ InodeIn(r.v, i) = InodeIn(s.v, i) /\ dir \in Directories(s.v)
  BY DEF NameOff
<1>2. i # dir /\ i \notin Directories(s.v) /\ InodeIn(s.v, dir).kind = "dir"
  BY <1>1, DirectoriesAre
<1>3. q \in InodeRecord /\ SameBlocks(M[i], q) /\ q.links = InodeIn(s.v, i).links - 1 /\ q.kind = "file"
  <2>1. q \in InodeRecord /\ SameBlocks(M[i], q) /\ q.links = M[i].links + (-1) /\ q.kind = M[i].kind
    BY DEF Recounted, SameBlocks
  <2>2. M[i].links \in Int
    BY <1>1 DEF InodeRecord
  <2> QED
    BY <2>1, <2>2
<1>4. Sane(a) /\ a.v = r.v /\ a.ok
  BY <1>1, <1>3, InHandIs
<1>5. Sane(t) /\ Same(a, t) /\ InodeWritten(r.v, t.v, i, q)
  BY <1>1, <1>3, <1>4, InodeIsWritten
<1>6. /\ Sturdy(t.v, With(M, i, q), tight) /\ Alike(r.v, t.v, {i}) /\ InodesKept(r.v, t.v)
  BY <1>1, <1>3, <1>5, SaneIsFormed, RecordWritten
<1>7. NamesBut(s.v, t.v, dir, n, i) /\ SameLinks(s.v, t.v, dir)
  BY <1>2, <1>6, NamesButIs
<1>8. InodeIn(t.v, i) = q /\ t.v[InodeMap] = s.v[InodeMap] /\ t.v[Group].directories = s.v[Group].directories
  BY <1>1, <1>5, <1>6 DEF InodeWritten, InodesKept
<1>9. s.v[InodeMap] \subseteq Inode /\ NamesHold(s.v, tight)
  BY ReadyIs DEF Ready
<1>10. NamesHold(t.v, tight)
  <2>1. InodeIn(t.v, i).kind # "dir" /\ InodeIn(t.v, i).links = InodeIn(s.v, i).links - 1 /\ InodeIn(t.v, i).links > 0
    BY <1>3, <1>8
  <2> QED
    BY <1>2, <1>7, <1>8, <1>9, <2>1, NamesFewer
<1>11. PICK K : K = With(M, i, q) /\ \A j \in Inode \ {i} : K[j] = M[j]
  BY <1>1, <1>3, WithIs
<1>12. Ended(s.v, t.v, M, K, {i}, tight)
  <2>1. Alike(s.v, t.v, {dir, i}) /\ InodeIn(t.v, dir).kind = "dir"
    BY <1>7 DEF NamesBut
  <2>2. s.v[InodeMap] \subseteq t.v[InodeMap] \cup {i}
    BY <1>8
  <2>3. Sturdy(t.v, K, tight)
    BY <1>6, <1>11
  <2>4. LeavesOthers(s, t.v, dir, i, M, K, tight)
    BY <1>1, <1>2, <1>9, <1>10, <1>11, <2>1, <2>2, <2>3 DEF LeavesOthers
  <2> QED
    BY <2>4, OthersEnd
<1>13. t.ok
  BY <1>4, <1>5 DEF Same
<1> QED
  BY <1>5, <1>12, <1>13

(* The blocks of an inode without a name, its record and its bit.          *)
Vacated(r, q, i, c) ==
    \E a, b : /\ a = HasInHand(r, q) /\ b = TruncateToNothing(a, i)
              /\ c = WriteInode(b, i, [b.i EXCEPT !.size = 0])
LEMMA TruncatedIsSturdy ==
    ASSUME VolumeAssumption, NEW r, Sane(r), r.ok, NEW M, NEW tight, Sturdy(r.v, M, tight), NEW i \in Inode,
           M[i] = InodeIn(r.v, i), NEW q, Recounted(M[i], q, -1), NEW c, Vacated(r, q, i, c)
    PROVE  /\ Sane(c) /\ c.ok /\ Sturdy(c.v, With(M, i, c.i), tight) /\ c.i \in InodeRecord
           /\ Alike(r.v, c.v, {i}) /\ InodesKept(r.v, c.v) /\ InodeIn(c.v, i).size = 0
<1>1. q \in InodeRecord /\ SameBlocks(M[i], q) /\ Formed(r.v) /\ M \in [Inode -> InodeRecord]
  BY SaneIsFormed DEF Recounted, Sturdy
<1>0. PICK a, b : a = HasInHand(r, q) /\ b = TruncateToNothing(a, i) /\ c = WriteInode(b, i, [b.i EXCEPT !.size = 0])
  BY DEF Vacated
<1>2. Sane(a) /\ a.v = r.v /\ a.i = q /\ a.ok
  BY <1>0, <1>1, InHandIs
<1>3. PICK r0 : r0 = HasInHand(r, M[i])
  OBVIOUS
<1>4. Sane(r0) /\ r0.v = r.v /\ r0.i = M[i]
  BY <1>1, <1>3, InHandIs
<1>5. Under(r0, i, M, tight)
  <2>1. Firm(r0, i, M, tight)
    BY <1>4 DEF Firm
  <2> QED
    BY <2>1, FirmUnder
<1>6. Under(a, i, M, tight)
  <2>1. q.direct = r0.i.direct /\ q.table = r0.i.table /\ a.v = r0.v
    BY <1>1, <1>2, <1>4 DEF SameBlocks
  <2> QED
    BY <1>1, <1>2, <1>5, <2>1, ShapeChanged
<1>7. b.ok /\ Worked(a, b, i, M, tight) /\ Emptied(a, b, i)
  BY <1>0, <1>2, <1>6, TruncateDoes
<1>8. Sane(b) /\ Under(b, i, M, tight) /\ b.i \in InodeRecord
  BY <1>7 DEF Worked, Under, Sane
<1>9. PICK e \in InodeRecord : e = b.i /\ e.size = 0
  BY <1>7, <1>8 DEF Emptied
<1>10. [b.i EXCEPT !.size = 0] = e
  BY <1>9 DEF InodeRecord
<1>11. Sane(c) /\ Same(b, c) /\ InodeWritten(b.v, c.v, i, e)
  BY <1>0, <1>7, <1>8, <1>10, InodeIsWritten
<1>12. c.i = b.i /\ c.ok
  BY <1>7, <1>11 DEF Same
<1>13. Worked(b, c, i, M, tight) /\ InodeIn(c.v, i) = c.i
  <2>1. InodeWritten(b.v, c.v, i, b.i)
    BY <1>9, <1>11
  <2> QED
    BY <1>8, <1>11, <1>12, <2>1, ItselfWritten
<1>14. Worked(a, c, i, M, tight)
  BY <1>7, <1>13, WorkedOn
<1>15. Spares(r.v, c.v, i, M) /\ Books(c.v, With(M, i, c.i), tight) /\ Formed(c.v)
  BY <1>2, <1>11, <1>14, SaneIsFormed DEF Worked, Under
<1>16. tight => e.direct = 0 /\ e.table = 0
  <2>1. CASE q.size = 0
    <3>1. e = q
      BY <1>2, <1>7, <1>9, <2>1 DEF Emptied
    <3>2. Tallies(r.v, InodeIn(r.v, i), M[i], i \in r.v[InodeMap], tight)
      BY DEF Sturdy
    <3>3. M[i].size = 0 /\ q.direct = M[i].direct /\ q.table = M[i].table
      BY <1>1, <2>1 DEF SameBlocks
    <3> QED
      BY <3>1, <3>2, <3>3 DEF Tallies
  <2>2. CASE q.size # 0
    BY <1>2, <1>7, <1>9, <2>2 DEF Emptied
  <2> QED
    BY <2>1, <2>2
<1>17. Tallies(c.v, InodeIn(c.v, i), e, i \in r.v[InodeMap], tight)
  BY <1>9, <1>12, <1>13, <1>16, BehindSelf, NothingIn DEF Tallies
<1>18. Sturdy(c.v, With(M, i, e), tight) /\ Alike(r.v, c.v, {i}) /\ InodesKept(r.v, c.v)
  <2>1. Books(c.v, With(M, i, e), tight)
    BY <1>9, <1>12, <1>15
  <2> QED
    BY <1>1, <1>9, <1>15, <1>17, <2>1, SturdyAfter
<1> QED
  BY <1>9, <1>11, <1>12, <1>13, <1>18

(* Ext2Unlink and Ext2RemoveDirectory end with the inode's bit: the volume *)
(* stands, if what is free has nothing.                                    *)
Blank(r, c, i, M, N, tight) ==
    /\ Sane(c) /\ c.ok /\ i \in Inode /\ i \in r.v[InodeMap] /\ Formed(r.v)
    /\ Sturdy(r.v, M, tight) /\ Sturdy(c.v, N, tight)
    /\ Alike(r.v, c.v, {i}) /\ InodesKept(r.v, c.v) /\ InodeIn(c.v, i).size = 0
NowFree(r, c, t, i, N, tight, more) ==
    /\ Sane(t) /\ Same(c, t) /\ Sturdy(t.v, N, tight) /\ Alike(r.v, t.v, {i}) /\ InodesStay(c.v, t.v, {})
    /\ t.v[InodeMap] = r.v[InodeMap] \ {i}
    /\ t.v[Group].directories = r.v[Group].directories + more
LEMMA BitCleared ==
    ASSUME VolumeAssumption, NEW r, NEW c, NEW i, NEW M, NEW N, NEW tight, Blank(r, c, i, M, N, tight),
           NEW directory \in BOOLEAN, NEW t, t = FreeInode(c, i, directory)
    PROVE  NowFree(r, c, t, i, N, tight, IF directory THEN -1 ELSE 0)
<1>0. /\ Sane(c) /\ c.ok /\ i \in Inode /\ i \in r.v[InodeMap] /\ Formed(r.v)
      /\ Sturdy(r.v, M, tight) /\ Sturdy(c.v, N, tight)
      /\ Alike(r.v, c.v, {i}) /\ InodesKept(r.v, c.v) /\ InodeIn(c.v, i).size = 0
  BY DEF Blank
<1>1. c.v[InodeMap] = r.v[InodeMap] /\ c.v[Group].directories = r.v[Group].directories
  BY <1>0 DEF InodesKept
<1>2. PICK map : map = r.v[InodeMap] \ {i}
  OBVIOUS
<1>3. PICK more : more = IF directory THEN -1 ELSE 0
  OBVIOUS
<1>4. Sane(t) /\ Same(c, t) /\ InodesCounted(c.v, t.v, map, more)
  <2>1. i \in c.v[InodeMap]
    BY <1>0, <1>1
  <2>2. Sane(t) /\ Same(c, t) /\ InodesCounted(c.v, t.v, c.v[InodeMap] \ {i}, IF directory THEN -1 ELSE 0)
    BY <1>0, <2>1, InodeIsFreed
  <2> QED
    BY <1>1, <1>2, <1>3, <2>2
<1>5. \A j \in Inode \ map : InodeIn(c.v, j).size = 0
  <2>1. \A j \in Inode \ c.v[InodeMap] : InodeIn(c.v, j).size = 0
    BY <1>0 DEF Sturdy, Tallies
  <2> QED
    BY <1>0, <1>1, <1>2, <2>1
<1>6. Sturdy(t.v, N, tight) /\ Alike(c.v, t.v, {}) /\ InodesStay(c.v, t.v, {}) /\ t.v[InodeMap] = map
  BY <1>0, <1>4, <1>5, SaneIsFormed, MapChanged
<1>7. Alike(r.v, t.v, {i})
  <2>1. Alike(r.v, t.v, {i} \cup {})
    BY <1>0, <1>6, AlikeOn
  <2>2. {i} \cup {} = {i}
    OBVIOUS
  <2> QED
    BY <2>1, <2>2
<1>8. t.v[Group].directories = r.v[Group].directories + more
  BY <1>1, <1>4 DEF InodesCounted
<1> QED
  BY <1>2, <1>3, <1>4, <1>6, <1>7, <1>8 DEF NowFree

(* Ext2Unlink of a file's last name.                                       *)
LEMMA UnlinkLast ==
    ASSUME VolumeAssumption, NEW s, NEW dir, NEW M, NEW tight, Ready(s, dir, M, tight), NEW n \in Name,
           NEW i, i = Look(s.v, dir, n), NEW r, NameOff(s, r, dir, n, i, M, tight),
           InodeIn(s.v, i).kind = "file", M[i] = InodeIn(s.v, i),
           NEW q, Recounted(M[i], q, -1), ~(q.links > 0),
           NEW c, Vacated(r, q, i, c), NEW t, t = FreeInode(c, i, FALSE)
    PROVE  Sane(t) /\ t.ok /\ \E K : Ended(s.v, t.v, M, K, {i}, tight)
<1>1. /\ Sane(r) /\ r.ok /\ Formed(r.v) /\ Sturdy(r.v, M, tight) /\ InodesKept(s.v, r.v)
      /\ i \in Inode /\ i \in s.v[InodeMap] /\ i \in r.v[InodeMap] /\ dir \in Inode
      /\ M \in [Inode -> InodeRecord] /\ InodeIn(r.v, i) = InodeIn(s.v, i) /\ dir \in Directories(s.v)
  BY DEF NameOff
<1>2. i # dir /\ i \notin Directories(s.v) /\ InodeIn(s.v, dir).kind = "dir"
  BY <1>1, DirectoriesAre
<1>3. /\ Sane(c) /\ c.ok /\ Sturdy(c.v, With(M, i, c.i), tight) /\ c.i \in InodeRecord
      /\ Alike(r.v, c.v, {i}) /\ InodesKept(r.v, c.v) /\ InodeIn(c.v, i).size = 0
  <2>1. M[i] = InodeIn(r.v, i) /\ Recounted(M[i], q, -1)
    BY <1>1
  <2>2. Sane(r) /\ r.ok /\ Sturdy(r.v, M, tight) /\ i \in Inode
    BY <1>1
  <2> QED
    BY <2>1, <2>2, TruncatedIsSturdy
<1>4. PICK K : K = With(M, i, c.i) /\ \A j \in Inode \ {i} : K[j] = M[j]
  <2>1. PICK o \in InodeRecord : o = c.i
    BY <1>3
  <2>2. \A j \in Inode \ {i} : With(M, i, o)[j] = M[j]
    BY <1>1, WithIs
  <2> QED
    BY <2>1, <2>2
<1>5. /\ Sane(t) /\ Same(c, t) /\ Sturdy(t.v, K, tight) /\ Alike(r.v, t.v, {i})
      /\ t.v[InodeMap] = r.v[InodeMap] \ {i}
      /\ t.v[Group].directories = r.v[Group].directories + 0
  <2>1. Sturdy(c.v, K, tight)
    BY <1>3, <1>4
  <2>2. PICK directory \in BOOLEAN : directory = FALSE
    OBVIOUS
  <2>3. t = FreeInode(c, i, directory)
    BY <2>2
  <2>4. Blank(r, c, i, M, K, tight)
    BY <1>1, <1>3, <2>1 DEF Blank
  <2>5. NowFree(r, c, t, i, K, tight, IF directory THEN -1 ELSE 0)
    BY <2>3, <2>4, BitCleared
  <2>6. (IF directory THEN -1 ELSE 0) = 0
    BY <2>2
  <2>7. NowFree(r, c, t, i, K, tight, 0)
    BY <2>5, <2>6
  <2> QED
    BY <2>7 DEF NowFree
<1>6. NamesBut(s.v, t.v, dir, n, i) /\ SameLinks(s.v, t.v, dir)
  BY <1>2, <1>5, NamesButIs
<1>7. t.v[InodeMap] = s.v[InodeMap] \ {i} /\ t.v[Group].directories = s.v[Group].directories
  <2>1. r.v[Group].directories = s.v[Group].directories /\ r.v[InodeMap] = s.v[InodeMap]
    BY <1>1 DEF InodesKept
  <2>2. r.v[Group] \in GroupRecord
    BY <1>1 DEF Formed
  <2>3. r.v[Group].directories \in Int
    BY <2>2 DEF GroupRecord
  <2>4. r.v[Group].directories + 0 = r.v[Group].directories
    BY <2>3
  <2> QED
    BY <1>5, <2>1, <2>4
<1>8. s.v[InodeMap] \subseteq Inode /\ NamesHold(s.v, tight)
  BY ReadyIs DEF Ready
<1>9. ~(InodeIn(s.v, i).links - 1 > 0)
  <2>1. q.links = M[i].links + (-1)
    BY DEF Recounted
  <2>2. M[i].links \in Int
    BY <1>1 DEF InodeRecord
  <2>3. M[i].links + (-1) = M[i].links - 1
    BY <2>2
  <2>4. InodeIn(s.v, i).links - 1 = q.links
    BY <2>1, <2>3
  <2> QED
    BY <2>4
<1>10. NamesHold(t.v, tight)
  BY <1>2, <1>6, <1>7, <1>8, <1>9, NamesLast
<1>11. Ended(s.v, t.v, M, K, {i}, tight)
  <2>1. Alike(s.v, t.v, {dir, i}) /\ InodeIn(t.v, dir).kind = "dir"
    BY <1>6 DEF NamesBut
  <2>2. s.v[InodeMap] \subseteq t.v[InodeMap] \cup {i}
    BY <1>7
  <2>3. Sturdy(t.v, K, tight) /\ (\A j \in Inode \ {i} : K[j] = M[j]) /\ s.v[InodeMap] \subseteq Inode
    BY <1>4, <1>5, <1>8
  <2>4. LeavesOthers(s, t.v, dir, i, M, K, tight)
    BY <1>1, <1>2, <1>10, <2>1, <2>2, <2>3 DEF LeavesOthers
  <2> QED
    BY <2>4, OthersEnd
<1>12. t.ok
  BY <1>3, <1>5 DEF Same
<1> QED
  BY <1>5, <1>11, <1>12

LEMMA UnlinkNameDoes ==
    ASSUME VolumeAssumption, NEW s, NEW dir, NEW M, NEW tight, Ready(s, dir, M, tight), NEW n \in Name,
           NEW i, i = Look(s.v, dir, n), i # 0, InodeIn(s.v, i).kind = "file", M[i] = InodeIn(s.v, i),
           NEW t, t = UnlinkName(s, n)
    PROVE  Sane(t) /\ t.ok /\ \E K : Ended(s.v, t.v, M, K, {i}, tight)
<1>1. PICK r : r = RemoveName(s, n)
  OBVIOUS
<1>2. NameOff(s, r, dir, n, i, M, tight)
  BY <1>1, NameIsOff
<1>3. Lookup(s.v, s.i, n) = i /\ M[i] \in InodeRecord
  BY <1>2 DEF NameOff
<1>4. PICK q : q = [InodeIn(s.v, i) EXCEPT !.links = @ - 1]
  OBVIOUS
<1>5. Recounted(M[i], q, -1)
  BY <1>3, <1>4, LinksChanged
<1>6. PICK a : a = HasInHand(r, q)
  OBVIOUS
<1>7. PICK b : b = TruncateToNothing(a, i)
  OBVIOUS
<1>8. PICK c : c = WriteInode(b, i, [b.i EXCEPT !.size = 0])
  OBVIOUS
<1>9. t = IF q.links > 0 THEN WriteInode(a, i, q) ELSE FreeInode(c, i, FALSE)
  BY <1>1, <1>3, <1>4, <1>6, <1>7, <1>8 DEF UnlinkName, HasInHand
<1>10. CASE q.links > 0
  <2>1. t = WriteInode(a, i, q)
    BY <1>9, <1>10
  <2> QED
    BY <1>2, <1>5, <1>6, <1>10, <2>1, UnlinkFewer
<1>11. CASE ~(q.links > 0)
  <2>1. t = FreeInode(c, i, FALSE)
    BY <1>9, <1>11
  <2> QED
    <3>1. Vacated(r, q, i, c)
      BY <1>6, <1>7, <1>8 DEF Vacated
    <3> QED
      BY <1>2, <1>5, <1>11, <2>1, <3>1, UnlinkLast
<1> QED
  BY <1>10, <1>11

(* An inode without blocks, and without links.                             *)
LEMMA Unlinked ==
    ASSUME NEW r \in InodeRecord, r.size = 0, VolumeAssumption
    PROVE  LET q == [r EXCEPT !.size = 0, !.links = 0] IN q \in InodeRecord /\ SameBlocks(r, q)
<1>1. PICK q : q = [r EXCEPT !.size = 0, !.links = 0]
  OBVIOUS
<1>2. q \in InodeRecord
  <2>1. 0 \in 0 .. PerTable + 1 /\ 0 \in Int
    BY DEF VolumeAssumption
  <2> QED
    BY <1>1, <2>1 DEF InodeRecord
<1>3. q.kind = r.kind /\ q.size = r.size /\ q.direct = r.direct /\ q.table = r.table
  BY <1>1 DEF InodeRecord
<1> QED
  BY <1>1, <1>2, <1>3 DEF SameBlocks

(* Ext2RemoveDirectory as far as the directory itself.                     *)
DirectoryClears(s, r, dir, n, i, M, tight, a, b, c) ==
    /\ NameOff(s, r, dir, n, i, M, tight) /\ M[i] = InodeIn(s.v, i)
    /\ a = HasInHand(r, M[i]) /\ b = TruncateToNothing(a, i)
    /\ c = WriteInode(b, i, [b.i EXCEPT !.size = 0, !.links = 0])
LEMMA DirectoryIsCleared ==
    ASSUME VolumeAssumption, NEW s, NEW r, NEW dir, NEW n, NEW i, NEW M, NEW tight, NEW a, NEW b, NEW c,
           DirectoryClears(s, r, dir, n, i, M, tight, a, b, c)
    PROVE  \E K : Blank(r, c, i, M, K, tight) /\ \A j \in Inode \ {i} : K[j] = M[j]
<1>1. /\ a = HasInHand(r, M[i]) /\ b = TruncateToNothing(a, i)
      /\ c = WriteInode(b, i, [b.i EXCEPT !.size = 0, !.links = 0])
  BY DEF DirectoryClears
<1>2. /\ Sane(r) /\ r.ok /\ Formed(r.v) /\ Sturdy(r.v, M, tight)
      /\ i \in Inode /\ i \in r.v[InodeMap] /\ M \in [Inode -> InodeRecord]
  BY DEF DirectoryClears, NameOff
<1>3. Sane(a) /\ a.v = r.v /\ a.i = M[i] /\ a.ok
  BY <1>1, <1>2, InHandIs
<1>4. Firm(a, i, M, tight)
  BY <1>2, <1>3 DEF Firm
<1>5. /\ b.ok /\ Firm(b, i, With(M, i, b.i), tight) /\ Cleared(a, b, i)
      /\ Alike(r.v, b.v, {i}) /\ InodesKept(r.v, b.v)
  BY <1>1, <1>3, <1>4, ClearDoes
<1>6. Sane(b) /\ Formed(b.v)
  BY <1>5, SaneIsFormed DEF Firm
<1>7. PICK o \in InodeRecord : o = b.i /\ o.size = 0
  BY <1>5, <1>6 DEF Sane, Cleared
<1>8. PICK q \in InodeRecord : q = [b.i EXCEPT !.size = 0, !.links = 0] /\ SameBlocks(o, q)
  BY <1>7, Unlinked
<1>9. PICK N : N = With(M, i, o) /\ N \in [Inode -> InodeRecord] /\ N[i] = o /\ \A j \in Inode \ {i} : N[j] = M[j]
  BY <1>2, WithIs
<1>10. Sturdy(b.v, N, tight)
  BY <1>5, <1>7, <1>9 DEF Firm
<1>11. Sane(c) /\ Same(b, c) /\ InodeWritten(b.v, c.v, i, q)
  BY <1>1, <1>2, <1>5, <1>6, <1>8, InodeIsWritten
<1>12. Sturdy(c.v, With(N, i, q), tight) /\ Alike(b.v, c.v, {i}) /\ InodesKept(b.v, c.v)
  <2>1. Formed(b.v) /\ Formed(c.v) /\ i \in Inode
    BY <1>2, <1>6, <1>11, SaneIsFormed
  <2>2. q \in InodeRecord /\ SameBlocks(N[i], q) /\ InodeWritten(b.v, c.v, i, q)
    BY <1>8, <1>9, <1>11
  <2> QED
    BY <1>10, <2>1, <2>2, RecordWritten
<1>13. PICK K : K = With(N, i, q) /\ \A j \in Inode \ {i} : K[j] = N[j]
  BY <1>2, <1>9, WithIs
<1>14. Alike(r.v, c.v, {i})
  <2>1. Alike(r.v, c.v, {i} \cup {i})
    BY <1>5, <1>12, AlikeOn
  <2>2. {i} \cup {i} = {i}
    OBVIOUS
  <2> QED
    BY <2>1, <2>2
<1>15. InodesKept(r.v, c.v)
  BY <1>5, <1>12 DEF InodesKept
<1>16. InodeIn(c.v, i).size = 0 /\ c.ok
  <2>1. InodeIn(c.v, i) = q /\ c.ok
    BY <1>5, <1>11 DEF InodeWritten, Same
  <2> QED
    BY <1>7, <1>8, <2>1 DEF SameBlocks
<1>17. Blank(r, c, i, M, K, tight)
  BY <1>2, <1>11, <1>12, <1>13, <1>14, <1>15, <1>16 DEF Blank
<1> QED
  BY <1>9, <1>13, <1>17

(* The parent is counted down.                                             *)
LEMMA DirectoryGone ==
    ASSUME VolumeAssumption, NEW s, NEW dir, NEW M, NEW tight, Ready(s, dir, M, tight), NEW n \in Name,
           NEW i, i = Look(s.v, dir, n), i # dir, NEW r, NameOff(s, r, dir, n, i, M, tight),
           i \in Directories(s.v), \A m \in Name : Look(s.v, i, m) = 0,
           NEW b, NEW c, NEW K, NowFree(r, b, c, i, K, tight, -1), c.ok, K \in [Inode -> InodeRecord],
           \A j \in Inode \ {i} : K[j] = M[j],
           NEW e, e = HasInHand(c, s.i), NEW t, t = ParentLowered(e, dir)
    PROVE  /\ Sane(t) /\ t.ok /\ t.i.kind = "dir"
           /\ \E N : Ended(s.v, t.v, M, N, {dir, i}, tight) /\ N[dir] = t.i
<1>1. /\ M[dir] = s.i /\ s.i.kind = "dir" /\ dir \in Inode /\ dir \in s.v[InodeMap] /\ s.v[InodeMap] \subseteq Inode
      /\ InodeIn(s.v, dir).links = s.i.links /\ s.i \in InodeRecord
  BY ReadyIs
<1>2. i \in Inode /\ InodesKept(s.v, r.v) /\ Formed(r.v)
  BY DEF NameOff
<1>3. /\ Sane(c) /\ Sturdy(c.v, K, tight) /\ Alike(r.v, c.v, {i}) /\ c.v[InodeMap] = r.v[InodeMap] \ {i}
      /\ c.v[Group].directories = r.v[Group].directories + (-1)
  BY DEF NowFree
<1>4. Sane(e) /\ e.v = c.v /\ e.i = s.i /\ e.ok
  BY <1>1, <1>3, InHandIs
<1>5. K[dir] = e.i
  BY <1>1, <1>4
<1>6. PICK q : q = [e.i EXCEPT !.links = @ - 1]
  OBVIOUS
<1>7. PICK f : f = WriteInode(e, dir, q)
  OBVIOUS
<1>8. t = HasInHand(f, q)
  BY <1>4, <1>6, <1>7 DEF ParentLowered, HasInHand
<1>9. Recounted(e.i, q, -1)
  BY <1>1, <1>4, <1>6, LinksChanged
<1>10. LinksRecounted(e, t, q, dir, K, tight)
  <2>1. Sturdy(e.v, K, tight)
    BY <1>3, <1>4
  <2> QED
    BY <1>1, <1>4, <1>5, <1>7, <1>8, <1>9, <2>1, ParentCounted
<1>11. /\ Sane(t) /\ t.ok /\ t.i = q /\ Sturdy(t.v, With(K, dir, q), tight) /\ Alike(c.v, t.v, {dir})
       /\ InodesKept(c.v, t.v) /\ (\A m \in Name : Look(t.v, dir, m) = Look(c.v, dir, m)) /\ InodeIn(t.v, dir) = q
  BY <1>4, <1>10 DEF LinksRecounted
<1>12. q \in InodeRecord /\ q.kind = "dir" /\ q.links = InodeIn(s.v, dir).links - 1
  <2>1. q \in InodeRecord /\ q.links = s.i.links + (-1) /\ q.kind = s.i.kind
    BY <1>4, <1>9 DEF Recounted, SameBlocks
  <2>2. s.i.links \in Int
    BY <1>1 DEF InodeRecord
  <2> QED
    BY <1>1, <2>1, <2>2
<1>13. NamesBut(s.v, c.v, dir, n, i)
  BY <1>3, NamesButIs
<1>14. NamesBut(s.v, t.v, dir, n, i)
  <2>1. /\ dir \in Directories(s.v) /\ Look(s.v, dir, n) = i /\ NowLeads(s.v, c.v, dir, n, 0) /\ Alike(s.v, c.v, {dir, i})
    BY <1>13 DEF NamesBut
  <2>2. Alike(s.v, t.v, {dir, i})
    <3>1. Alike(s.v, t.v, {dir, i} \cup {dir})
      BY <1>11, <2>1, AlikeOn
    <3>2. {dir, i} \cup {dir} = {dir, i}
      OBVIOUS
    <3> QED
      BY <3>1, <3>2
  <2>3. NowLeads(s.v, t.v, dir, n, 0)
    BY <1>11, <2>1 DEF NowLeads
  <2>4. InodeIn(t.v, dir).kind = "dir"
    BY <1>11, <1>12
  <2> QED
    BY <1>2, <2>1, <2>2, <2>3, <2>4 DEF NamesBut
<1>15. t.v[InodeMap] = s.v[InodeMap] \ {i} /\ t.v[Group].directories = s.v[Group].directories - 1
  <2>1. r.v[InodeMap] = s.v[InodeMap] /\ r.v[Group].directories = s.v[Group].directories
    BY <1>2 DEF InodesKept
  <2>2. t.v[InodeMap] = c.v[InodeMap] /\ t.v[Group].directories = c.v[Group].directories
    BY <1>11 DEF InodesKept
  <2>3. r.v[Group] \in GroupRecord
    BY <1>2 DEF Formed
  <2>4. r.v[Group].directories \in Int
    BY <2>3 DEF GroupRecord
  <2>5. r.v[Group].directories + (-1) = r.v[Group].directories - 1
    BY <2>4
  <2> QED
    BY <1>3, <2>1, <2>2, <2>5
<1>16. NamesHold(t.v, tight)
  <2>1. NamesHold(s.v, tight) /\ dir \in Reached(Entries(s.v))
    BY DEF Ready
  <2>2. InodeIn(t.v, dir).links = InodeIn(s.v, dir).links - 1
    BY <1>11, <1>12
  <2> QED
    BY <1>1, <1>14, <1>15, <2>1, <2>2, NamesEmptied
<1>17. PICK N : N = With(K, dir, q) /\ N[dir] = q /\ \A j \in Inode \ {dir} : N[j] = K[j]
  BY <1>1, <1>12, WithIs
<1>18. Ended(s.v, t.v, M, N, {dir, i}, tight)
  <2>1. Sturdy(t.v, N, tight) /\ NamesHold(t.v, tight)
    BY <1>11, <1>16, <1>17
  <2>2. \A j \in s.v[InodeMap] \ {dir, i} : j \in t.v[InodeMap] /\ N[j] = M[j]
    BY <1>1, <1>15, <1>17
  <2>3. \A j \in s.v[InodeMap] \ {dir, i} : InodeIn(t.v, j).kind = InodeIn(s.v, j).kind
    BY <1>1, <1>14 DEF NamesBut, Alike
  <2> QED
    BY <2>1, <2>2, <2>3 DEF Ended
<1> QED
  BY <1>11, <1>12, <1>17, <1>18

(* Ext2RemoveDirectory.                                                    *)
LEMMA RemoveDirectoryDoes ==
    ASSUME VolumeAssumption, NEW s, NEW dir, NEW M, NEW tight, Ready(s, dir, M, tight), NEW n \in Name,
           NEW i, i = Look(s.v, dir, n), i # 0, InodeIn(s.v, i).kind = "dir", \A m \in Name : Look(s.v, i, m) = 0,
           M[i] = InodeIn(s.v, i), NEW t, t = RemoveDirectory(s, dir, n)
    PROVE  /\ Sane(t) /\ t.ok /\ t.i.kind = "dir"
           /\ \E N : Ended(s.v, t.v, M, N, {dir, i}, tight) /\ N[dir] = t.i
<1>1. PICK r : r = RemoveName(s, n)
  OBVIOUS
<1>2. NameOff(s, r, dir, n, i, M, tight)
  BY <1>1, NameIsOff
<1>3. Lookup(s.v, s.i, n) = i /\ i \in s.v[InodeMap]
  BY <1>2 DEF NameOff
<1>4. i \in Directories(s.v) /\ i # dir
  BY <1>3, DirectoriesAre
<1>5. PICK a : a = HasInHand(r, M[i])
  OBVIOUS
<1>6. PICK b : b = TruncateToNothing(a, i)
  OBVIOUS
<1>7. PICK c : c = WriteInode(b, i, [b.i EXCEPT !.size = 0, !.links = 0])
  OBVIOUS
<1>8. PICK d : d = FreeInode(c, i, TRUE)
  OBVIOUS
<1>9. PICK e : e = HasInHand(d, s.i)
  OBVIOUS
<1>10. t = ParentLowered(e, dir)
  BY <1>1, <1>3, <1>5, <1>6, <1>7, <1>8, <1>9 DEF RemoveDirectory, HasInHand
<1>11. DirectoryClears(s, r, dir, n, i, M, tight, a, b, c)
  BY <1>2, <1>5, <1>6, <1>7 DEF DirectoryClears
<1>12. PICK K : Blank(r, c, i, M, K, tight) /\ \A j \in Inode \ {i} : K[j] = M[j]
  BY <1>11, DirectoryIsCleared
<1>13. NowFree(r, c, d, i, K, tight, -1)
  <2>1. PICK directory \in BOOLEAN : directory = TRUE
    OBVIOUS
  <2>2. NowFree(r, c, d, i, K, tight, IF directory THEN -1 ELSE 0)
    BY <1>8, <1>12, <2>1, BitCleared
  <2>3. (IF directory THEN -1 ELSE 0) = -1
    BY <2>1
  <2> QED
    BY <2>2, <2>3
<1>14. d.ok /\ K \in [Inode -> InodeRecord]
  BY <1>12, <1>13 DEF Blank, NowFree, Same, Sturdy
<1> QED
  BY <1>2, <1>4, <1>9, <1>10, <1>12, <1>13, <1>14, DirectoryGone

(* What is in a file altered: Ext2TruncateFile and Ext2WriteFile.          *)
FileLeft(s, t, i, M, loose) ==
    /\ Sane(t) /\ i \in t.v[InodeMap] /\ InodeIn(t.v, i).kind = "file" /\ t.i.kind = "file"
    /\ \E K : Ended(s.v, t.v, M, K, {i}, loose) /\ K[i] = t.i
FileEnded(s, t, i, M, tight) == FileLeft(s, t, i, M, tight /\ t.ok)
FileAtHand(s, i, M, tight) ==
    Firm(s, i, M, tight) /\ s.ok /\ NamesHold(s.v, tight) /\ s.i.kind = "file" /\ i \in s.v[InodeMap]
LEMMA FileAtHandIs ==
    ASSUME NEW s, NEW i, NEW M, NEW tight, FileAtHand(s, i, M, tight)
    PROVE  /\ Sane(s) /\ Formed(s.v) /\ s.v[InodeMap] \subseteq Inode /\ i \in Inode /\ i \in s.v[InodeMap]
           /\ M \in [Inode -> InodeRecord] /\ s.i.kind = "file"
           /\ InodeIn(s.v, i).kind = "file" /\ InodeIn(s.v, i).links = s.i.links
<1>1. Firm(s, i, M, tight) /\ s.i.kind = "file" /\ i \in s.v[InodeMap]
  BY DEF FileAtHand
<1>2. /\ Sane(s) /\ Formed(s.v) /\ i \in Inode /\ M \in [Inode -> InodeRecord]
      /\ Tallies(s.v, InodeIn(s.v, i), s.i, i \in s.v[InodeMap], tight)
  BY <1>1, FirmUnder
<1>3. InodeIn(s.v, i).kind = s.i.kind /\ InodeIn(s.v, i).links = s.i.links
  BY <1>2 DEF Tallies, Behind, SameShape
<1> QED
  BY <1>1, <1>2, <1>3 DEF Formed

LEMMA FileAltered ==
    ASSUME NEW s, NEW i, NEW M, NEW tight, FileAtHand(s, i, M, tight),
           NEW t, NEW loose, loose => tight, Altered(s, t, i, M, loose)
    PROVE  FileLeft(s, t, i, M, loose)
<1>1. /\ Sane(s) /\ s.v[InodeMap] \subseteq Inode /\ i \in Inode /\ i \in s.v[InodeMap] /\ s.i.kind = "file"
      /\ M \in [Inode -> InodeRecord] /\ InodeIn(s.v, i).kind = "file" /\ InodeIn(s.v, i).links = s.i.links
  BY FileAtHandIs
<1>0. /\ Firm(t, i, With(M, i, t.i), loose) /\ SameHead(s, t, i)
      /\ Alike(s.v, t.v, {i}) /\ InodesKept(s.v, t.v)
  BY DEF Altered
<1>2. Sane(t)
  BY <1>0 DEF Firm
<1>3. PICK o \in InodeRecord : o = t.i
  BY <1>2 DEF Sane
<1>4. PICK K : K = With(M, i, o) /\ K[i] = o /\ \A j \in Inode \ {i} : K[j] = M[j]
  BY <1>1, WithIs
<1>5. Sturdy(t.v, K, loose)
  BY <1>0, <1>3, <1>4 DEF Firm
<1>6. t.v[InodeMap] = s.v[InodeMap] /\ t.v[Group].directories = s.v[Group].directories
  BY <1>0 DEF InodesKept
<1>7. SameLinks(s.v, t.v, i) /\ t.i.kind = "file" /\ InodeIn(t.v, i).kind = "file"
  BY <1>0, <1>1 DEF SameHead, SameLinks
<1>8. NamesHold(t.v, loose)
  <2>1. NamesHold(s.v, tight)
    BY DEF FileAtHand
  <2>2. i \in Inode \ Directories(s.v)
    BY <1>1, DirectoriesAre
  <2>3. NamesHold(t.v, tight)
    BY <1>0, <1>1, <1>6, <1>7, <2>1, <2>2, NamesAside
  <2> QED
    BY <2>3, NamesLoose
<1>9. \A j \in s.v[InodeMap] \ {i} : j \in t.v[InodeMap] /\ InodeIn(t.v, j).kind = InodeIn(s.v, j).kind /\ K[j] = M[j]
  BY <1>0, <1>1, <1>4, <1>6 DEF Alike
<1>10. Ended(s.v, t.v, M, K, {i}, loose)
  BY <1>5, <1>8, <1>9 DEF Ended
<1> QED
  BY <1>1, <1>2, <1>3, <1>4, <1>6, <1>7, <1>10 DEF FileLeft

LEMMA TruncateFileDoes ==
    ASSUME VolumeAssumption, NEW s, NEW i, NEW M, NEW tight, FileAtHand(s, i, M, tight),
           NEW t, t = TruncateToNothing(s, i)
    PROVE  FileEnded(s, t, i, M, tight) /\ t.ok
<1>1. Firm(s, i, M, tight) /\ s.ok
  BY DEF FileAtHand
<1>2. /\ t.ok /\ Firm(t, i, With(M, i, t.i), tight) /\ Cleared(s, t, i)
      /\ Alike(s.v, t.v, {i}) /\ InodesKept(s.v, t.v)
  BY <1>1, ClearDoes
<1>3. SameHead(s, t, i)
  BY <1>2 DEF Cleared, SameHead
<1>4. PICK loose : loose = (tight /\ t.ok)
  OBVIOUS
<1>5. Firm(t, i, With(M, i, t.i), loose) /\ (loose => tight)
  <2>1. loose => tight
    BY <1>4
  <2>2. Sturdy(t.v, With(M, i, t.i), loose)
    BY <1>2, <2>1, SturdyLoose DEF Firm
  <2> QED
    BY <1>2, <2>1, <2>2 DEF Firm
<1>6. FileLeft(s, t, i, M, loose)
  <2>1. Altered(s, t, i, M, loose)
    BY <1>2, <1>3, <1>5 DEF Altered
  <2> QED
    BY <1>5, <2>1, FileAltered
<1> QED
  BY <1>2, <1>4, <1>6 DEF FileEnded

LEMMA WriteFileDoes ==
    ASSUME VolumeAssumption, NEW s, NEW i, NEW M, NEW tight, FileAtHand(s, i, M, tight),
           NEW index \in Indices, NEW count \in 1 .. 2, index + count <= PerTable + 1,
           NEW t, t = WriteBlocks(s, i, index, count)
    PROVE  FileEnded(s, t, i, M, tight)
<1>1. Firm(s, i, M, tight) /\ s.ok /\ s.i.kind = "file" /\ i \in s.v[InodeMap]
  BY DEF FileAtHand
<1>2. Filled(s, t, i, M, tight)
  BY <1>1, FillDoes
<1>3. PICK loose : loose = (tight /\ t.ok) /\ (loose => tight)
  OBVIOUS
<1>4. Altered(s, t, i, M, loose)
  BY <1>2, <1>3 DEF Filled
<1>5. FileLeft(s, t, i, M, loose)
  BY <1>3, <1>4, FileAltered
<1> QED
  BY <1>3, <1>5 DEF FileEnded

(* The mark altered, and nothing else.                                     *)
LEMMA MarkStands ==
    ASSUME VolumeAssumption, NEW v, Formed(v), NEW u, Formed(u), Agree(u, v), SameCounts(u[Super], v[Super]),
           NEW N, NEW tight, Sturdy(v, N, tight), NamesHold(v, tight)
    PROVE  Sturdy(u, N, tight) /\ NamesHold(u, tight)
<1>1. u[InodeMap] = v[InodeMap] /\ u[BlockMap] = v[BlockMap] /\ u[Group] = v[Group]
  BY OtherBuffers DEF Agree
<1>2. InodesCounted(v, u, v[InodeMap], 0)
  <2>1. u[Group].directories = v[Group].directories + 0
    <3>1. v[Group].directories \in Int
      BY DEF Formed, GroupRecord
    <3> QED
      BY <1>1, <3>1
  <2>2. AllBut(v, u, {Super, Group, InodeMap})
    BY DEF AllBut, Agree
  <2>3. BlocksKept(v, u) /\ (InodeCount(v) => InodeCount(u))
    BY <1>1 DEF BlocksKept, InodeCount, SameCounts
  <2> QED
    BY <1>1, <2>1, <2>2, <2>3 DEF InodesCounted
<1>3. \A j \in Inode \ v[InodeMap] : InodeIn(v, j).size = 0
  BY DEF Sturdy, Tallies
<1>4. Sturdy(u, N, tight) /\ Alike(v, u, {})
  BY <1>2, <1>3, MapChanged
<1>5. NamesHold(u, tight)
  BY <1>1, <1>4, NamesStay DEF Formed
<1> QED
  BY <1>4, <1>5
(* What names lead to is what is reached.                                  *)
LEMMA NamedAre ==
    ASSUME NEW v
    PROVE  Reached(Entries(v)) = {Root} \cup Named(v)
<1>1. ASSUME NEW i \in Named(v) PROVE i \in Reached(Entries(v))
  <2>1. PICK dir \in Directories(v), n \in Name : i = Lookup(v, InodeIn(v, dir), n)
    BY DEF Named
  <2>2. i # 0
    BY DEF Named
  <2>3. <<dir, n, i>> \in Entries(v)
    BY <2>1, <2>2, EntriesAre DEF Look
  <2>4. <<dir, n, i>>[3] = i
    OBVIOUS
  <2> QED
    BY <2>3, <2>4 DEF Reached
<1>2. ASSUME NEW i \in Reached(Entries(v)) PROVE i \in {Root} \cup Named(v)
  <2>1. CASE i = Root
    BY <2>1
  <2>2. CASE i # Root
    <3>1. PICK t \in Entries(v) : i = t[3]
      BY <2>2 DEF Reached
    <3>2. t[1] \in Directories(v) /\ t[2] \in Name /\ t[3] = Lookup(v, InodeIn(v, t[1]), t[2]) /\ t[3] # 0
      BY <3>1, EntriesAre DEF Look
    <3> QED
      BY <3>1, <3>2 DEF Named
  <2> QED
    BY <2>1, <2>2
<1>3. Root \in Reached(Entries(v))
  BY DEF Reached
<1>4. \A i : i \in Reached(Entries(v)) <=> i \in {Root} \cup Named(v)
  BY <1>1, <1>2, <1>3
<1> QED
  BY <1>4

(***************************************************************************)
(* The volume mounted.                                                     *)
(***************************************************************************)
(* The inodes as the nodes h in memory have them; which nodes are held     *)
(* when the files f are open, and what files are.                          *)
Mind(v, h) == [i \in Inode |-> IF h[i] # NoInode THEN h[i] ELSE InodeIn(v, i)]
InHold(h, f) == \A i \in Inode : h[i] # NoInode <=> (i = Root \/ \E d \in Descriptor : f[d] = i)
OpenStand(v, f) ==
    \A d \in Descriptor : f[d] # 0 => f[d] \in v[InodeMap] /\ InodeIn(v, f[d]).kind = "file"
Stands(v, h, f, lost) ==
    /\ Sturdy(v, Mind(v, h), ~lost) /\ NamesHold(v, ~lost)
    /\ InHold(h, f) /\ OpenStand(v, f)
LEMMA MindIs ==
    ASSUME NEW v, Formed(v), NEW h \in [Inode -> InodeRecord]
    PROVE  /\ Mind(v, h) \in [Inode -> InodeRecord]
           /\ \A i \in Inode : Mind(v, h)[i] = IF h[i] # NoInode THEN h[i] ELSE InodeIn(v, i)
<1>1. \A i \in Inode : InodeIn(v, i) \in InodeRecord
  BY FormedIs
<1> QED
  BY <1>1 DEF Mind
(* A call has ended: what is in memory of the nodes held is as it left it. *)
LEMMA MindAfter ==
    ASSUME VolumeAssumption, NEW u, Formed(u), NEW K, NEW loose, Sturdy(u, K, loose),
           NEW k \in [Inode -> InodeRecord],
           \A j \in Inode : k[j] # NoInode => k[j] = K[j] \/ k[j] = InodeIn(u, j)
    PROVE  Sturdy(u, Mind(u, k), loose)
<1>1. PICK N \in [Inode -> InodeRecord] : N = Mind(u, k)
  BY MindIs
<1>2. \A j \in Inode : N[j] = IF k[j] # NoInode THEN k[j] ELSE InodeIn(u, j)
  BY <1>1, MindIs
<1>3. \A j \in Inode : N[j] = K[j] \/ N[j] = InodeIn(u, j)
  BY <1>2
<1> QED
  BY <1>1, <1>3, SturdyForgot
Leaves(u, h, k, f, K, X) ==
    /\ \A d \in Descriptor : f[d] \in X => f[d] \in u[InodeMap] /\ InodeIn(u, f[d]).kind = "file"
    /\ \A j \in Inode : k[j] # NoInode <=> h[j] # NoInode
    /\ \A j \in Inode : k[j] # NoInode => k[j] = K[j] \/ (j \notin X /\ k[j] = h[j])
LEMMA HoldIs ==
    ASSUME NEW v, NEW h, NEW f, NEW lost, Stands(v, h, f, lost)
    PROVE  \A j \in Inode : h[j] # NoInode => j \in v[InodeMap]
<1>1. Root \in v[InodeMap]
  BY DEF Stands, NamesHold, NamesStand
<1> QED
  BY <1>1 DEF Stands, InHold, OpenStand, Inode
(* The files that were open stay what they were.                           *)
LEMMA StillOpen ==
    ASSUME NEW v, NEW u, NEW M, NEW K, NEW X, NEW loose, Ended(v, u, M, K, X, loose), NEW f, OpenStand(v, f),
           \A d \in Descriptor : f[d] \in X => f[d] \in u[InodeMap] /\ InodeIn(u, f[d]).kind = "file"
    PROVE  OpenStand(u, f)
<1> SUFFICES ASSUME NEW d \in Descriptor, f[d] # 0 PROVE f[d] \in u[InodeMap] /\ InodeIn(u, f[d]).kind = "file"
  BY DEF OpenStand
<1>1. f[d] \in v[InodeMap] /\ InodeIn(v, f[d]).kind = "file"
  BY DEF OpenStand
<1>2. \A j \in v[InodeMap] \ X : j \in u[InodeMap] /\ InodeIn(u, j).kind = InodeIn(v, j).kind
  BY DEF Ended
<1> QED
  BY <1>1, <1>2
(* The volume stands once a call has ended.                                *)
Keeps(u, h, k, K, X) ==
    \A j \in Inode : k[j] # NoInode => k[j] = K[j] \/ k[j] = InodeIn(u, j) \/ (j \notin X /\ k[j] = h[j] /\ h[j] # NoInode)
LEMMA EndStands ==
    ASSUME VolumeAssumption, NEW v, Formed(v), NEW u, Formed(u),
           NEW h \in [Inode -> InodeRecord], NEW k \in [Inode -> InodeRecord], NEW f, NEW lost, Stands(v, h, f, lost),
           NEW K, NEW X, NEW loose, Ended(v, u, Mind(v, h), K, X, loose), Keeps(u, h, k, K, X),
           NEW g, InHold(k, g), OpenStand(u, g), NEW gone, loose = ~gone
    PROVE  Stands(u, k, g, gone)
<1>1. \A j \in Inode : h[j] # NoInode => j \in v[InodeMap]
  BY HoldIs
<1>2. /\ Sturdy(u, K, loose) /\ NamesHold(u, loose)
      /\ \A j \in v[InodeMap] \ X : K[j] = Mind(v, h)[j]
  BY DEF Ended
<1>3. \A j \in Inode : k[j] # NoInode => k[j] = K[j] \/ k[j] = InodeIn(u, j)
  BY <1>1, <1>2, MindIs DEF Keeps
<1>4. Sturdy(u, Mind(u, k), loose)
  BY <1>2, <1>3, MindAfter
<1> QED
  BY <1>2, <1>4 DEF Stands

LEMMA CallStands ==
    ASSUME VolumeAssumption, NEW v, Formed(v), NEW u, Formed(u),
           NEW h \in [Inode -> InodeRecord], NEW k \in [Inode -> InodeRecord], NEW f, NEW lost, Stands(v, h, f, lost),
           NEW K, NEW X, NEW loose, Ended(v, u, Mind(v, h), K, X, loose), Leaves(u, h, k, f, K, X),
           NEW gone, loose = ~gone
    PROVE  Stands(u, k, f, gone)
<1>1. Keeps(u, h, k, K, X)
  BY DEF Leaves, Keeps
<1>2. InHold(k, f)
  BY DEF Stands, InHold, Leaves
<1>3. OpenStand(u, f)
  <2>1. OpenStand(v, f)
    BY DEF Stands
  <2> QED
    BY <2>1, StillOpen DEF Leaves
<1> QED
  BY <1>1, <1>2, <1>3, EndStands

(* A call begins.                                                          *)
Mounted == Stands(view, nodes, files, full)
LEMMA TypesFormed ==
    ASSUME VolumeTypeOK
    PROVE  Formed(view) /\ nodes \in [Inode -> InodeRecord] /\ files \in [Descriptor -> 0 .. Inodes]
<1>1. \A x \in Structure : MayHold(x, view[x])
  BY DEF VolumeTypeOK
<1>2. DOMAIN view = Structure
  BY DEF VolumeTypeOK
<1>3. /\ view[Super] \in SuperRecord /\ view[Group] \in GroupRecord
      /\ view[BlockMap] \subseteq DiskBlock /\ view[InodeMap] \subseteq Inode
  <2>1. Super \in Structure
    BY DEF Structure
  <2>2. MayHold(Super, view[Super]) /\ MayHold(Group, view[Group]) /\ MayHold(BlockMap, view[BlockMap])
        /\ MayHold(InodeMap, view[InodeMap])
    BY <1>1, <2>1, OtherBuffers
  <2> QED
    BY <2>2 DEF MayHold, SuperRecord, GroupRecord
<1>4. ASSUME NEW i \in Inode PROVE view[Table(i)] \in [Beside(i) -> InodeRecord] /\ InodeIn(view, i) \in InodeRecord
  <2>1. MayHold(Table(i), view[Table(i)])
    BY <1>1, OtherBuffers
  <2>2. view[Table(i)] \in [Beside(i) -> InodeRecord]
    BY <2>1 DEF MayHold
  <2> QED
    BY <2>2 DEF Beside, InodeIn
<1>5. ASSUME NEW b \in DiskBlock PROVE view[Area(b)] \in Content
  <2>1. MayHold(Area(b), view[Area(b)])
    BY <1>1, OtherBuffers
  <2> QED
    BY <2>1 DEF MayHold
<1>6. Formed(view)
  BY <1>2, <1>3, <1>4, <1>5 DEF Formed
<1> QED
  BY <1>6 DEF VolumeTypeOK

LEMMA NodeOfMind ==
    ASSUME VolumeTypeOK, NEW i \in Inode
    PROVE  Mind(view, nodes)[i] = NodeOf(i)
<1>1. Formed(view) /\ nodes \in [Inode -> InodeRecord]
  BY TypesFormed
<1> QED
  BY <1>1, MindIs DEF NodeOf

LEMMA BeginFirm ==
    ASSUME VolumeAssumption, VolumeInv, phase = "on", Mounted, NEW i \in Inode, NEW s, s = Begin(NodeOf(i))
    PROVE  /\ Firm(s, i, Mind(view, nodes), ~full) /\ s.ok /\ s.v = view /\ s.i = NodeOf(i)
           /\ NamesHold(s.v, ~full)
           /\ Behind(view, InodeIn(view, i), NodeOf(i)) /\ NodeOf(i) \in InodeRecord /\ InodeIn(view, i) \in InodeRecord
<1>1. VolumeTypeOK /\ (\A z \in maybe[Super] : ~z.valid)
  BY DEF VolumeInv, Unmarked
<1>2. NodeOf(i) \in InodeRecord /\ InodeIn(view, i) \in InodeRecord
  BY <1>1, NodeOfIs
<1>3. Sane(s) /\ s.ok /\ s.i = NodeOf(i) /\ s.v = view
  BY <1>1, <1>2, BeginIs
<1>4. Mind(view, nodes)[i] = s.i
  BY <1>1, <1>3, NodeOfMind
<1>5. Sturdy(view, Mind(view, nodes), ~full) /\ NamesHold(view, ~full)
  BY DEF Mounted, Stands
<1>6. Firm(s, i, Mind(view, nodes), ~full)
  BY <1>3, <1>4, <1>5 DEF Firm
<1>7. Behind(view, InodeIn(view, i), NodeOf(i))
  BY <1>3, <1>4, <1>5 DEF Sturdy, Tallies
<1> QED
  BY <1>2, <1>3, <1>5, <1>6, <1>7

LEMMA BeginReady ==
    ASSUME VolumeAssumption, VolumeInv, phase = "on", Mounted, NEW dir \in Inode, DirectoryNode(dir),
           NEW s, s = Begin(NodeOf(dir))
    PROVE  /\ Ready(s, dir, Mind(view, nodes), ~full) /\ s.v = view /\ s.i = NodeOf(dir)
           /\ \A n \in Name : Lookup(view, NodeOf(dir), n) = Look(view, dir, n)
<1>1. /\ Firm(s, dir, Mind(view, nodes), ~full) /\ s.ok /\ s.v = view /\ s.i = NodeOf(dir) /\ NamesHold(view, ~full)
      /\ Behind(view, InodeIn(view, dir), NodeOf(dir)) /\ NodeOf(dir) \in InodeRecord /\ InodeIn(view, dir) \in InodeRecord
  BY BeginFirm
<1>2. dir \in Reached(Entries(view)) /\ NodeOf(dir).kind = "dir"
  BY NamedAre DEF DirectoryNode
<1>3. Formed(view)
  BY TypesFormed DEF VolumeInv
<1>4. dir \in view[InodeMap]
  <2>1. PICK T : T = Entries(view)
    OBVIOUS
  <2>2. PICK D : D = Directories(view)
    OBVIOUS
  <2>3. PICK L : L = LinksOf(view)
    OBVIOUS
  <2>4. Reached(T) \subseteq view[InodeMap]
    BY <1>1, <1>3, <2>1, <2>2, <2>3, NamesTold DEF Formed
  <2> QED
    BY <1>2, <2>1, <2>4
<1>5. dir \in Directories(view)
  <2>1. InodeIn(view, dir).kind = "dir"
    BY <1>1, <1>2 DEF Behind, SameShape
  <2> QED
    BY <1>4, <2>1, DirectoriesAre
<1>6. Ready(s, dir, Mind(view, nodes), ~full)
  BY <1>1, <1>2, <1>5 DEF Ready
<1>7. \A n \in Name : Lookup(view, NodeOf(dir), n) = Look(view, dir, n)
  BY <1>1, <1>3, BehindLooks DEF Look
<1> QED
  BY <1>1, <1>6, <1>7

(***************************************************************************)
(* The calls, one by one.                                                  *)
(***************************************************************************)
LEMMA MountedIs ==
    ASSUME VolumeAssumption, VolumeInv, Mounted
    PROVE  /\ Formed(view) /\ nodes \in [Inode -> InodeRecord] /\ files \in [Descriptor -> 0 .. Inodes]
           /\ view[InodeMap] \subseteq Inode /\ full \in BOOLEAN
           /\ InHold(nodes, files) /\ OpenStand(view, files)
           /\ \A j \in Inode : nodes[j] # NoInode <=> Held(j)
           /\ \A j \in Inode : Mind(view, nodes)[j] = NodeOf(j)
           /\ \A j \in Inode : nodes[j] = NoInode => Mind(view, nodes)[j] = InodeIn(view, j)
<1>1. VolumeTypeOK
  BY DEF VolumeInv
<1>2. Formed(view) /\ nodes \in [Inode -> InodeRecord] /\ files \in [Descriptor -> 0 .. Inodes]
  BY <1>1, TypesFormed
<1>3. InHold(nodes, files) /\ OpenStand(view, files)
  BY DEF Mounted, Stands
<1>4. \A j \in Inode : nodes[j] # NoInode <=> Held(j)
  BY <1>3 DEF InHold, Held
<1>5. \A j \in Inode : Mind(view, nodes)[j] = NodeOf(j)
  BY <1>1, NodeOfMind
<1>6. \A j \in Inode : nodes[j] = NoInode => Mind(view, nodes)[j] = InodeIn(view, j)
  BY <1>2, MindIs
<1> QED
  BY <1>1, <1>2, <1>3, <1>4, <1>5, <1>6 DEF Formed, VolumeTypeOK

(* A call upon a directory that is not of any file: of the inodes X it has *)
(* altered only the directory's own can be held.                           *)
Finishing(s, dir, K, X) ==
    /\ Sane(s) /\ s.i.kind = "dir" /\ dir \in Inode /\ dir \in Directories(view)
    /\ Ended(view, s.v, Mind(view, nodes), K, X, ~full /\ s.ok) /\ K[dir] = s.i
    /\ X \subseteq Inode /\ \A j \in X : j = dir \/ nodes[j] = NoInode
LEMMA FinishStands ==
    ASSUME VolumeAssumption, VolumeInv, VolumeInv', Mounted, NEW s, NEW dir, NEW K, NEW X, Finishing(s, dir, K, X),
           Finish(s, dir), UNCHANGED files
    PROVE  Mounted'
<1>1. /\ Sane(s) /\ s.i.kind = "dir" /\ dir \in Inode /\ dir \in Directories(view)
      /\ Ended(view, s.v, Mind(view, nodes), K, X, ~full /\ s.ok) /\ K[dir] = s.i
      /\ X \subseteq Inode /\ \A j \in X : j = dir \/ nodes[j] = NoInode
  BY DEF Finishing
<1>2. /\ Formed(view) /\ nodes \in [Inode -> InodeRecord] /\ full \in BOOLEAN
      /\ InHold(nodes, files) /\ OpenStand(view, files) /\ \A j \in Inode : nodes[j] # NoInode <=> Held(j)
  BY MountedIs
<1>3. PICK loose : loose = (~full /\ s.ok)
  OBVIOUS
<1>4. loose = ~full'
  <2>1. s.ok \in BOOLEAN
    BY <1>1 DEF Sane
  <2> QED
    BY <1>2, <1>3, <2>1 DEF Finish
<1>5. PICK k \in [Inode -> InodeRecord] : k = nodes'
  BY DEF VolumeInv, VolumeTypeOK
<1>6. \A j \in Inode : k[j] = IF j = dir /\ Held(j) THEN s.i ELSE nodes[j]
  BY <1>5 DEF Finish
<1>7. s.i # NoInode
  BY <1>1 DEF NoInode, NewInode
<1>8. \A j \in Inode : k[j] # NoInode <=> nodes[j] # NoInode
  BY <1>2, <1>6, <1>7
<1>9. \A j \in Inode : k[j] # NoInode => k[j] = K[j] \/ (j \notin X /\ k[j] = nodes[j])
  BY <1>1, <1>2, <1>6, <1>7
<1>10. \A d \in Descriptor : files[d] \notin X
  <2> SUFFICES ASSUME NEW d \in Descriptor, files[d] \in X PROVE FALSE
    OBVIOUS
  <2>0. files[d] \in Inode
    BY <1>1
  <2>1. nodes[files[d]] # NoInode /\ files[d] # 0
    <3>1. nodes[files[d]] # NoInode
      BY <1>2, <2>0 DEF Held
    <3> QED
      BY <2>0, <3>1 DEF Inode
  <2>2. files[d] = dir
    BY <1>1, <2>1
  <2>3. InodeIn(view, dir).kind = "dir" /\ InodeIn(view, files[d]).kind = "file"
    BY <1>1, <1>2, <2>1, DirectoriesAre DEF OpenStand
  <2> QED
    BY <2>2, <2>3
<1>11. Leaves(s.v, nodes, k, files, K, X)
  BY <1>8, <1>9, <1>10 DEF Leaves
<1>12. Ended(view, s.v, Mind(view, nodes), K, X, loose)
  BY <1>1, <1>3
<1>13. Stands(s.v, k, files, full')
  <2>1. Stands(view, nodes, files, full)
    BY DEF Mounted
  <2>2. Formed(s.v)
    BY <1>1, SaneIsFormed
  <2> QED
    BY <1>2, <1>4, <1>11, <1>12, <2>1, <2>2, CallStands
<1> QED
  BY <1>5, <1>13 DEF Finish, Mounted

LEMMA MkdirStands ==
    ASSUME VolumeAssumption, VolumeInv, VolumeInv', Mounted, NEW dir \in Inode, NEW n \in Name, Mkdir(dir, n)
    PROVE  Mounted'
<1>1. phase = "on" /\ DirectoryNode(dir) /\ Lookup(view, NodeOf(dir), n) = 0 /\ UNCHANGED files
  BY DEF Mkdir
<1>2. PICK b : b = Begin(NodeOf(dir))
  OBVIOUS
<1>3. PICK M : M = Mind(view, nodes)
  OBVIOUS
<1>4. PICK tight : tight = ~full
  OBVIOUS
<1>5. /\ Ready(b, dir, M, tight) /\ b.v = view /\ Look(view, dir, n) = 0
  BY <1>1, <1>2, <1>3, <1>4, BeginReady
<1>6. PICK s : s = CreateDirectory(b, dir, n) /\ Finish(s, dir)
  BY <1>2 DEF Mkdir
<1>7. EndedIn(b, s, dir, M, tight)
  BY <1>5, <1>6, CreateDirectoryDoes
<1>8. PICK K : Ended(view, s.v, M, K, {dir}, tight /\ s.ok) /\ K[dir] = s.i
  BY <1>5, <1>7 DEF EndedIn
<1>9. Finishing(s, dir, K, {dir})
  <2>1. dir \in Directories(view)
    BY <1>5 DEF Ready
  <2> QED
    BY <1>3, <1>4, <1>7, <1>8, <2>1 DEF Finishing, EndedIn
<1> QED
  BY <1>1, <1>6, <1>9, FinishStands

(* What a name of a directory leads to, where no file has it open.         *)
LEMMA NotHeld ==
    ASSUME VolumeAssumption, VolumeInv, Mounted, phase = "on", NEW dir \in Inode, DirectoryNode(dir), NEW n \in Name,
           NEW i, i = Look(view, dir, n), i # 0, ~RemovalBusy(i)
    PROVE  i \in Inode /\ nodes[i] = NoInode
<1>1. PICK s : s = Begin(NodeOf(dir))
  OBVIOUS
<1>2. Ready(s, dir, Mind(view, nodes), ~full) /\ s.v = view
  BY <1>1, BeginReady
<1>3. PICK r : r = RemoveName(s, n)
  OBVIOUS
<1>4. i \in Inode /\ i # Root
  <2>1. NameOff(s, r, dir, n, i, Mind(view, nodes), ~full)
    BY <1>2, <1>3, NameIsOff
  <2> QED
    BY <2>1 DEF NameOff
<1>5. \A j \in Inode : nodes[j] # NoInode <=> Held(j)
  BY MountedIs
<1> QED
  BY <1>4, <1>5 DEF Held, RemovalBusy

LEMMA UnlinkStands ==
    ASSUME VolumeAssumption, VolumeInv, VolumeInv', Mounted, NEW dir \in Inode, NEW n \in Name, Unlink(dir, n)
    PROVE  Mounted'
<1>1. phase = "on" /\ DirectoryNode(dir) /\ UNCHANGED files
  BY DEF Unlink
<1>2. PICK b : b = Begin(NodeOf(dir))
  OBVIOUS
<1>3. PICK M : M = Mind(view, nodes)
  OBVIOUS
<1>4. PICK tight : tight = ~full
  OBVIOUS
<1>5. /\ Ready(b, dir, M, tight) /\ b.v = view /\ b.i = NodeOf(dir) /\ Look(view, dir, n) = Lookup(view, NodeOf(dir), n)
  BY <1>1, <1>2, <1>3, <1>4, BeginReady
<1>6. PICK i : i = Look(view, dir, n)
  OBVIOUS
<1>7. PICK s : s = UnlinkName(b, n)
  OBVIOUS
<1>8. PICK t : t = HasInHand(s, NodeOf(dir))
  OBVIOUS
<1>9. i # 0 /\ ~RemovalBusy(i) /\ InodeIn(view, i).kind = "file" /\ Finish(t, dir)
  BY <1>2, <1>5, <1>6, <1>7, <1>8 DEF Unlink, HasInHand
<1>10. i \in Inode /\ nodes[i] = NoInode
  BY <1>1, <1>6, <1>9, NotHeld
<1>11. M[i] = InodeIn(view, i) /\ M[dir] = NodeOf(dir) /\ NodeOf(dir) \in InodeRecord
  <2>1. NodeOf(dir) \in InodeRecord
    BY <1>5, ReadyIs
  <2> QED
    BY <1>3, <1>10, <2>1, MountedIs
<1>12. Sane(s) /\ s.ok /\ \E K : Ended(view, s.v, M, K, {i}, tight)
  BY <1>5, <1>6, <1>7, <1>9, <1>11, UnlinkNameDoes
<1>13. PICK K : Ended(view, s.v, M, K, {i}, tight)
  BY <1>12
<1>14. Sane(t) /\ t.v = s.v /\ t.i = NodeOf(dir) /\ t.ok
  BY <1>8, <1>11, <1>12, InHandIs
<1>15. dir \in Directories(view) /\ NodeOf(dir).kind = "dir" /\ dir \in view[InodeMap] /\ i # dir
  BY <1>5, <1>9, DirectoriesAre, ReadyIs DEF Ready
<1>16. K[dir] = NodeOf(dir)
  BY <1>11, <1>13, <1>15 DEF Ended
<1>17. Ended(view, t.v, Mind(view, nodes), K, {i}, ~full /\ t.ok)
  <2>1. (~full /\ t.ok) = tight
    BY <1>4, <1>14
  <2> QED
    BY <1>3, <1>13, <1>14, <2>1
<1>18. Finishing(t, dir, K, {i})
  BY <1>10, <1>14, <1>15, <1>16, <1>17 DEF Finishing
<1> QED
  BY <1>1, <1>9, <1>18, FinishStands

LEMMA RmdirStands ==
    ASSUME VolumeAssumption, VolumeInv, VolumeInv', Mounted, NEW dir \in Inode, NEW n \in Name, Rmdir(dir, n)
    PROVE  Mounted'
<1>1. phase = "on" /\ DirectoryNode(dir) /\ UNCHANGED files
  BY DEF Rmdir
<1>2. PICK b : b = Begin(NodeOf(dir))
  OBVIOUS
<1>3. PICK M : M = Mind(view, nodes)
  OBVIOUS
<1>4. PICK tight : tight = ~full
  OBVIOUS
<1>5. /\ Ready(b, dir, M, tight) /\ b.v = view /\ b.i = NodeOf(dir) /\ Look(view, dir, n) = Lookup(view, NodeOf(dir), n)
  BY <1>1, <1>2, <1>3, <1>4, BeginReady
<1>6. PICK i : i = Look(view, dir, n)
  OBVIOUS
<1>7. PICK s : s = RemoveDirectory(b, dir, n)
  OBVIOUS
<1>8. /\ i # 0 /\ ~RemovalBusy(i) /\ InodeIn(view, i).kind = "dir" /\ Finish(s, dir)
      /\ \A m \in Name : Look(view, i, m) = 0
  BY <1>2, <1>5, <1>6, <1>7 DEF Rmdir, IsEmpty, Look
<1>9. i \in Inode /\ nodes[i] = NoInode
  BY <1>1, <1>6, <1>8, NotHeld
<1>10. M[i] = InodeIn(view, i)
  BY <1>3, <1>9, MountedIs
<1>11. Sane(s) /\ s.ok /\ s.i.kind = "dir" /\ \E N : Ended(view, s.v, M, N, {dir, i}, tight) /\ N[dir] = s.i
  BY <1>5, <1>6, <1>7, <1>8, <1>10, RemoveDirectoryDoes
<1>12. PICK K : Ended(view, s.v, M, K, {dir, i}, tight) /\ K[dir] = s.i
  BY <1>11
<1>13. Ended(view, s.v, Mind(view, nodes), K, {dir, i}, ~full /\ s.ok)
  <2>1. (~full /\ s.ok) = tight
    BY <1>4, <1>11
  <2> QED
    BY <1>3, <1>12, <2>1
<1>14. Finishing(s, dir, K, {dir, i})
  <2>1. dir \in Directories(view)
    BY <1>5 DEF Ready
  <2> QED
    BY <1>9, <1>11, <1>12, <1>13, <2>1 DEF Finishing
<1> QED
  BY <1>1, <1>8, <1>14, FinishStands

(* A call has left the view and the nodes; files are open as g has them.   *)
LEMMA CallEnded ==
    ASSUME VolumeAssumption, VolumeInv, VolumeInv', Mounted, NEW s, Sane(s), view' = s.v,
           NEW K, NEW X, Ended(view, s.v, Mind(view, nodes), K, X, ~full'),
           Keeps(s.v, nodes, nodes', K, X), InHold(nodes', files'), OpenStand(s.v, files')
    PROVE  Mounted'
<1>1. Formed(view) /\ nodes \in [Inode -> InodeRecord]
  BY MountedIs
<1>2. Formed(s.v)
  BY SaneIsFormed
<1>3. Stands(view, nodes, files, full)
  BY DEF Mounted
<1>4. PICK k \in [Inode -> InodeRecord] : k = nodes'
  BY DEF VolumeInv, VolumeTypeOK
<1>5. PICK loose : loose = ~full'
  OBVIOUS
<1>6. PICK g : g = files'
  OBVIOUS
<1>7. /\ Ended(view, s.v, Mind(view, nodes), K, X, loose) /\ Keeps(s.v, nodes, k, K, X)
      /\ InHold(k, g) /\ OpenStand(s.v, g)
  BY <1>4, <1>5, <1>6
<1>8. Stands(s.v, k, g, full')
  BY <1>1, <1>2, <1>3, <1>5, <1>7, EndStands
<1> QED
  BY <1>4, <1>6, <1>8 DEF Mounted
(* The record of an inode with another link is no free inode's.            *)
LEMMA LinkedRecord ==
    ASSUME NEW r \in InodeRecord, r.kind = "file"
    PROVE  [r EXCEPT !.links = @ + 1] # NoInode
<1>1. [r EXCEPT !.links = @ + 1].kind = "file"
  BY DEF InodeRecord
<1>2. NoInode.kind = "none"
  BY DEF NoInode, NewInode
<1> QED
  BY <1>1, <1>2

LEMMA LinkStands ==
    ASSUME VolumeAssumption, VolumeInv, VolumeInv', Mounted, NEW i \in Inode, NEW dir \in Inode, NEW n \in Name,
           Link(i, dir, n)
    PROVE  Mounted'
<1>1. /\ phase = "on" /\ DirectoryNode(dir) /\ Lookup(view, NodeOf(dir), n) = 0 /\ UNCHANGED files
      /\ i \in Named(view) /\ NodeOf(i).kind = "file"
  BY DEF Link
<1>2. PICK b : b = Begin(NodeOf(dir))
  OBVIOUS
<1>3. PICK M : M = Mind(view, nodes)
  OBVIOUS
<1>4. PICK tight : tight = ~full
  OBVIOUS
<1>5. /\ Ready(b, dir, M, tight) /\ b.v = view /\ Look(view, dir, n) = 0
  BY <1>1, <1>2, <1>3, <1>4, BeginReady
<1>6. /\ nodes \in [Inode -> InodeRecord] /\ full \in BOOLEAN /\ InHold(nodes, files) /\ OpenStand(view, files)
      /\ (\A j \in Inode : nodes[j] # NoInode <=> Held(j)) /\ M[i] = NodeOf(i) /\ M[dir] = NodeOf(dir)
      /\ M \in [Inode -> InodeRecord]
  BY <1>3, MountedIs, MindIs
<1>7. PICK s : /\ s = LinkTo(b, dir, n, i, M[i]) /\ view' = s.v /\ full' = (full \/ ~s.ok)
               /\ nodes' = [j \in Inode |-> CASE j = dir /\ Held(j) -> s.i
                                              [] j = i /\ Held(j) /\ s.ok -> [nodes[j] EXCEPT !.links = @ + 1]
                                              [] OTHER -> nodes[j]]
  BY <1>2, <1>6 DEF Link
<1>8. Linked(b, s, dir, i, M, tight)
  <2>1. i \in Reached(Entries(view))
    BY <1>1, NamedAre
  <2> QED
    BY <1>1, <1>5, <1>6, <1>7, <2>1, LinkToDoes
<1>9. Sane(s) /\ s.i.kind = "dir" /\ i # dir /\ i \in s.v[InodeMap] /\ InodeIn(s.v, i).kind = "file" /\ s.ok \in BOOLEAN
  BY <1>8 DEF Linked, Sane
<1>10. PICK K : /\ Ended(view, s.v, M, K, {dir, i}, tight /\ s.ok) /\ K[dir] = s.i
                /\ K[i] = IF s.ok THEN [M[i] EXCEPT !.links = @ + 1] ELSE M[i]
  BY <1>5, <1>8 DEF Linked
<1>11. Ended(view, s.v, M, K, {dir, i}, ~full')
  <2>1. (tight /\ s.ok) = ~full'
    BY <1>4, <1>6, <1>7, <1>9
  <2> QED
    BY <1>10, <2>1
<1>12. nodes'[dir] = IF Held(dir) THEN s.i ELSE nodes[dir]
  BY <1>7, <1>9
<1>13. nodes'[i] = IF Held(i) /\ s.ok THEN [nodes[i] EXCEPT !.links = @ + 1] ELSE nodes[i]
  BY <1>7, <1>9
<1>14. \A j \in Inode \ {dir, i} : nodes'[j] = nodes[j]
  BY <1>7
<1>15. s.i # NoInode
  BY <1>9 DEF NoInode, NewInode
<1>16. Held(i) => nodes[i] = M[i] /\ nodes[i] # NoInode /\ [nodes[i] EXCEPT !.links = @ + 1] # NoInode
  <2>1. Held(i) => nodes[i] # NoInode
    BY <1>6
  <2>2. nodes[i] # NoInode => NodeOf(i) = nodes[i]
    BY DEF NodeOf
  <2>3. nodes[i].kind = "file" => [nodes[i] EXCEPT !.links = @ + 1] # NoInode
    BY <1>6, LinkedRecord
  <2> QED
    BY <1>1, <1>6, <2>1, <2>2, <2>3
<1>17. InHold(nodes', files')
  <2>1. \A j \in Inode : nodes'[j] # NoInode <=> nodes[j] # NoInode
    BY <1>6, <1>12, <1>13, <1>14, <1>15, <1>16
  <2> QED
    BY <1>1, <1>6, <2>1 DEF InHold
<1>18. Keeps(s.v, nodes, nodes', K, {dir, i})
  <2>1. nodes'[dir] # NoInode => nodes'[dir] = K[dir]
    BY <1>6, <1>10, <1>12
  <2>2. nodes'[i] # NoInode => nodes'[i] = K[i]
    BY <1>6, <1>10, <1>13, <1>16
  <2> QED
    BY <1>14, <2>1, <2>2 DEF Keeps
<1>19. OpenStand(s.v, files')
  <2>1. dir \notin {files[d] : d \in Descriptor}
    <3>1. InodeIn(view, dir).kind = "dir"
      BY <1>5, ReadyIs
    <3>2. dir # 0
      BY DEF Inode
    <3> QED
      BY <1>6, <3>1, <3>2 DEF OpenStand
  <2>2. \A d \in Descriptor : files[d] \in {dir, i} => files[d] \in s.v[InodeMap] /\ InodeIn(s.v, files[d]).kind = "file"
    BY <1>9, <2>1
  <2>3. OpenStand(s.v, files)
    BY <1>6, <1>10, <2>2, StillOpen
  <2> QED
    BY <1>1, <2>3
<1> QED
  BY <1>3, <1>7, <1>9, <1>11, <1>17, <1>18, <1>19, CallEnded

(* One more file is open.                                                  *)
OpensAt(h, k, f, g, d, i, u) ==
    /\ InHold(h, f) /\ OpenStand(u, f) /\ f[d] = 0
    /\ g[d] = i /\ (\A e \in Descriptor \ {d} : g[e] = f[e])
    /\ i \in u[InodeMap] /\ InodeIn(u, i).kind = "file"
    /\ k[i] # NoInode /\ (\A j \in Inode \ {i} : k[j] # NoInode <=> h[j] # NoInode)
LEMMA OpensOne ==
    ASSUME NEW h, NEW k, NEW f, NEW g, NEW d \in Descriptor, NEW i \in Inode, NEW u, OpensAt(h, k, f, g, d, i, u)
    PROVE  InHold(k, g) /\ OpenStand(u, g)
<1>1. /\ g[d] = i /\ (\A e \in Descriptor \ {d} : g[e] = f[e]) /\ f[d] = 0
      /\ k[i] # NoInode /\ (\A j \in Inode \ {i} : k[j] # NoInode <=> h[j] # NoInode)
  BY DEF OpensAt
<1>2. 0 \notin Inode
  BY DEF Inode
<1>3. ASSUME NEW j \in Inode PROVE k[j] # NoInode <=> (j = Root \/ \E e \in Descriptor : g[e] = j)
  <2>1. CASE j = i
    BY <1>1, <2>1
  <2>2. CASE j # i
    <3>1. k[j] # NoInode <=> (j = Root \/ \E e \in Descriptor : f[e] = j)
      BY <1>1, <2>2 DEF InHold, OpensAt
    <3>2. (\E e \in Descriptor : f[e] = j) <=> (\E e \in Descriptor : g[e] = j)
      BY <1>1, <1>2, <2>2
    <3> QED
      BY <3>1, <3>2
  <2> QED
    BY <2>1, <2>2
<1>4. OpenStand(u, g)
  BY <1>1 DEF OpenStand, OpensAt
<1> QED
  BY <1>3, <1>4 DEF InHold

LEMMA OpenedAt ==
    ASSUME NEW f \in [Descriptor -> 0 .. Inodes], NEW d \in Descriptor, NEW i \in Inode
    PROVE  [f EXCEPT ![d] = i][d] = i /\ \A e \in Descriptor \ {d} : [f EXCEPT ![d] = i][e] = f[e]
OBVIOUS

LEMMA OpenNewStands ==
    ASSUME VolumeAssumption, VolumeInv, VolumeInv', Mounted, NEW d \in Descriptor, NEW dir \in Inode, NEW n \in Name,
           OpenNew(d, dir, n)
    PROVE  Mounted'
<1>1. phase = "on" /\ DirectoryNode(dir) /\ Lookup(view, NodeOf(dir), n) = 0 /\ files[d] = 0
  BY DEF OpenNew
<1>2. PICK b : b = Begin(NodeOf(dir))
  OBVIOUS
<1>3. PICK M : M = Mind(view, nodes)
  OBVIOUS
<1>4. PICK tight : tight = ~full
  OBVIOUS
<1>5. /\ Ready(b, dir, M, tight) /\ b.v = view /\ Look(view, dir, n) = 0
  BY <1>1, <1>2, <1>3, <1>4, BeginReady
<1>6. /\ nodes \in [Inode -> InodeRecord] /\ full \in BOOLEAN /\ InHold(nodes, files) /\ OpenStand(view, files)
      /\ (\A j \in Inode : nodes[j] # NoInode <=> Held(j)) /\ files \in [Descriptor -> 0 .. Inodes]
  BY MountedIs
<1>7. PICK s : /\ s = CreateFile(b, dir, n) /\ view' = s.v /\ full' = (full \/ ~s.ok)
               /\ nodes' = [i \in Inode |-> CASE i = dir /\ Held(i) -> s.i
                                              [] s.ok /\ i = s.got -> InodeIn(s.v, i)
                                              [] OTHER -> nodes[i]]
               /\ files' = IF s.ok THEN [files EXCEPT ![d] = s.got] ELSE files
  BY <1>2 DEF OpenNew
<1>8. EndedIn(b, s, dir, M, tight) /\ CreatedIn(b, s)
  BY <1>5, <1>7, CreateFileDoes
<1>9. Sane(s) /\ s.i.kind = "dir" /\ s.ok \in BOOLEAN
  BY <1>8 DEF EndedIn, Sane
<1>10. PICK K : Ended(view, s.v, M, K, {dir}, tight /\ s.ok) /\ K[dir] = s.i
  BY <1>5, <1>8 DEF EndedIn
<1>11. Ended(view, s.v, M, K, {dir}, ~full')
  <2>1. (tight /\ s.ok) = ~full'
    BY <1>4, <1>6, <1>7, <1>9
  <2> QED
    BY <1>10, <2>1
<1>12. s.i # NoInode
  BY <1>9 DEF NoInode, NewInode
<1>13. InodeIn(view, dir).kind = "dir" /\ dir \in view[InodeMap]
  BY <1>5, ReadyIs
<1>14. \A e \in Descriptor : files[e] # dir
  <2>1. dir # 0
    BY DEF Inode
  <2> QED
    BY <1>6, <1>13, <2>1 DEF OpenStand
<1>15. OpenStand(s.v, files)
  <2>1. \A e \in Descriptor : files[e] \in {dir} => files[e] \in s.v[InodeMap] /\ InodeIn(s.v, files[e]).kind = "file"
    BY <1>14
  <2> QED
    BY <1>6, <1>10, <2>1, StillOpen
<1>16. CASE ~s.ok
  <2>1. files' = files
    BY <1>7, <1>16
  <2>2. \A j \in Inode : nodes'[j] = IF j = dir /\ Held(j) THEN s.i ELSE nodes[j]
    BY <1>7, <1>16
  <2>3. InHold(nodes', files')
    <3>1. \A j \in Inode : nodes'[j] # NoInode <=> nodes[j] # NoInode
      BY <1>6, <1>12, <2>2
    <3> QED
      BY <1>6, <2>1, <3>1 DEF InHold
  <2>4. Keeps(s.v, nodes, nodes', K, {dir})
    BY <1>6, <1>10, <1>12, <2>2 DEF Keeps
  <2>5. OpenStand(s.v, files')
    BY <1>15, <2>1
  <2> QED
    BY <1>3, <1>7, <1>9, <1>11, <2>3, <2>4, <2>5, CallEnded
<1>17. CASE s.ok
  <2>1. PICK i \in Inode : i = s.got /\ i \notin view[InodeMap] /\ i \in s.v[InodeMap] /\ InodeIn(s.v, i).kind = "file"
    BY <1>5, <1>8, <1>17 DEF CreatedIn
  <2>2. i # dir
    BY <1>13, <2>1
  <2>3. files' = [files EXCEPT ![d] = i]
    BY <1>7, <1>17, <2>1
  <2>4. nodes'[i] = InodeIn(s.v, i) /\ nodes'[i] # NoInode
    <3>1. nodes'[i] = InodeIn(s.v, i)
      BY <1>7, <1>17, <2>1, <2>2
    <3>2. InodeIn(s.v, i) # NoInode
      BY <2>1 DEF NoInode, NewInode
    <3> QED
      BY <3>1, <3>2
  <2>5. \A j \in Inode \ {i} : nodes'[j] = IF j = dir /\ Held(j) THEN s.i ELSE nodes[j]
    BY <1>7, <2>1
  <2>6. \A j \in Inode \ {i} : nodes'[j] # NoInode <=> nodes[j] # NoInode
    BY <1>6, <1>12, <2>5
  <2>7. InHold(nodes', files') /\ OpenStand(s.v, files')
    <3>1. files'[d] = i /\ \A e \in Descriptor \ {d} : files'[e] = files[e]
      BY <1>6, <2>3, OpenedAt
    <3>2. OpensAt(nodes, nodes', files, files', d, i, s.v)
      BY <1>1, <1>6, <1>15, <2>1, <2>4, <2>6, <3>1 DEF OpensAt
    <3> QED
      BY <3>2, OpensOne
  <2>8. Keeps(s.v, nodes, nodes', K, {dir})
    BY <1>6, <1>10, <1>12, <2>4, <2>5 DEF Keeps
  <2> QED
    BY <1>3, <1>7, <1>9, <1>11, <2>7, <2>8, CallEnded
<1> QED
  BY <1>9, <1>16, <1>17

(* A file that a name leads to.                                            *)
LEMMA FileFound ==
    ASSUME VolumeAssumption, VolumeInv, phase = "on", Mounted, NEW dir \in Inode, DirectoryNode(dir), NEW n \in Name,
           NEW i, i = Lookup(view, NodeOf(dir), n), i # 0
    PROVE  i \in Inode /\ i \in view[InodeMap]
<1>1. PICK b : b = Begin(NodeOf(dir))
  OBVIOUS
<1>2. Ready(b, dir, Mind(view, nodes), ~full) /\ b.v = view /\ Lookup(view, NodeOf(dir), n) = Look(view, dir, n)
  BY <1>1, BeginReady
<1>3. PICK r : r = RemoveName(b, n)
  OBVIOUS
<1>4. NameOff(b, r, dir, n, i, Mind(view, nodes), ~full)
  BY <1>2, <1>3, NameIsOff
<1> QED
  BY <1>2, <1>4 DEF NameOff
(* A file's node in memory.                                                *)
LEMMA BeginFile ==
    ASSUME VolumeAssumption, VolumeInv, phase = "on", Mounted, NEW i \in Inode, i \in view[InodeMap],
           NodeOf(i).kind = "file" \/ InodeIn(view, i).kind = "file", NEW s, s = Begin(NodeOf(i))
    PROVE  /\ FileAtHand(s, i, Mind(view, nodes), ~full) /\ s.v = view
           /\ NodeOf(i).kind = "file" /\ InodeIn(view, i).kind = "file" /\ NodeOf(i) \in InodeRecord
<1>1. /\ Firm(s, i, Mind(view, nodes), ~full) /\ s.ok /\ s.v = view /\ s.i = NodeOf(i)
      /\ NamesHold(view, ~full)
      /\ Behind(view, InodeIn(view, i), NodeOf(i)) /\ NodeOf(i) \in InodeRecord
  BY BeginFirm
<1>2. NodeOf(i).kind = "file" /\ InodeIn(view, i).kind = "file"
  BY <1>1 DEF Behind, SameShape
<1> QED
  BY <1>1, <1>2 DEF FileAtHand

LEMMA NothingEnded ==
    ASSUME VolumeAssumption, VolumeInv, Mounted
    PROVE  Ended(view, view, Mind(view, nodes), Mind(view, nodes), {}, ~full)
BY DEF Mounted, Stands, Ended

LEMMA OpenStands ==
    ASSUME VolumeAssumption, VolumeInv, VolumeInv', Mounted, NEW d \in Descriptor, NEW dir \in Inode, NEW n \in Name,
           NEW truncate \in BOOLEAN, Open(d, dir, n, truncate)
    PROVE  Mounted'
<1>1. PICK i : i = Lookup(view, NodeOf(dir), n)
  OBVIOUS
<1>2. PICK s : s = TruncateToNothing(Begin(NodeOf(i)), i)
  OBVIOUS
<1>3. /\ phase = "on" /\ DirectoryNode(dir) /\ files[d] = 0 /\ i # 0 /\ NodeOf(i).kind = "file"
      /\ files' = [files EXCEPT ![d] = i] /\ UNCHANGED full
      /\ \/ view' = s.v /\ nodes' = [nodes EXCEPT ![i] = s.i]
         \/ view' = view /\ nodes' = [nodes EXCEPT ![i] = NodeOf(i)]
  BY <1>1, <1>2 DEF Open
<1>4. i \in Inode /\ i \in view[InodeMap]
  BY <1>1, <1>3, FileFound
<1>5. PICK b : b = Begin(NodeOf(i))
  OBVIOUS
<1>6. PICK M : M = Mind(view, nodes)
  OBVIOUS
<1>7. /\ FileAtHand(b, i, M, ~full) /\ b.v = view
      /\ NodeOf(i).kind = "file" /\ InodeIn(view, i).kind = "file" /\ NodeOf(i) \in InodeRecord
  BY <1>3, <1>4, <1>5, <1>6, BeginFile
<1>8. /\ nodes \in [Inode -> InodeRecord] /\ full \in BOOLEAN /\ InHold(nodes, files) /\ OpenStand(view, files)
      /\ files \in [Descriptor -> 0 .. Inodes] /\ M[i] = NodeOf(i)
  BY <1>4, <1>6, MountedIs
<1>9. CASE view' = s.v /\ nodes' = [nodes EXCEPT ![i] = s.i]
  <2>1. FileEnded(b, s, i, M, ~full) /\ s.ok
    BY <1>2, <1>5, <1>7, TruncateFileDoes
  <2>2. FileLeft(b, s, i, M, ~full /\ s.ok)
    BY <2>1 DEF FileEnded
  <2>3. (~full /\ s.ok) = ~full'
    BY <1>3, <1>8, <2>1
  <2>4. FileLeft(b, s, i, M, ~full')
    BY <2>2, <2>3
  <2>5. Sane(s) /\ i \in s.v[InodeMap] /\ InodeIn(s.v, i).kind = "file" /\ s.i.kind = "file"
    BY <2>4 DEF FileLeft
  <2>6. PICK K : Ended(view, s.v, M, K, {i}, ~full') /\ K[i] = s.i
    BY <1>7, <2>4 DEF FileLeft
  <2>7. nodes'[i] = s.i /\ nodes'[i] # NoInode /\ \A j \in Inode \ {i} : nodes'[j] = nodes[j]
    <3>1. s.i # NoInode
      BY <2>5 DEF NoInode, NewInode
    <3> QED
      BY <1>4, <1>8, <1>9, <3>1
  <2>8. OpenStand(s.v, files)
    <3>1. \A e \in Descriptor : files[e] \in {i} => files[e] \in s.v[InodeMap] /\ InodeIn(s.v, files[e]).kind = "file"
      BY <2>5
    <3> QED
      BY <1>8, <2>6, <3>1, StillOpen
  <2>9. InHold(nodes', files') /\ OpenStand(s.v, files')
    <3>1. files'[d] = i /\ \A e \in Descriptor \ {d} : files'[e] = files[e]
      BY <1>3, <1>4, <1>8, OpenedAt
    <3>2. OpensAt(nodes, nodes', files, files', d, i, s.v)
      BY <1>3, <1>8, <2>5, <2>7, <2>8, <3>1 DEF OpensAt
    <3> QED
      BY <1>4, <3>2, OpensOne
  <2>10. Keeps(s.v, nodes, nodes', K, {i})
    BY <2>6, <2>7 DEF Keeps
  <2> QED
    BY <1>6, <1>9, <2>5, <2>6, <2>9, <2>10, CallEnded
<1>10. CASE view' = view /\ nodes' = [nodes EXCEPT ![i] = NodeOf(i)]
  <2>1. Sane(b)
    BY <1>7, FileAtHandIs
  <2>2. Ended(view, view, M, M, {}, ~full)
    BY <1>6, NothingEnded
  <2>3. Ended(view, b.v, M, M, {}, ~full')
    BY <1>3, <1>7, <2>2
  <2>4. nodes'[i] = M[i] /\ nodes'[i] # NoInode /\ \A j \in Inode \ {i} : nodes'[j] = nodes[j]
    <3>1. NodeOf(i) # NoInode
      BY <1>7 DEF NoInode, NewInode
    <3> QED
      BY <1>4, <1>8, <1>10, <3>1
  <2>5. InHold(nodes', files') /\ OpenStand(view, files')
    <3>1. files'[d] = i /\ \A e \in Descriptor \ {d} : files'[e] = files[e]
      BY <1>3, <1>4, <1>8, OpenedAt
    <3>2. OpensAt(nodes, nodes', files, files', d, i, view)
      BY <1>3, <1>4, <1>7, <1>8, <2>4, <3>1 DEF OpensAt
    <3> QED
      BY <1>4, <3>2, OpensOne
  <2>6. Keeps(b.v, nodes, nodes', M, {})
    BY <2>4 DEF Keeps
  <2>7. OpenStand(b.v, files') /\ view' = b.v
    BY <1>7, <1>10, <2>5
  <2> QED
    BY <1>6, <2>1, <2>3, <2>5, <2>6, <2>7, CallEnded
<1> QED
  BY <1>3, <1>9, <1>10

LEMMA WriteStands ==
    ASSUME VolumeAssumption, VolumeInv, VolumeInv', Mounted, NEW d \in Descriptor,
           NEW index \in 0 .. PerTable, NEW count \in 1 .. 2, Write(d, index, count)
    PROVE  Mounted'
<1>1. /\ phase = "on" /\ files[d] # 0 /\ index + count <= PerTable + 1 /\ files' = files
  BY DEF Write
<1>2. /\ nodes \in [Inode -> InodeRecord] /\ full \in BOOLEAN /\ InHold(nodes, files) /\ OpenStand(view, files)
      /\ view[InodeMap] \subseteq Inode
  BY MountedIs
<1>3. PICK i \in Inode : i = files[d] /\ i \in view[InodeMap] /\ InodeIn(view, i).kind = "file"
  BY <1>1, <1>2 DEF OpenStand
<1>4. nodes[i] # NoInode /\ NodeOf(i) = nodes[i]
  BY <1>2, <1>3 DEF InHold, NodeOf
<1>5. PICK b : b = Begin(NodeOf(i))
  OBVIOUS
<1>6. PICK M : M = Mind(view, nodes)
  OBVIOUS
<1>7. FileAtHand(b, i, M, ~full) /\ b.v = view
  BY <1>1, <1>3, <1>5, <1>6, BeginFile
<1>8. PICK s : s = WriteBlocks(b, i, index, count)
  OBVIOUS
<1>9. view' = s.v /\ full' = (full \/ ~s.ok) /\ nodes' = [nodes EXCEPT ![i] = s.i]
  <2>1. b = Begin(nodes[i])
    BY <1>4, <1>5
  <2>2. \E j \in {files[d]} : \E t \in {WriteBlocks(Begin(nodes[j]), j, index, count)} :
           view' = t.v /\ full' = (full \/ ~t.ok) /\ nodes' = [nodes EXCEPT ![j] = t.i]
    BY DEF Write
  <2>3. \E t \in {WriteBlocks(Begin(nodes[i]), i, index, count)} :
           view' = t.v /\ full' = (full \/ ~t.ok) /\ nodes' = [nodes EXCEPT ![i] = t.i]
    BY <1>3, <2>2
  <2> QED
    BY <1>8, <2>1, <2>3
<1>10. FileEnded(b, s, i, M, ~full)
  <2>1. index \in Indices
    BY DEF Indices
  <2> QED
    BY <1>1, <1>7, <1>8, <2>1, WriteFileDoes
<1>11. FileLeft(b, s, i, M, ~full /\ s.ok)
  BY <1>10 DEF FileEnded
<1>12. Sane(s) /\ i \in s.v[InodeMap] /\ InodeIn(s.v, i).kind = "file" /\ s.i.kind = "file"
  BY <1>11 DEF FileLeft
<1>13. (~full /\ s.ok) = ~full'
  <2>1. s.ok \in BOOLEAN
    BY <1>12 DEF Sane
  <2> QED
    BY <1>2, <1>9, <2>1
<1>14. PICK K : Ended(view, s.v, M, K, {i}, ~full') /\ K[i] = s.i
  BY <1>7, <1>11, <1>13 DEF FileLeft
<1>15. nodes'[i] = s.i /\ s.i # NoInode /\ \A j \in Inode \ {i} : nodes'[j] = nodes[j]
  <2>1. s.i # NoInode
    BY <1>12 DEF NoInode, NewInode
  <2> QED
    BY <1>2, <1>9, <2>1
<1>16. InHold(nodes', files')
  <2>1. \A j \in Inode : nodes'[j] # NoInode <=> nodes[j] # NoInode
    BY <1>4, <1>15
  <2> QED
    BY <1>1, <1>2, <2>1 DEF InHold
<1>17. OpenStand(s.v, files')
  <2>1. \A e \in Descriptor : files[e] \in {i} => files[e] \in s.v[InodeMap] /\ InodeIn(s.v, files[e]).kind = "file"
    BY <1>12
  <2>2. OpenStand(s.v, files)
    BY <1>2, <1>14, <2>1, StillOpen
  <2> QED
    BY <1>1, <2>2
<1>18. Keeps(s.v, nodes, nodes', K, {i})
  BY <1>14, <1>15 DEF Keeps
<1> QED
  BY <1>6, <1>9, <1>12, <1>14, <1>16, <1>17, <1>18, CallEnded

LEMMA CloseStands ==
    ASSUME VolumeAssumption, VolumeInv, VolumeInv', Mounted, NEW d \in Descriptor, Close(d)
    PROVE  Mounted'
<1>1. /\ phase = "on" /\ files[d] # 0 /\ view' = view /\ full' = full
      /\ files' = [files EXCEPT ![d] = 0]
      /\ nodes' = [i \in Inode |-> IF i = files[d] /\ \A e \in Descriptor \ {d} : files[e] # i
                                   THEN NoInode ELSE nodes[i]]
  BY DEF Close
<1>2. /\ nodes \in [Inode -> InodeRecord] /\ files \in [Descriptor -> 0 .. Inodes]
      /\ InHold(nodes, files) /\ OpenStand(view, files)
  BY MountedIs
<1>3. files'[d] = 0 /\ \A e \in Descriptor \ {d} : files'[e] = files[e]
  BY <1>1, <1>2
<1>4. files[d] # Root
  <2>1. InodeIn(view, Root).kind = "dir"
    BY DEF Mounted, Stands, NamesHold, NamesStand, Directories
  <2> QED
    BY <1>1, <1>2, <2>1 DEF OpenStand
<1>5. \A j \in Inode : nodes'[j] = IF j = files[d] /\ \A e \in Descriptor \ {d} : files[e] # j THEN NoInode ELSE nodes[j]
  BY <1>1
<1>6. InHold(nodes', files')
  <2> SUFFICES ASSUME NEW j \in Inode PROVE nodes'[j] # NoInode <=> (j = Root \/ \E e \in Descriptor : files'[e] = j)
    BY DEF InHold
  <2>1. j # 0
    BY DEF Inode
  <2>2. nodes[j] # NoInode <=> (j = Root \/ \E e \in Descriptor : files[e] = j)
    BY <1>2 DEF InHold
  <2>3. (\E e \in Descriptor : files'[e] = j) <=> \E e \in Descriptor \ {d} : files[e] = j
    BY <1>3, <2>1
  <2> QED
    BY <1>4, <1>5, <2>2, <2>3
<1>7. OpenStand(view, files')
  BY <1>2, <1>3 DEF OpenStand
<1>8. PICK s : s = Begin(NodeOf(Root))
  OBVIOUS
<1>9. Sane(s) /\ s.v = view
  <2>1. Root \in Inode
    BY DEF VolumeAssumption, Inode, Root
  <2> QED
    BY <1>1, <1>8, <2>1, BeginFirm DEF Firm
<1>10. PICK M : M = Mind(view, nodes)
  OBVIOUS
<1>11. Ended(view, s.v, M, M, {}, ~full')
  <2>1. Ended(view, view, M, M, {}, ~full)
    BY <1>10, NothingEnded
  <2> QED
    BY <1>1, <1>9, <2>1
<1>12. Keeps(s.v, nodes, nodes', M, {})
  BY <1>5 DEF Keeps
<1>13. view' = s.v /\ OpenStand(s.v, files')
  BY <1>1, <1>7, <1>9
<1> QED
  BY <1>6, <1>9, <1>10, <1>11, <1>12, <1>13, CallEnded

(***************************************************************************)
(* What the ledger and the names say of the files.                         *)
(***************************************************************************)
(* The pointers of an inode, place by place.                               *)
LEMMA ReachIs ==
    ASSUME VolumeAssumption, NEW v, NEW i
    PROVE  \A z : z \in Reach(v, i) <=>
              \E p \in Place : z = <<p, PointerAt(v, InodeIn(v, i), p)>> /\ PointerAt(v, InodeIn(v, i), p) # 0
<1>1. PICK r : r = InodeIn(v, i)
  OBVIOUS
<1>2. PICK row : row = (IF r.table = 0 THEN {}
                         ELSE {<<2 + e, TableOf(v, r.table)[e]>> : e \in 0 .. PerTable - 1})
  OBVIOUS
<1>3. \A z : z \in Reach(v, i) <=> z \in {<<0, r.direct>>, <<1, r.table>>} \cup row /\ z[2] # 0
  BY <1>1, <1>2 DEF Reach
<1>4. PerTable \in Nat
  BY DEF VolumeAssumption
<1>5. ASSUME NEW z \in row, z[2] # 0
      PROVE  \E p \in Place : z = <<p, PointerAt(v, r, p)>> /\ PointerAt(v, r, p) # 0
  <2>1. r.table # 0
    BY <1>2, <1>5
  <2>2. PICK e \in 0 .. PerTable - 1 : z = <<2 + e, TableOf(v, r.table)[e]>>
    BY <1>2, <1>5, <2>1
  <2>3. PICK p : p = 2 + e
    OBVIOUS
  <2>4. p \in Place /\ p # 0 /\ p # 1 /\ p - 2 = e
    BY <1>4, <2>3 DEF Place
  <2>5. PointerAt(v, r, p) = TableOf(v, r.table)[e]
    BY <2>1, <2>4 DEF PointerAt
  <2> QED
    BY <1>5, <2>2, <2>3, <2>4, <2>5
<1>6. ASSUME NEW p \in Place, p # 0, p # 1, PointerAt(v, r, p) # 0
      PROVE  <<p, PointerAt(v, r, p)>> \in row
  <2>1. r.table # 0 /\ PointerAt(v, r, p) = TableOf(v, r.table)[p - 2]
    BY <1>6 DEF PointerAt
  <2>2. PICK e \in 0 .. PerTable - 1 : p = 2 + e /\ e = p - 2
    <3>1. p - 2 \in 0 .. PerTable - 1 /\ p = 2 + (p - 2)
      BY <1>4, <1>6 DEF Place
    <3> QED
      BY <3>1
  <2> QED
    BY <1>2, <2>1, <2>2
<1>7. 0 \in Place /\ 1 \in Place /\ PointerAt(v, r, 0) = r.direct /\ PointerAt(v, r, 1) = r.table
  BY <1>4 DEF Place, PointerAt
<1>8. ASSUME NEW z \in Reach(v, i)
      PROVE  \E p \in Place : z = <<p, PointerAt(v, r, p)>> /\ PointerAt(v, r, p) # 0
  <2>1. z[2] # 0 /\ (z = <<0, r.direct>> \/ z = <<1, r.table>> \/ z \in row)
    BY <1>3
  <2>2. CASE z = <<0, r.direct>>
    BY <1>7, <2>1, <2>2
  <2>3. CASE z = <<1, r.table>>
    BY <1>7, <2>1, <2>3
  <2>4. CASE z \in row
    BY <1>5, <2>1, <2>4
  <2> QED
    BY <2>1, <2>2, <2>3, <2>4
<1>9. ASSUME NEW z, NEW p \in Place, z = <<p, PointerAt(v, r, p)>>, PointerAt(v, r, p) # 0
      PROVE  z \in Reach(v, i)
  <2>1. z[2] # 0
    BY <1>9
  <2>2. z \in {<<0, r.direct>>, <<1, r.table>>} \cup row
    BY <1>6, <1>7, <1>9
  <2> QED
    BY <1>3, <2>1, <2>2
<1> QED
  BY <1>1, <1>8, <1>9

(* Names of files are counted by their links.                              *)
LEMMA LinksCounted ==
    ASSUME VolumeAssumption, NEW v, v[InodeMap] \subseteq Inode, NEW tight, NamesHold(v, tight)
    PROVE  NamesLeadToFiles(v) /\ LinksAreNames(v)
<1>1. PICK T : T = Entries(v)
  OBVIOUS
<1>2. PICK D : D = Directories(v)
  OBVIOUS
<1>3. PICK L : L = LinksOf(v)
  OBVIOUS
<1>4. /\ NamesStand(T, v[InodeMap], D) /\ LinksStand(T, D, L)
      /\ Reached(T) \subseteq v[InodeMap] /\ Reached(T) \subseteq Inode
      /\ D \subseteq Inode /\ Root \in D
  BY <1>1, <1>2, <1>3, NamesTold
<1>5. Reached(T) = InUse(v)
  BY <1>1, NamedAre DEF InUse
<1>6. \A i \in Inode : i # 0 /\ L[i] = InodeIn(v, i).links
  BY <1>3, LinksOfIs DEF Inode
<1>7. \A i : IsFiniteSet(NamesFor(T, i)) /\ IsFiniteSet(ChildDirectories(T, D, i))
  BY <1>4, NamesFinite
<1>8. \A e : e \in T <=> e \in NamesOf(v) /\ e[3] # 0
  BY <1>1 DEF Entries
<1>9. NamesLeadToFiles(v)
  <2> SUFFICES ASSUME NEW i \in Named(v) PROVE i \in v[InodeMap] /\ InodeIn(v, i).links > 0
    BY DEF NamesLeadToFiles
  <2>1. i \in Reached(T)
    BY <1>5 DEF InUse
  <2>2. i \in Inode /\ i \in v[InodeMap]
    BY <1>4, <2>1
  <2>3. L[i] > 0
    <3>1. CASE i \in D
      <4>1. L[i] = 2 + Cardinality(ChildDirectories(T, D, i))
        BY <1>4, <2>1, <3>1 DEF LinksStand
      <4>2. Cardinality(ChildDirectories(T, D, i)) \in Nat
        BY <1>7, FS_CardinalityType
      <4> QED
        BY <4>1, <4>2
    <3>2. CASE i \notin D
      <4>1. L[i] = Cardinality(NamesFor(T, i))
        BY <1>4, <2>1, <3>2 DEF LinksStand
      <4>2. i # Root
        BY <1>4, <3>2
      <4>3. NamesFor(T, i) # {}
        BY <2>1, <4>2 DEF Reached, NamesFor
      <4>4. Cardinality(NamesFor(T, i)) \in Nat /\ Cardinality(NamesFor(T, i)) # 0
        BY <1>7, <4>3, FS_CardinalityType, FS_EmptySet
      <4> QED
        BY <4>1, <4>4
    <3> QED
      BY <3>1, <3>2
  <2> QED
    BY <1>6, <2>2, <2>3
<1>10. LinksAreNames(v)
  <2>1. ASSUME NEW i \in InUse(v)
        PROVE  InodeIn(v, i).links =
                  IF i \in Directories(v)
                  THEN 2 + Cardinality({e \in NamesOf(v) : e[1] = i /\ e[3] \in Directories(v)})
                  ELSE Cardinality({e \in NamesOf(v) : e[3] = i})
    <3>1. i \in Reached(T) /\ i \in Inode
      BY <1>4, <1>5, <2>1
    <3>2. L[i] = IF i \in D THEN 2 + Cardinality(ChildDirectories(T, D, i)) ELSE Cardinality(NamesFor(T, i))
      BY <1>4, <3>1 DEF LinksStand
    <3>3. ChildDirectories(T, D, i) = {e \in NamesOf(v) : e[1] = i /\ e[3] \in D}
      <4>1. 0 \notin D
        BY <1>4, <1>6
      <4>2. \A e : e \in ChildDirectories(T, D, i) <=> e \in NamesOf(v) /\ e[1] = i /\ e[3] \in D
        BY <1>8, <4>1 DEF ChildDirectories
      <4> QED
        BY <4>2
    <3>4. NamesFor(T, i) = {e \in NamesOf(v) : e[3] = i}
      <4>1. \A e : e \in NamesFor(T, i) <=> e \in NamesOf(v) /\ e[3] = i
        BY <1>6, <1>8, <3>1 DEF NamesFor
      <4> QED
        BY <4>1
    <3>5. L[i] = InodeIn(v, i).links
      BY <1>6, <3>1
    <3> QED
      BY <1>2, <3>2, <3>3, <3>4, <3>5
  <2> QED
    BY <2>1 DEF LinksAreNames
<1> QED
  BY <1>9, <1>10

(* Blocks are marked used, and have one pointer, by the ledger.            *)
LEMMA BlocksLedgered ==
    ASSUME VolumeAssumption, NEW v, v[InodeMap] \subseteq Inode, NEW tight, NamesHold(v, tight),
           NEW F, Owned(F, v[BlockMap]), \A i \in Inode : \A p \in Place : F[i][p] = PointerAt(v, InodeIn(v, i), p)
    PROVE  BlocksAreUsed(v) /\ BlocksAreOwnedOnce(v)
<1>1. InUse(v) \subseteq Inode
  <2>1. PICK T : T = Entries(v)
    OBVIOUS
  <2>2. PICK D : D = Directories(v)
    OBVIOUS
  <2>3. PICK L : L = LinksOf(v)
    OBVIOUS
  <2>4. Reached(T) \subseteq Inode
    BY <2>1, <2>2, <2>3, NamesTold
  <2> QED
    BY <2>1, <2>4, NamedAre DEF InUse
<1>2. ASSUME NEW i \in InUse(v), NEW z \in Reach(v, i)
      PROVE  \E p \in Place : z[1] = p /\ z[2] = F[i][p] /\ F[i][p] # 0 /\ F[i][p] \in v[BlockMap]
  <2>1. PICK p \in Place : z = <<p, PointerAt(v, InodeIn(v, i), p)>> /\ PointerAt(v, InodeIn(v, i), p) # 0
    BY ReachIs
  <2>2. i \in Inode
    BY <1>1
  <2>3. PointerAt(v, InodeIn(v, i), p) = F[i][p]
    BY <2>2
  <2>4. F[i][p] \in v[BlockMap]
    BY <2>1, <2>2, <2>3 DEF Owned
  <2> QED
    BY <2>1, <2>3, <2>4
<1>3. BlocksAreUsed(v)
  BY <1>2 DEF BlocksAreUsed
<1>4. BlocksAreOwnedOnce(v)
  <2> SUFFICES ASSUME NEW i \in InUse(v), NEW j \in InUse(v), NEW y \in Reach(v, i), NEW z \in Reach(v, j), y[2] = z[2]
               PROVE  <<i, y[1], y[2]>> = <<j, z[1], z[2]>>
    BY DEF BlocksAreOwnedOnce
  <2>1. PICK p \in Place : y[1] = p /\ y[2] = F[i][p] /\ F[i][p] # 0
    BY <1>2
  <2>2. PICK q \in Place : z[1] = q /\ z[2] = F[j][q]
    BY <1>2
  <2>3. i \in Inode /\ j \in Inode
    BY <1>1
  <2>4. i = j /\ p = q
    <3>1. F[i][p] = F[j][q] /\ F[i][p] # 0
      BY <2>1, <2>2
    <3>2. \A a, b \in Inode : \A o, k \in Place : F[a][o] # 0 /\ F[a][o] = F[b][k] => a = b /\ o = k
      BY DEF Owned
    <3> QED
      BY <2>3, <3>1, <3>2
  <2> QED
    BY <2>1, <2>2, <2>4
<1> QED
  BY <1>3, <1>4

(* A volume w that is v but for its inodes, which are N's.                 *)
Shows(w, v, N) ==
    /\ w[Super] = v[Super] /\ w[Group] = v[Group] /\ w[BlockMap] = v[BlockMap] /\ w[InodeMap] = v[InodeMap]
    /\ AreasKept(v, w) /\ \A i \in Inode : InodeIn(w, i) = N[i]
LEMMA SturdyIsSound ==
    ASSUME VolumeAssumption, NEW v, Formed(v), NEW N, NEW tight, Sturdy(v, N, tight), NamesHold(v, tight),
           NEW w, Shows(w, v, N)
    PROVE  Sound(w)
<1>1. N \in [Inode -> InodeRecord] /\ Books(v, N, tight) /\ InodeCount(v)
  BY DEF Sturdy
<1>2. \A i \in Inode : Behind(v, InodeIn(v, i), N[i])
  BY DEF Sturdy, Tallies
<1>3. /\ w[Super] = v[Super] /\ w[Group] = v[Group] /\ w[BlockMap] = v[BlockMap] /\ w[InodeMap] = v[InodeMap]
      /\ AreasKept(v, w) /\ \A i \in Inode : InodeIn(w, i) = N[i]
  BY DEF Shows
<1>4. \A r \in InodeRecord : SamePointers(v, r, w, r) /\ BodyBut(v, r, w, r, {})
  BY <1>3, AreasPoint
<1>5. Alike(v, w, {})
  <2> SUFFICES ASSUME NEW j \in Inode
               PROVE  /\ InodeIn(w, j).kind = InodeIn(v, j).kind /\ InodeIn(w, j).links = InodeIn(v, j).links
                      /\ \A n \in Name : Look(w, j, n) = Look(v, j, n)
    BY DEF Alike
  <2>1. PICK r \in InodeRecord : r = N[j] /\ r = InodeIn(w, j)
    BY <1>1, <1>3
  <2>2. PICK d \in InodeRecord : d = InodeIn(v, j) /\ Behind(v, d, r)
    BY <1>2, <2>1, FormedIs
  <2>3. SameNames(v, r, w, r)
    BY <1>4, BodyNames
  <2>4. \A n \in Name : Lookup(w, r, n) = Lookup(v, r, n)
    BY <2>3, LookupSame
  <2>5. \A n \in Name : Lookup(v, d, n) = Lookup(v, r, n)
    BY <2>2, BehindLooks
  <2>6. r.kind = d.kind /\ r.links = d.links
    BY <2>2 DEF Behind, SameShape
  <2> QED
    BY <2>1, <2>2, <2>4, <2>5, <2>6 DEF Look
<1>6. v[InodeMap] \subseteq Inode
  BY DEF Formed
<1>7. NamesHold(w, tight)
  BY <1>3, <1>5, <1>6, NamesStay
<1>8. PICK F : F = Pointing(v, N)
  OBVIOUS
<1>9. Owned(F, w[BlockMap])
  BY <1>1, <1>3, <1>8 DEF Books
<1>10. \A i \in Inode : \A p \in Place : F[i][p] = PointerAt(w, InodeIn(w, i), p)
  <2>1. \A i \in Inode : \A p \in Place : F[i][p] = PointerAt(v, N[i], p)
    BY <1>8, PointingIs
  <2>2. \A i \in Inode : \A p \in Place : PointerAt(w, N[i], p) = PointerAt(v, N[i], p)
    BY <1>1, <1>4 DEF SamePointers
  <2> QED
    BY <1>3, <2>1, <2>2
<1>11. BlocksAreUsed(w) /\ BlocksAreOwnedOnce(w)
  BY <1>3, <1>6, <1>7, <1>9, <1>10, BlocksLedgered
<1>12. NamesLeadToFiles(w) /\ LinksAreNames(w)
  BY <1>3, <1>6, <1>7, LinksCounted
<1>13. CountsAreRight(w)
  <2>1. BlockCount(v)
    BY <1>1 DEF Books
  <2> QED
    BY <1>1, <1>3, <2>1 DEF BlockCount, InodeCount, CountsAreRight
<1> QED
  BY <1>11, <1>12, <1>13 DEF Sound

(* The inodes as the volume has them.                                      *)
OnDisk(v) == [i \in Inode |-> InodeIn(v, i)]
LEMMA OnDiskIs ==
    ASSUME VolumeAssumption, NEW v, Formed(v), NEW M, NEW tight, Sturdy(v, M, tight)
    PROVE  Sturdy(v, OnDisk(v), tight) /\ Shows(v, v, OnDisk(v))
<1>1. \A i \in Inode : InodeIn(v, i) \in InodeRecord
  BY FormedIs
<1>2. PICK N : N = OnDisk(v) /\ N \in [Inode -> InodeRecord] /\ \A i \in Inode : N[i] = InodeIn(v, i)
  <2>1. OnDisk(v) \in [Inode -> InodeRecord] /\ \A i \in Inode : OnDisk(v)[i] = InodeIn(v, i)
    BY <1>1 DEF OnDisk
  <2> QED
    BY <2>1
<1>3. Sturdy(v, N, tight)
  BY <1>2, SturdyForgot
<1>4. Shows(v, v, N)
  BY <1>2 DEF Shows, AreasKept
<1> QED
  BY <1>2, <1>3, <1>4

(* The volume as its nodes in memory have it.                              *)
LEMMA InMemoryShows ==
    ASSUME VolumeAssumption, VolumeTypeOK
    PROVE  Shows(InMemory, view, Mind(view, nodes))
<1>1. /\ Super \in Structure /\ Super[1] # "inodes" /\ Group \in Structure /\ Group[1] # "inodes"
      /\ BlockMap \in Structure /\ BlockMap[1] # "inodes" /\ InodeMap \in Structure /\ InodeMap[1] # "inodes"
  BY StructureIs DEF Super, Group, BlockMap, InodeMap
<1>2. /\ InMemory[Super] = view[Super] /\ InMemory[Group] = view[Group]
      /\ InMemory[BlockMap] = view[BlockMap] /\ InMemory[InodeMap] = view[InodeMap]
  BY <1>1 DEF InMemory
<1>3. AreasKept(view, InMemory)
  <2>1. ASSUME NEW b \in DiskBlock PROVE InMemory[Area(b)] = view[Area(b)]
    <3>1. Area(b) \in Structure /\ Area(b)[1] # "inodes"
      BY StructureIs DEF Area
    <3> QED
      BY <3>1 DEF InMemory
  <2> QED
    BY <2>1 DEF AreasKept
<1>4. ASSUME NEW i \in Inode PROVE InodeIn(InMemory, i) = Mind(view, nodes)[i]
  <2>1. Formed(view)
    BY TypesFormed
  <2>2. view[Table(i)] \in [Beside(i) -> InodeRecord] /\ i \in Beside(i)
    BY <2>1 DEF Formed, Beside
  <2>3. Table(i) \in Structure /\ Table(i)[1] = "inodes"
    BY StructureIs DEF Table
  <2>4. InMemory[Table(i)] = [j \in DOMAIN view[Table(i)] |-> NodeOf(j)]
    BY <2>3 DEF InMemory
  <2>5. InMemory[Table(i)][i] = NodeOf(i)
    BY <2>2, <2>4
  <2> QED
    BY <2>5, NodeOfMind DEF InodeIn
<1> QED
  BY <1>2, <1>3, <1>4 DEF Shows

LEMMA MountedSound ==
    ASSUME VolumeAssumption, VolumeInv, Mounted
    PROVE  Sound(view) /\ Sound(InMemory)
<1>1. VolumeTypeOK
  BY DEF VolumeInv
<1>2. Formed(view)
  BY <1>1, TypesFormed
<1>3. PICK M : M = Mind(view, nodes)
  OBVIOUS
<1>4. PICK tight : tight = ~full
  OBVIOUS
<1>5. Sturdy(view, M, tight) /\ NamesHold(view, tight)
  BY <1>3, <1>4 DEF Mounted, Stands
<1>6. Shows(InMemory, view, M)
  BY <1>1, <1>3, InMemoryShows
<1>7. Sound(InMemory)
  BY <1>2, <1>5, <1>6, SturdyIsSound
<1>8. PICK N : N = OnDisk(view)
  OBVIOUS
<1>9. Sturdy(view, N, tight) /\ Shows(view, view, N)
  BY <1>2, <1>5, <1>8, OnDiskIs
<1> QED
  BY <1>2, <1>5, <1>7, <1>9, SturdyIsSound

(* And nothing is lost of a volume that never was full.                    *)
LEMMA NothingLost ==
    ASSUME VolumeAssumption, VolumeInv, Mounted, ~full
    PROVE  /\ view[InodeMap] = InUse(view)
           /\ view[BlockMap] = UNION {{p[2] : p \in Reach(view, i)} : i \in InUse(view)}
           /\ view[Group].directories = Cardinality({i \in InUse(view) : InodeIn(view, i).kind = "dir"})
<1>1. VolumeTypeOK
  BY DEF VolumeInv
<1>2. Formed(view) /\ view[InodeMap] \subseteq Inode /\ view[BlockMap] \subseteq DiskBlock
  BY <1>1, TypesFormed DEF Formed
<1>3. PICK M : M = Mind(view, nodes)
  OBVIOUS
<1>4. Sturdy(view, M, TRUE) /\ NamesHold(view, TRUE)
  <2>1. (~full) = TRUE
    OBVIOUS
  <2> QED
    BY <1>3, <2>1 DEF Mounted, Stands
<1>5. view[InodeMap] = InUse(view) /\ view[Group].directories = Cardinality(Directories(view))
  BY <1>4, NamedAre DEF NamesHold, InUse
<1>6. Directories(view) = {i \in InUse(view) : InodeIn(view, i).kind = "dir"}
  BY <1>5 DEF Directories
<1>7. \A i \in Inode : /\ M[i] = InodeIn(view, i)
                       /\ M[i].size = 0 => M[i].direct = 0 /\ M[i].table = 0
                       /\ i \notin view[InodeMap] => M[i].size = 0
  BY <1>4 DEF Sturdy, Tallies
<1>8. ASSUME NEW i \in Inode, NEW p \in Place, PointerAt(view, M[i], p) # 0
      PROVE  i \in InUse(view)
  <2>1. M[i] \in InodeRecord
    BY <1>4 DEF Sturdy
  <2>2. M[i].direct # 0 \/ M[i].table # 0
    BY <1>8, <2>1, PointerIs, <1>2
  <2> QED
    BY <1>5, <1>7, <2>2
<1>9. \A b : b \in view[BlockMap] <=> \E i \in InUse(view) : \E z \in Reach(view, i) : b = z[2]
  <2>1. ASSUME NEW b \in view[BlockMap] PROVE \E i \in InUse(view) : \E z \in Reach(view, i) : b = z[2]
    <3>1. Books(view, M, TRUE)
      BY <1>4 DEF Sturdy
    <3>2. PICK i \in Inode, p \in Place : PointerAt(view, M[i], p) = b
      <4>1. Spent(Pointing(view, M), view[BlockMap])
        BY <3>1 DEF Books
      <4>2. PICK i \in Inode, p \in Place : Pointing(view, M)[i][p] = b
        BY <4>1 DEF Spent
      <4> QED
        BY <4>2, PointingIs
    <3>3. b # 0
      BY <1>2 DEF DiskBlock
    <3>4. i \in InUse(view) /\ PointerAt(view, InodeIn(view, i), p) = b
      BY <1>7, <1>8, <3>2, <3>3
    <3>5. <<p, b>> \in Reach(view, i) /\ b = <<p, b>>[2]
      BY <3>3, <3>4, ReachIs
    <3> QED
      BY <3>4, <3>5
  <2>2. ASSUME NEW i \in InUse(view), NEW z \in Reach(view, i) PROVE z[2] \in view[BlockMap]
    <3>1. BlocksAreUsed(view)
      BY MountedSound DEF Sound
    <3> QED
      BY <3>1 DEF BlocksAreUsed
  <2> QED
    BY <2>1, <2>2
<1>10. \A b : b \in view[BlockMap] <=> b \in UNION {{p[2] : p \in Reach(view, i)} : i \in InUse(view)}
  BY <1>9
<1>11. view[BlockMap] = UNION {{p[2] : p \in Reach(view, i)} : i \in InUse(view)}
  BY <1>10
<1> QED
  BY <1>5, <1>6, <1>11

(***************************************************************************)
(* The volume mounted, unmounted and left.                                 *)
(***************************************************************************)
LEMMA TypedIsFormed ==
    ASSUME NEW v, DOMAIN v = Structure, \A x \in Structure : MayHold(x, v[x])
    PROVE  Formed(v)
<1>1. /\ v[Super] \in SuperRecord /\ v[Group] \in GroupRecord
      /\ v[BlockMap] \subseteq DiskBlock /\ v[InodeMap] \subseteq Inode
  <2>1. /\ MayHold(Super, v[Super]) /\ MayHold(Group, v[Group])
        /\ MayHold(BlockMap, v[BlockMap]) /\ MayHold(InodeMap, v[InodeMap])
    BY StructureIs
  <2> QED
    BY <2>1, MayHoldIs
<1>2. ASSUME NEW i \in Inode PROVE v[Table(i)] \in [Beside(i) -> InodeRecord] /\ InodeIn(v, i) \in InodeRecord
  <2>1. MayHold(Table(i), v[Table(i)])
    BY StructureIs
  <2>2. v[Table(i)] \in [Beside(i) -> InodeRecord]
    BY <2>1, MayHoldIs
  <2> QED
    BY <2>2 DEF Beside, InodeIn
<1>3. ASSUME NEW b \in DiskBlock PROVE v[Area(b)] \in Content
  <2>1. MayHold(Area(b), v[Area(b)])
    BY StructureIs
  <2> QED
    BY <2>1, MayHoldIs
<1> QED
  BY <1>1, <1>2, <1>3 DEF Formed

(* The volume unmounted, its inodes as it has them.                        *)
Rests(v, lost) == Sturdy(v, OnDisk(v), ~lost) /\ NamesHold(v, ~lost)
LEMMA MarkRests ==
    ASSUME VolumeAssumption, NEW v, Formed(v), NEW u, Formed(u), Agree(u, v), SameCounts(u[Super], v[Super]),
           NEW lost, Rests(v, lost)
    PROVE  Rests(u, lost)
<1>1. OnDisk(u) = OnDisk(v)
  <2>1. \A i \in Inode : InodeIn(u, i) = InodeIn(v, i)
    BY OtherBuffers DEF Agree, InodeIn
  <2> QED
    BY <2>1 DEF OnDisk
<1>2. PICK tight : tight = ~lost
  OBVIOUS
<1>3. PICK N : N = OnDisk(v)
  OBVIOUS
<1>4. Sturdy(v, N, tight) /\ NamesHold(v, tight)
  BY <1>2, <1>3 DEF Rests
<1>5. Sturdy(u, N, tight) /\ NamesHold(u, tight)
  BY <1>4, MarkStands
<1> QED
  BY <1>1, <1>2, <1>3, <1>5 DEF Rests

LEMMA StandingRests ==
    ASSUME VolumeAssumption, NEW v, Formed(v), NEW h, NEW f, NEW lost, Stands(v, h, f, lost)
    PROVE  Rests(v, lost)
<1>1. PICK tight : tight = ~lost
  OBVIOUS
<1>2. PICK M : M = Mind(v, h)
  OBVIOUS
<1>3. Sturdy(v, M, tight) /\ NamesHold(v, tight)
  BY <1>1, <1>2 DEF Stands
<1>4. Sturdy(v, OnDisk(v), tight)
  BY <1>3, OnDiskIs
<1> QED
  BY <1>1, <1>3, <1>4 DEF Rests

LEMMA RestingStands ==
    ASSUME VolumeAssumption, NEW v, Formed(v), NEW lost, Rests(v, lost), NEW h \in [Inode -> InodeRecord],
           \A i \in Inode : h[i] = IF i = Root THEN InodeIn(v, Root) ELSE NoInode,
           NEW f, \A d \in Descriptor : f[d] = 0
    PROVE  Stands(v, h, f, lost)
<1>1. PICK tight : tight = ~lost
  OBVIOUS
<1>2. Sturdy(v, OnDisk(v), tight) /\ NamesHold(v, tight)
  BY <1>1 DEF Rests
<1>3. Mind(v, h) = OnDisk(v)
  BY DEF Mind, OnDisk
<1>4. Root \in v[InodeMap] /\ InodeIn(v, Root).kind = "dir"
  BY <1>2 DEF NamesHold, NamesStand, Directories
<1>5. InHold(h, f)
  <2>1. InodeIn(v, Root) # NoInode
    BY <1>4 DEF NoInode, NewInode
  <2>2. \A i \in Inode : i # 0
    BY DEF Inode
  <2> QED
    BY <2>1, <2>2 DEF InHold
<1>6. OpenStand(v, f)
  BY DEF OpenStand
<1> QED
  BY <1>1, <1>2, <1>3, <1>5, <1>6 DEF Stands

LEMMA RestingIsSound ==
    ASSUME VolumeAssumption, NEW v, Formed(v), NEW lost, Rests(v, lost)
    PROVE  Sound(v)
<1>1. PICK tight : tight = ~lost
  OBVIOUS
<1>2. PICK N : N = OnDisk(v)
  OBVIOUS
<1>3. Sturdy(v, N, tight) /\ NamesHold(v, tight)
  BY <1>1, <1>2 DEF Rests
<1>4. Shows(v, v, N)
  BY <1>2, <1>3, OnDiskIs
<1> QED
  BY <1>3, <1>4, SturdyIsSound

PutAway ==
    /\ \A d \in Descriptor : files[d] = 0
    /\ \A i \in Inode : nodes[i] # NoInode => i = Root /\ phase = "readonly"
SoundInv ==
    /\ phase \in {"mounting", "on", "syncing"} => Mounted
    /\ phase \in {"off", "releasing", "readonly", "stopped"} => PutAway
    /\ phase = "releasing" \/ (phase \in {"off", "stopped"} /\ view[Super].valid) => Rests(view, full)

(* The calls.                                                              *)
LEMMA CallsSound ==
    ASSUME VolumeAssumption, VolumeInv, VolumeInv', SoundInv,
           VolumeNext, ~Mount, ~SyncDone, ~Unmount, ~UnmountReadOnly, ~Stop, ~Settle
    PROVE  SoundInv'
<1>1. phase' \in {"on", "syncing"}
  BY CallsStayMounted
<1>2. phase = "on"
  <2>1. \A dir \in Inode, n \in Name :
           Mkdir(dir, n) \/ Rmdir(dir, n) \/ Unlink(dir, n) => phase = "on"
    BY DEF Mkdir, Rmdir, Unlink
  <2>2. \A dir \in Inode, n \in Name, i \in Inode : Link(i, dir, n) => phase = "on"
    BY DEF Link
  <2>3. \A dir \in Inode, n \in Name, d \in Descriptor : OpenNew(d, dir, n) => phase = "on"
    BY DEF OpenNew
  <2>4. \A dir \in Inode, n \in Name, d \in Descriptor, truncate \in BOOLEAN :
           Open(d, dir, n, truncate) => phase = "on"
    BY DEF Open
  <2>5. \A d \in Descriptor, index \in 0 .. PerTable, count \in 1 .. 2 : Write(d, index, count) => phase = "on"
    BY DEF Write
  <2>6. \A d \in Descriptor : Close(d) => phase = "on"
    BY DEF Close
  <2> QED
    BY <2>1, <2>2, <2>3, <2>4, <2>5, <2>6 DEF VolumeNext
<1>3. Mounted
  BY <1>2 DEF SoundInv
<1>4. Mounted'
  <2>1. CASE \E dir \in Inode, n \in Name : Mkdir(dir, n)
    BY <1>3, <2>1, MkdirStands
  <2>2. CASE \E dir \in Inode, n \in Name : Rmdir(dir, n)
    BY <1>3, <2>2, RmdirStands
  <2>3. CASE \E dir \in Inode, n \in Name : Unlink(dir, n)
    BY <1>3, <2>3, UnlinkStands
  <2>4. CASE \E dir \in Inode, n \in Name : \E i \in Inode : Link(i, dir, n)
    BY <1>3, <2>4, LinkStands
  <2>5. CASE \E dir \in Inode, n \in Name : \E d \in Descriptor : OpenNew(d, dir, n)
    BY <1>3, <2>5, OpenNewStands
  <2>6. CASE \E dir \in Inode, n \in Name : \E d \in Descriptor, truncate \in BOOLEAN : Open(d, dir, n, truncate)
    BY <1>3, <2>6, OpenStands
  <2>7. CASE \E d \in Descriptor, index \in 0 .. PerTable, count \in 1 .. 2 : Write(d, index, count)
    BY <1>3, <2>7, WriteStands
  <2>8. CASE \E d \in Descriptor : Close(d)
    BY <1>3, <2>8, CloseStands
  <2> QED
    BY <2>1, <2>2, <2>3, <2>4, <2>5, <2>6, <2>7, <2>8 DEF VolumeNext
<1> QED
  BY <1>1, <1>4 DEF SoundInv

(* What the volume is read as after a step.                                *)
LEMMA NextFormed ==
    ASSUME VolumeInv', NEW v, view' = v
    PROVE  Formed(v)
<1>1. DOMAIN v = Structure /\ \A x \in Structure : MayHold(x, v[x])
  BY DEF VolumeInv, VolumeTypeOK
<1> QED
  BY <1>1, TypedIsFormed

LEMMA NowFormed ==
    ASSUME VolumeInv
    PROVE  Formed(view) /\ nodes \in [Inode -> InodeRecord] /\ view[Super] \in SuperRecord
<1>1. Formed(view) /\ nodes \in [Inode -> InodeRecord]
  BY TypesFormed DEF VolumeInv
<1> QED
  BY <1>1 DEF Formed

(* The mount, the end of a synchronisation, and the unmount.               *)
LEMMA MountSound ==
    ASSUME VolumeAssumption, PersistAdopts = FALSE, VolumeInv, VolumeInv', SoundInv, Mount
    PROVE  SoundInv'
<1>1. phase = "off" /\ PutAway /\ files' = files /\ full' = full
  BY DEF Mount, SoundInv
<1>2. nodes' = [nodes EXCEPT ![Root] = InodeIn(view, Root)]
  BY DEF Mount
<1>3. Formed(view) /\ nodes \in [Inode -> InodeRecord] /\ view[Super] \in SuperRecord
  BY NowFormed
<1>4. CASE view[Super].valid
  <2>1. PICK v, w : view' = v /\ HasMounted(v, w) /\ phase' = "mounting"
    BY <1>4, MountWrites DEF Mount, VolumeInv
  <2>2. Formed(v)
    BY <2>1, NextFormed
  <2>3. Agree(v, view) /\ SameCounts(v[Super], view[Super])
    BY <1>3, <2>1, BearsIs DEF HasMounted, Agree, SameCounts
  <2>4. Rests(view, full)
    BY <1>1, <1>4 DEF SoundInv
  <2>5. Rests(v, full)
    BY <1>3, <2>2, <2>3, <2>4, MarkRests
  <2>6. PICK h \in [Inode -> InodeRecord] : h = nodes'
    BY DEF VolumeInv, VolumeTypeOK
  <2>7. Root \in Inode
    BY DEF VolumeAssumption, Inode, Root
  <2>8. InodeIn(v, Root) = InodeIn(view, Root)
    BY <2>3, <2>7, OtherBuffers DEF Agree, InodeIn
  <2>9. \A i \in Inode : h[i] = IF i = Root THEN InodeIn(v, Root) ELSE NoInode
    BY <1>1, <1>2, <1>3, <2>6, <2>7, <2>8 DEF PutAway
  <2>10. PICK f : f = files' /\ \A d \in Descriptor : f[d] = 0
    BY <1>1 DEF PutAway
  <2>11. Stands(v, h, f, full)
    BY <2>2, <2>5, <2>9, <2>10, RestingStands
  <2>12. Mounted'
    BY <1>1, <2>1, <2>6, <2>10, <2>11 DEF Mounted
  <2> QED
    BY <2>1, <2>12 DEF SoundInv
<1>5. CASE ~view[Super].valid
  <2>1. phase' = "readonly"
    BY <1>5 DEF Mount
  <2>2. PutAway'
    BY <1>1, <1>2, <1>3, <2>1 DEF PutAway
  <2> QED
    BY <2>1, <2>2 DEF SoundInv
<1> QED
  BY <1>4, <1>5

LEMMA SyncDoneSound ==
    ASSUME SoundInv, SyncDone
    PROVE  SoundInv'
<1>1. phase \in {"mounting", "syncing", "releasing"} /\ UNCHANGED <<view, nodes, files, full>>
      /\ phase' = IF phase = "releasing" THEN "off" ELSE "on"
  BY DEF SyncDone
<1>2. CASE phase = "releasing"
  <2>1. PutAway /\ Rests(view, full)
    BY <1>2 DEF SoundInv
  <2>2. PutAway'
    BY <1>1, <1>2, <2>1 DEF PutAway
  <2>3. Rests(view', full')
    BY <1>1, <2>1
  <2> QED
    BY <1>1, <1>2, <2>2, <2>3 DEF SoundInv
<1>3. CASE phase # "releasing"
  <2>1. Mounted
    BY <1>1, <1>3 DEF SoundInv
  <2>2. Mounted'
    BY <1>1, <2>1 DEF Mounted
  <2> QED
    BY <1>1, <1>3, <2>2 DEF SoundInv
<1> QED
  BY <1>2, <1>3

LEMMA UnmountSound ==
    ASSUME VolumeAssumption, VolumeInv, VolumeInv', SoundInv, Unmount
    PROVE  SoundInv'
<1>1. /\ phase = "on" /\ (\A d \in Descriptor : files[d] = 0) /\ files' = files /\ full' = full
      /\ nodes' = [nodes EXCEPT ![Root] = NoInode] /\ phase' = "releasing"
  BY DEF Unmount
<1>2. Mounted
  BY <1>1 DEF SoundInv
<1>3. Formed(view) /\ nodes \in [Inode -> InodeRecord] /\ view[Super] \in SuperRecord
  BY NowFormed
<1>4. PICK v, w : view' = v /\ HasUnmounted(v, w)
  BY UnmountWrites DEF Unmount, WrittenFirst, VolumeInv
<1>5. Formed(v)
  BY <1>4, NextFormed
<1>6. Agree(v, view) /\ SameCounts(v[Super], view[Super])
  BY <1>3, <1>4, BearsIs DEF HasUnmounted, Agree, SameCounts
<1>7. Rests(view, full)
  <2>1. Stands(view, nodes, files, full)
    BY <1>2 DEF Mounted
  <2> QED
    BY <1>3, <2>1, StandingRests
<1>8. Rests(v, full)
  BY <1>3, <1>5, <1>6, <1>7, MarkRests
<1>9. PutAway'
  <2>1. \A i \in Inode : nodes[i] # NoInode => i = Root
    <3>1. InHold(nodes, files) /\ \A i \in Inode : i # 0
      BY <1>2 DEF Mounted, Stands, Inode
    <3> QED
      BY <1>1, <3>1 DEF InHold
  <2> QED
    BY <1>1, <1>3, <2>1 DEF PutAway
<1> QED
  BY <1>1, <1>4, <1>8, <1>9 DEF SoundInv

LEMMA UnmountReadOnlySound ==
    ASSUME CleanInv, SoundInv, UnmountReadOnly
    PROVE  SoundInv'
<1>1. /\ phase = "readonly" /\ UNCHANGED <<view, files, full>> /\ ~view[Super].valid
      /\ nodes' = [nodes EXCEPT ![Root] = NoInode] /\ phase' = "off" /\ PutAway
  BY DEF UnmountReadOnly, CleanInv, MarkKnown, SoundInv
<1>2. nodes \in [Inode -> InodeRecord]
  BY NowFormed DEF CleanInv
<1>3. PutAway'
  BY <1>1, <1>2 DEF PutAway
<1> QED
  BY <1>1, <1>3 DEF SoundInv

(* The machine stops, and the volume settles.                              *)
LEMMA StopSound ==
    ASSUME VolumeAssumption, PersistAdopts = FALSE, CleanInv, VolumeInv', SoundInv, Stop
    PROVE  SoundInv'
<1>1. /\ phase' = "stopped" /\ phase \notin {"off", "stopped"} /\ full' = full
      /\ nodes' = [i \in Inode |-> NoInode] /\ files' = [d \in Descriptor |-> 0]
  BY DEF Stop
<1>2. PICK s \in maybe[Super] :
         IF s.valid THEN view' = [view EXCEPT ![Super] = s] ELSE view' = LeftOpen
  BY DEF Stop
<1>3. PutAway'
  BY <1>1 DEF PutAway
<1>4. CASE s.valid
  <2>1. phase \notin {"on", "syncing"} /\ VolumeInv /\ VolumeTypeOK
    BY <1>4 DEF CleanInv, VolumeInv, Unmarked
  <2>2. phase \in {"mounting", "releasing"}
    BY <1>1, <1>4, <2>1 DEF VolumeTypeOK, CleanInv, MarkKnown
  <2>3. SameCounts(s, view[Super])
    BY <2>2 DEF CleanInv, MarkKnown
  <2>4. Formed(view)
    BY <2>1, NowFormed
  <2>5. Rests(view, full)
    <3>1. CASE phase = "mounting"
      <4>1. Stands(view, nodes, files, full)
        BY <3>1 DEF SoundInv, Mounted
      <4> QED
        BY <2>4, <4>1, StandingRests
    <3>2. CASE phase = "releasing"
      BY <3>2 DEF SoundInv
    <3> QED
      BY <2>2, <3>1, <3>2
  <2>6. PICK v : v = [view EXCEPT ![Super] = s] /\ view' = v
    BY <1>2, <1>4
  <2>7. Formed(v)
    BY <2>6, NextFormed
  <2>8. Agree(v, view) /\ v[Super] = s
    BY <2>1, <2>6, StructureIs DEF VolumeTypeOK, Agree
  <2>9. Rests(v, full)
    BY <2>3, <2>4, <2>5, <2>7, <2>8, MarkRests
  <2> QED
    BY <1>1, <1>3, <2>6, <2>9 DEF SoundInv
<1>5. CASE ~s.valid
  <2>1. view' = LeftOpen /\ ~LeftOpen[Super].valid
    BY <1>2, <1>5, MadeIs
  <2> QED
    BY <1>1, <1>3, <2>1 DEF SoundInv
<1> QED
  BY <1>4, <1>5

LEMMA SettleSound ==
    ASSUME CleanInv, SoundInv, Settle
    PROVE  SoundInv'
<1>1. phase = "stopped" /\ (\A x \in Structure : maybe[x] = {view[x]}) /\ UNCHANGED <<nodes, files, full>> /\ PutAway
  BY DEF Settle, CleanInv, Clean, MarkKnown, SoundInv
<1>2. Unsettled = {}
  <2>1. \A z : Cardinality({z}) = 1
    BY FS_Singleton
  <2>2. \A x \in Structure : ~(Cardinality(maybe[x]) > 1)
    <3> TAKE x \in Structure
    <3>1. Cardinality(maybe[x]) = 1
      BY <1>1, <2>1
    <3> QED
      BY <3>1
  <2> QED
    BY <2>2 DEF Unsettled
<1>3. view' = view /\ phase' = "off"
  BY <1>2 DEF Settle
<1>4. PutAway'
  BY <1>1, <1>3 DEF PutAway
<1>5. view'[Super].valid => Rests(view', full')
  BY <1>1, <1>3 DEF SoundInv
<1> QED
  BY <1>3, <1>4, <1>5 DEF SoundInv

(* A volume newly made.                                                    *)
LEMMA MadeHas ==
    ASSUME VolumeAssumption
    PROVE  /\ Formed(Made) /\ Made[InodeMap] = {Root} /\ Made[BlockMap] = {1} /\ Made[Group].directories = 1
           /\ InodeIn(Made, Root) = [kind |-> "dir", links |-> 2, size |-> 1, direct |-> 1, table |-> 0]
           /\ \A i \in Inode \ {Root} : InodeIn(Made, i) = NoInode
           /\ \A n \in Name : NameIn(Made, InodeIn(Made, Root), 0, n) = 0
<1>1. PerTable \in Nat \ {0} /\ Root = 1 /\ Root \in Inode /\ 1 \in DiskBlock
  BY DEF VolumeAssumption, Inode, DiskBlock, Root
<1>2. \A x \in {Super, Group, BlockMap, InodeMap} : x \in Structure /\ x[1] # "inodes" /\ x # Area(1)
  BY StructureIs, BuffersApart DEF Super, Group, BlockMap, InodeMap
<1>3. Formed(Made)
  BY MadeIs, TypedIsFormed
<1>4. Made[Group] = [freeBlocks |-> DiskBlocks - 1, freeInodes |-> Inodes - 1, directories |-> 1]
  BY <1>2, BuffersApart DEF Made
<1>5. Made[BlockMap] = {1}
  BY <1>2, BuffersApart DEF Made
<1>6. Made[InodeMap] = {Root}
  BY <1>2, BuffersApart DEF Made
<1>7. ASSUME NEW i \in Inode
      PROVE  InodeIn(Made, i) = IF i = Root THEN [NewInode("dir", 2) EXCEPT !.size = 1, !.direct = 1] ELSE NoInode
  <2>1. Table(i) \in Structure /\ Table(i)[1] = "inodes"
    BY StructureIs DEF Table
  <2>2. Made[Table(i)] = [j \in {j \in Inode : Table(j) = Table(i)} |->
                            IF j = Root THEN [NewInode("dir", 2) EXCEPT !.size = 1, !.direct = 1] ELSE NoInode]
    BY <2>1, BuffersApart DEF Made
  <2> QED
    BY <2>2 DEF InodeIn
<1>8. InodeIn(Made, Root) = [kind |-> "dir", links |-> 2, size |-> 1, direct |-> 1, table |-> 0]
  BY <1>1, <1>7 DEF NewInode
<1>9. \A n \in Name : NameIn(Made, InodeIn(Made, Root), 0, n) = 0
  <2>1. Area(1) \in Structure /\ Area(1)[1] # "inodes"
    BY <1>1, StructureIs DEF Area
  <2>2. Made[Area(1)] = Names(NoNames)
    BY <2>1, BuffersApart DEF Made
  <2>3. BlockAt(Made, InodeIn(Made, Root), 0) = 1
    BY <1>8 DEF BlockAt
  <2>4. \A n \in Name : EntriesAt(Made, InodeIn(Made, Root), 0).names[n] = 0
    BY <2>2, <2>3 DEF EntriesAt, Names, NoNames
  <2> QED
    BY <2>4 DEF NameIn
<1> QED
  BY <1>3, <1>4, <1>5, <1>6, <1>7, <1>8, <1>9

LEMMA MadeRests ==
    ASSUME VolumeAssumption
    PROVE  Rests(Made, FALSE)
<1>1. /\ Formed(Made) /\ Made[InodeMap] = {Root} /\ Made[BlockMap] = {1} /\ Made[Group].directories = 1
      /\ InodeIn(Made, Root) = [kind |-> "dir", links |-> 2, size |-> 1, direct |-> 1, table |-> 0]
      /\ \A i \in Inode \ {Root} : InodeIn(Made, i) = NoInode
      /\ \A n \in Name : NameIn(Made, InodeIn(Made, Root), 0, n) = 0
  BY MadeHas
<1>2. PerTable \in Nat \ {0} /\ Root = 1 /\ Root \in Inode
  BY DEF VolumeAssumption, Inode, Root
<1>3. PICK r \in InodeRecord : r = InodeIn(Made, Root) /\ r.kind = "dir" /\ r.links = 2 /\ r.size = 1 /\ r.direct = 1 /\ r.table = 0
  BY <1>1, <1>2, FormedIs
<1>4. NoInode \in InodeRecord /\ NoInode.kind = "none" /\ NoInode.size = 0 /\ NoInode.direct = 0 /\ NoInode.table = 0
  BY EmptyIs DEF NoInode, NewInode
<1>5. PICK N : N = OnDisk(Made) /\ N \in [Inode -> InodeRecord] /\ \A i \in Inode : N[i] = InodeIn(Made, i)
  <2>1. OnDisk(Made) \in [Inode -> InodeRecord] /\ \A i \in Inode : OnDisk(Made)[i] = InodeIn(Made, i)
    BY <1>1, FormedIs DEF OnDisk
  <2> QED
    BY <2>1
<1>6. PICK F : F = Pointing(Made, N)
  OBVIOUS
<1>7. ASSUME NEW i \in Inode, NEW p \in Place PROVE F[i][p] = IF i = Root /\ p = 0 THEN 1 ELSE 0
  <2>1. F[i][p] = PointerAt(Made, N[i], p)
    BY <1>6, PointingIs
  <2>2. CASE i = Root
    BY <1>3, <1>5, <2>1, <2>2 DEF PointerAt
  <2>3. CASE i # Root
    BY <1>1, <1>4, <1>5, <2>1, <2>3 DEF PointerAt
  <2> QED
    BY <2>2, <2>3
<1>8. Owned(F, {1}) /\ Spent(F, {1})
  <2>1. Owned(F, {1})
    BY <1>7 DEF Owned
  <2>2. 0 \in Place
    BY <1>2 DEF Place
  <2> QED
    BY <1>2, <1>7, <2>1, <2>2 DEF Spent
<1>9. BlockCount(Made) /\ InodeCount(Made)
  BY MadeIsSound DEF Sound, CountsAreRight, BlockCount, InodeCount
<1>10. ASSUME NEW i \in Inode PROVE Tallies(Made, InodeIn(Made, i), N[i], i \in Made[InodeMap], TRUE)
  <2>1. Behind(Made, InodeIn(Made, i), N[i])
    BY <1>5, BehindSelf
  <2>2. CASE i = Root
    <3>1. \A j, k \in 0 .. r.size - 1 : j = k
      BY <1>3
    <3>2. NamedOnce(Made, r)
      BY <3>1 DEF NamedOnce
    <3> QED
      BY <1>1, <1>3, <1>5, <2>1, <2>2, <3>2 DEF Tallies
  <2>3. CASE i # Root
    BY <1>1, <1>4, <1>5, <2>1, <2>3 DEF Tallies
  <2> QED
    BY <2>2, <2>3
<1>11. Sturdy(Made, N, TRUE)
  <2>1. Books(Made, N, TRUE)
    BY <1>1, <1>6, <1>8, <1>9 DEF Books
  <2> QED
    BY <1>5, <1>9, <1>10, <2>1 DEF Sturdy
<1>12. Directories(Made) = {Root}
  <2>1. \A i : i \in Directories(Made) <=> i = Root
    BY <1>1, <1>3, DirectoriesAre
  <2> QED
    BY <2>1
<1>13. Entries(Made) = {}
  <2>1. \A n \in Name : Lookup(Made, r, n) = 0
    <3> TAKE n \in Name
    <3>1. Having(Made, r, n) = {}
      <4>1. \A k \in 0 .. r.size - 1 : k = 0
        BY <1>3
      <4> QED
        BY <1>1, <1>3, <4>1 DEF Having
    <3> QED
      BY <3>1, LookupByBlock
  <2>2. \A n \in Name : Look(Made, Root, n) = 0
    BY <1>3, <2>1 DEF Look
  <2>3. \A t : t \notin Entries(Made)
    BY <1>12, <2>2, EntriesAre
  <2> QED
    BY <2>3
<1>14. NamesHold(Made, TRUE)
  <2>1. Reached({}) = {Root} /\ ChildDirectories({}, {Root}, Root) = {}
    BY DEF Reached, ChildDirectories
  <2>2. NamesStand({}, {Root}, {Root})
    BY <1>2 DEF NamesStand, NamesWithin
  <2>3. LinksOf(Made)[Root] = 2
    BY <1>2, <1>3, LinksOfIs
  <2>4. LinksStand({}, {Root}, LinksOf(Made))
    <3>1. 2 + Cardinality(ChildDirectories({}, {Root}, Root)) = 2
      BY <2>1, FS_EmptySet
    <3> QED
      BY <2>1, <2>3, <3>1 DEF LinksStand
  <2>5. Cardinality({Root}) = 1
    BY FS_Singleton
  <2> QED
    BY <1>1, <1>12, <1>13, <2>1, <2>2, <2>4, <2>5 DEF NamesHold
<1> QED
  <2>1. (~FALSE) = TRUE
    OBVIOUS
  <2> QED
    BY <1>5, <1>11, <1>14, <2>1 DEF Rests

LEMMA SoundStarts ==
    ASSUME VolumeAssumption, VolumeInit
    PROVE  SoundInv
<1>1. view = Made /\ phase = "off" /\ full = FALSE /\ PutAway
  BY DEF VolumeInit, PutAway
<1> QED
  BY <1>1, MadeRests DEF SoundInv

LEMMA SoundSteps ==
    ASSUME VolumeAssumption, PersistAdopts = FALSE, CleanInv, SoundInv, [VolumeNext]_volumeVars
    PROVE  SoundInv'
<1>1. VolumeInv
  BY DEF CleanInv
<1>2. VolumeInv'
  BY <1>1, VolumeStepKeeps
<1>3. CASE UNCHANGED volumeVars
  BY <1>3 DEF volumeVars, SoundInv, PutAway, Mounted
<1>4. CASE VolumeNext
  BY <1>1, <1>2, <1>4, CallsSound, MountSound, SyncDoneSound, UnmountSound, UnmountReadOnlySound, StopSound, SettleSound
<1> QED
  BY <1>3, <1>4

(* While the volume is mounted, what it has and what its nodes in memory   *)
(* have of it are sound, and of a volume that never was full nothing is    *)
(* lost: the calls of fs/ext2 on names and files, each a dozen writes of   *)
(* which any allocation may fail, end with names, links, the maps and the  *)
(* counts of free blocks and inodes in agreement.                          *)
THEOREM MountedVolumeIsSound ==
    ASSUME PersistAdopts = FALSE
    PROVE  VolumeSpec => []MountedIsSound
<1>1. VolumeInit => CleanInv /\ SoundInv
  BY VolumeAssumption, CleanStarts, SoundStarts
<1>2. CleanInv /\ SoundInv /\ [VolumeNext]_volumeVars => (CleanInv /\ SoundInv)'
  BY VolumeAssumption, CleanSteps, SoundSteps
<1>3. CleanInv /\ SoundInv => MountedIsSound
  <2> SUFFICES ASSUME CleanInv, SoundInv PROVE MountedIsSound
    OBVIOUS
  <2>1. phase \in {"mounting", "on", "syncing"} => Mounted /\ VolumeInv
    BY DEF CleanInv, SoundInv
  <2> QED
    BY <2>1, VolumeAssumption, MountedSound, NothingLost DEF MountedIsSound
<1> QED
  BY <1>1, <1>2, <1>3, PTL DEF VolumeSpec

(* What a crash, an unmount or a mount that did not end leaves under the   *)
(* mark of a clean unmount is sound: the order in which Ext2VfsMount,      *)
(* VfsUnmount and Ext2VfsUnmount write the mark and the rest adds no way   *)
(* to lose what MountedVolumeIsSound says.                                 *)
THEOREM CleanMediumIsSound ==
    ASSUME PersistAdopts = FALSE
    PROVE  VolumeSpec => []CleanMeansSound
<1>1. VolumeInit => CleanInv /\ SoundInv
  BY VolumeAssumption, CleanStarts, SoundStarts
<1>2. CleanInv /\ SoundInv /\ [VolumeNext]_volumeVars => (CleanInv /\ SoundInv)'
  BY VolumeAssumption, CleanSteps, SoundSteps
<1>3. CleanInv /\ SoundInv => CleanMeansSound
  <2> SUFFICES ASSUME CleanInv, SoundInv, NEW z \in maybe[Super], z.valid
               PROVE  Sound(view) /\ Clean
    BY DEF CleanMeansSound, Clean
  <2>1. phase \notin {"on", "syncing", "readonly"} /\ VolumeInv
    BY DEF CleanInv, VolumeInv, Unmarked, MarkKnown
  <2>2. phase \in {"off", "stopped", "mounting", "releasing"}
    BY <2>1 DEF VolumeInv, VolumeTypeOK
  <2>3. phase \in {"off", "stopped"} => view[Super].valid
    BY DEF CleanInv, MarkKnown
  <2>4. Formed(view)
    BY <2>1, NowFormed
  <2>5. phase = "mounting" => Sound(view)
    BY <2>1, VolumeAssumption, MountedSound DEF SoundInv
  <2>6. phase # "mounting" => Rests(view, full)
    BY <2>2, <2>3 DEF SoundInv
  <2>7. Rests(view, full) => Sound(view)
    BY <2>4, VolumeAssumption, RestingIsSound
  <2> QED
    BY <2>1, <2>5, <2>6, <2>7 DEF CleanInv
<1> QED
  BY <1>1, <1>2, <1>3, PTL DEF VolumeSpec
=============================================================================
