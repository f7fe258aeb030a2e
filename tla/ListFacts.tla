----------------------------- MODULE ListFacts -----------------------------
(***************************************************************************)
(* What the proofs about lists and about the least of some numbers share.  *)
(* A list is told by which entries it names and which stands beneath which;*)
(* an entry that stands beneath itself is there twice.                     *)
(***************************************************************************)
EXTENDS Integers, FiniteSetsExt, SequencesExt, SequenceTheorems, WellFoundedInduction, TLAPS

(***************************************************************************)
(* Least and greatest members.                                             *)
(***************************************************************************)

(* The order of the natural numbers, as a relation.                        *)
Below == {pair \in Nat \X Nat : pair[1] < pair[2]}

(* Some member of a set of numbers is the least.                           *)
LEMMA HasLeast ==
    ASSUME NEW S, S \subseteq Nat, S # {}
    PROVE  \E x \in S : \A y \in S : x <= y
<1>1. IsWellFoundedOn(Below, Nat)
  BY NatLessThanWellFounded DEF OpToRel, Below
<1>2. PICK x \in S : \A y \in S : <<y, x>> \notin Below
  BY <1>1, WFMin
<1>3. \A y \in S : x <= y
  <2> TAKE y \in S
  <2>1. <<y, x>> \in Nat \X Nat /\ ~ (<<y, x>> \in Below)
    BY <1>2
  <2>2. ~ (y < x)
    BY <2>1, Zenon DEF Below
  <2> QED
    BY <2>1, <2>2
<1> QED
  BY <1>3

(* Min is the least member.                                                *)
LEMMA LeastMember ==
    ASSUME NEW S, S \subseteq Nat, S # {}
    PROVE  Min(S) \in S /\ \A y \in S : Min(S) <= y
  BY HasLeast DEF Min

(* Max is the greatest member of a bounded set of numbers.                 *)
LEMMA GreatestMember ==
    ASSUME NEW n \in Nat, NEW S, S \subseteq 0 .. n, S # {}
    PROVE  Max(S) \in S /\ \A y \in S : Max(S) >= y
<1>1. PICK T : T = {n - x : x \in S}
  OBVIOUS
<1>2. T \subseteq Nat /\ T # {}
  <2>1. \A x \in S : n - x \in Nat
    OBVIOUS
  <2> QED
    BY <1>1, <2>1
<1>3. PICK y \in T : \A z \in T : y <= z
  BY <1>2, HasLeast
<1>4. PICK x \in S : y = n - x
  BY <1>1, <1>3
<1>5. \A z \in S : x >= z
  <2> TAKE z \in S
  <2>1. n - z \in T
    BY <1>1
  <2> QED
    BY <1>3, <1>4, <2>1
<1> QED
  BY <1>5 DEF Max

(***************************************************************************)
(* Lists: which entries are listed, and which stands beneath which.        *)
(***************************************************************************)

(* v stands beneath u.                                                     *)
Listed(l, w) == \E i \in DOMAIN l : l[i] = w
Beneath(l, v, u) == \E i, j \in DOMAIN l : i < j /\ l[i] = v /\ l[j] = u

(* RemoveAt, member by member: one place less, and what stood above it has *)
(* moved down.                                                             *)
LEMMA RemoveAtIs ==
    ASSUME NEW T, NEW l \in Seq(T), NEW p \in 1 .. Len(l)
    PROVE  /\ RemoveAt(l, p) \in Seq(T)
           /\ Len(RemoveAt(l, p)) = Len(l) - 1
           /\ \A i \in 1 .. Len(l) - 1 :
                 RemoveAt(l, p)[i] = IF i < p THEN l[i] ELSE l[i + 1]
<1>1. PICK n \in Nat : n = Len(l)
  OBVIOUS
<1>2. PICK a \in Seq(T) : /\ a = SubSeq(l, 1, p - 1) /\ Len(a) = p - 1
                               /\ \A i \in 1 .. p - 1 : a[i] = l[i]
  <2>1. /\ SubSeq(l, 1, p - 1) \in Seq(T) /\ Len(SubSeq(l, 1, p - 1)) = p - 1
        /\ \A i \in 1 .. p - 1 : SubSeq(l, 1, p - 1)[i] = l[i]
    BY <1>1
  <2> QED
    BY <2>1
<1>3. PICK b \in Seq(T) : /\ b = SubSeq(l, p + 1, n) /\ Len(b) = n - p
                               /\ \A i \in 1 .. n - p : b[i] = l[p + i]
  <2>1. /\ SubSeq(l, p + 1, n) \in Seq(T) /\ Len(SubSeq(l, p + 1, n)) = n - p
        /\ \A i \in 1 .. n - p : SubSeq(l, p + 1, n)[i] = l[p + i]
    BY <1>1
  <2> QED
    BY <2>1
<1>4. RemoveAt(l, p) = a \o b
  BY <1>1, <1>2, <1>3 DEF RemoveAt
<1>5. /\ a \o b \in Seq(T) /\ Len(a \o b) = n - 1
      /\ \A i \in 1 .. n - 1 : (a \o b)[i] = IF i <= p - 1 THEN a[i] ELSE b[i - (p - 1)]
  <2>1. Len(a) + Len(b) = n - 1
    <3>1. p \in Int /\ n \in Int
      BY <1>1
    <3>2. (p - 1) + (n - p) = n - 1
      BY <3>1
    <3> QED
      BY <1>2, <1>3, <3>2, Zenon
  <2>2. /\ a \o b \in Seq(T) /\ Len(a \o b) = Len(a) + Len(b)
        /\ \A i \in 1 .. Len(a) + Len(b) : (a \o b)[i] = IF i <= Len(a) THEN a[i] ELSE b[i - Len(a)]
    BY ConcatProperties
  <2> QED
    BY <1>2, <2>1, <2>2, Zenon
<1>6. \A i \in 1 .. n - 1 : (a \o b)[i] = IF i < p THEN l[i] ELSE l[i + 1]
  <2> TAKE i \in 1 .. n - 1
  <2>1. CASE i < p
    BY <1>1, <1>2, <1>5, <2>1
  <2>2. CASE i >= p
    <3>1. i - (p - 1) \in 1 .. n - p /\ p + (i - (p - 1)) = i + 1
      BY <1>1, <2>2
    <3> QED
      BY <1>1, <1>3, <1>5, <2>2, <3>1, SMTT(30)
  <2>3. i < p \/ i >= p
    BY <1>1
  <2> QED
    BY <2>1, <2>2, <2>3, Zenon
<1> QED
  BY <1>1, <1>4, <1>5, <1>6

(* InsertAt, member by member: one place more, and what stood from there   *)
(* on has moved up.                                                        *)
LEMMA InsertAtIs ==
    ASSUME NEW T, NEW l \in Seq(T), NEW p \in 1 .. Len(l) + 1, NEW w \in T
    PROVE  /\ InsertAt(l, p, w) \in Seq(T)
           /\ Len(InsertAt(l, p, w)) = Len(l) + 1
           /\ \A i \in 1 .. Len(l) + 1 :
                 InsertAt(l, p, w)[i] = IF i < p THEN l[i] ELSE IF i = p THEN w ELSE l[i - 1]
<1>1. PICK n \in Nat : n = Len(l)
  OBVIOUS
<1>2. PICK a \in Seq(T) : /\ a = SubSeq(l, 1, p - 1) /\ Len(a) = p - 1
                               /\ \A i \in 1 .. p - 1 : a[i] = l[i]
  <2>1. /\ SubSeq(l, 1, p - 1) \in Seq(T) /\ Len(SubSeq(l, 1, p - 1)) = p - 1
        /\ \A i \in 1 .. p - 1 : SubSeq(l, 1, p - 1)[i] = l[i]
    BY <1>1
  <2> QED
    BY <2>1
<1>3. PICK b \in Seq(T) : /\ b = SubSeq(l, p, n) /\ Len(b) = n - p + 1
                               /\ \A i \in 1 .. n - p + 1 : b[i] = l[p + i - 1]
  <2>1. /\ SubSeq(l, p, n) \in Seq(T) /\ Len(SubSeq(l, p, n)) = n - p + 1
        /\ \A i \in 1 .. n - p + 1 : SubSeq(l, p, n)[i] = l[p + i - 1]
    BY <1>1
  <2> QED
    BY <2>1
<1>4. InsertAt(l, p, w) = (a \o <<w>>) \o b
  BY <1>1, <1>2, <1>3 DEF InsertAt
<1>5. PICK c \in Seq(T) : /\ c = a \o <<w>> /\ Len(c) = p /\ c[p] = w
                               /\ \A i \in 1 .. p - 1 : c[i] = l[i]
  <2>1. /\ a \o <<w>> \in Seq(T) /\ Len(a \o <<w>>) = p /\ (a \o <<w>>)[p] = w
        /\ \A i \in 1 .. p - 1 : (a \o <<w>>)[i] = a[i]
    BY <1>2
  <2> QED
    BY <1>2, <2>1
<1>6. /\ c \o b \in Seq(T) /\ Len(c \o b) = n + 1
      /\ \A i \in 1 .. n + 1 : (c \o b)[i] = IF i <= p THEN c[i] ELSE b[i - p]
  <2>1. Len(c) + Len(b) = n + 1
    <3>1. p \in Int /\ n \in Int
      BY <1>1
    <3>2. p + (n - p + 1) = n + 1
      BY <3>1
    <3> QED
      BY <1>3, <1>5, <3>2, Zenon
  <2>2. /\ c \o b \in Seq(T) /\ Len(c \o b) = Len(c) + Len(b)
        /\ \A i \in 1 .. Len(c) + Len(b) : (c \o b)[i] = IF i <= Len(c) THEN c[i] ELSE b[i - Len(c)]
    BY ConcatProperties
  <2> QED
    BY <1>5, <2>1, <2>2, Zenon
<1>7. \A i \in 1 .. n + 1 : (c \o b)[i] = IF i < p THEN l[i] ELSE IF i = p THEN w ELSE l[i - 1]
  <2> TAKE i \in 1 .. n + 1
  <2>1. CASE i <= p
    BY <1>1, <1>5, <1>6, <2>1
  <2>2. CASE i > p
    <3>1. /\ i - p \in 1 .. n - p + 1 /\ p + (i - p) - 1 = i - 1
          /\ ~(i <= p) /\ ~(i < p) /\ i # p
      BY <1>1, <2>2
    <3>2. (c \o b)[i] = b[i - p]
      BY <1>6, <3>1
    <3>3. b[i - p] = l[i - 1]
      <4>1. b[i - p] = l[p + (i - p) - 1]
        BY <1>3, <3>1, Zenon
      <4> QED
        BY <3>1, <4>1
    <3> QED
      BY <3>1, <3>2, <3>3
  <2>3. i <= p \/ i > p
    BY <1>1
  <2> QED
    BY <2>1, <2>2, <2>3, Zenon
<1> QED
  BY <1>1, <1>4, <1>5, <1>6, <1>7

(* A list that lacks the entry at p.                                       *)
LEMMA RemovedIs ==
    ASSUME NEW T, NEW l \in Seq(T), NEW w \in T, \A v \in T : ~Beneath(l, v, v),
           NEW p \in DOMAIN l, l[p] = w, NEW t, t = RemoveAt(l, p)
    PROVE  /\ \A v \in T : Listed(t, v) <=> Listed(l, v) /\ v # w
           /\ \A v, u \in T : Beneath(t, v, u) => Beneath(l, v, u) /\ v # w /\ u # w
<1>1. PICK n \in Nat : n = Len(l) /\ DOMAIN l = 1 .. n
  OBVIOUS
<1>2. /\ t \in Seq(T) /\ Len(t) = n - 1
      /\ \A i \in 1 .. n - 1 : t[i] = IF i < p THEN l[i] ELSE l[i + 1]
  BY <1>1, RemoveAtIs
<1>3. DOMAIN t = 1 .. n - 1
  BY <1>1, <1>2
<1>4. \A i \in 1 .. n : l[i] = w => i = p
  <2> TAKE i \in 1 .. n
  <2>1. i < p \/ p < i => l[i] # w
    BY <1>1 DEF Beneath
  <2>2. p \in 1 .. n
    BY <1>1
  <2> QED
    BY <2>1, <2>2
<1> DEFINE At(i) == IF i < p THEN i ELSE i + 1
<1>5. \A i \in 1 .. n - 1 : At(i) \in 1 .. n /\ t[i] = l[At(i)] /\ At(i) # p
  <2> TAKE i \in 1 .. n - 1
  <2>1. p \in 1 .. n
    BY <1>1
  <2> QED
    BY <1>2, <2>1
<1>6. \A i, j \in 1 .. n - 1 : i < j => At(i) < At(j)
  <2>1. p \in 1 .. n
    BY <1>1
  <2> QED
    BY <2>1
<1>7. \A k \in 1 .. n : k # p => \E i \in 1 .. n - 1 : At(i) = k
  <2> TAKE k \in 1 .. n
  <2>1. p \in 1 .. n
    BY <1>1
  <2>2. CASE k < p
    <3>1. k \in 1 .. n - 1 /\ At(k) = k
      BY <2>1, <2>2
    <3> QED
      BY <3>1
  <2>3. CASE k > p
    <3>1. k - 1 \in 1 .. n - 1 /\ At(k - 1) = k
      BY <2>1, <2>3
    <3> QED
      BY <3>1
  <2> QED
    BY <2>1, <2>2, <2>3
<1> HIDE DEF At
<1>8. ASSUME NEW v \in T
      PROVE  Listed(t, v) <=> Listed(l, v) /\ v # w
  <2>1. ASSUME NEW i \in 1 .. n - 1, t[i] = v
        PROVE  Listed(l, v) /\ v # w
    BY <1>1, <1>4, <1>5, <2>1 DEF Listed
  <2>2. ASSUME NEW k \in 1 .. n, l[k] = v, v # w
        PROVE  Listed(t, v)
    <3>1. PICK i \in 1 .. n - 1 : At(i) = k
      BY <1>7, <2>2
    <3> QED
      BY <1>3, <1>5, <2>2, <3>1 DEF Listed
  <2> QED
    BY <1>1, <1>3, <2>1, <2>2 DEF Listed
<1>9. ASSUME NEW v \in T, NEW u \in T, Beneath(t, v, u)
      PROVE  Beneath(l, v, u) /\ v # w /\ u # w
  <2>1. PICK i \in 1 .. n - 1, j \in 1 .. n - 1 : i < j /\ t[i] = v /\ t[j] = u
    BY <1>3, <1>9 DEF Beneath
  <2>2. At(i) < At(j)
    BY <1>6, <2>1
  <2>3. /\ At(i) \in DOMAIN l /\ At(j) \in DOMAIN l
        /\ l[At(i)] = v /\ l[At(j)] = u /\ v # w /\ u # w
    BY <1>1, <1>4, <1>5, <2>1
  <2> QED
    BY <2>2, <2>3 DEF Beneath
<1> QED
  BY <1>8, <1>9

(* t is the list with w besides, at p.                                     *)
HasBesides(t, l, p, w) ==
    /\ Len(t) = Len(l) + 1
    /\ \A i \in 1 .. Len(l) + 1 :
          t[i] = IF i < p THEN l[i] ELSE IF i = p THEN w ELSE l[i - 1]

(* It names w and what was named, and w stands where it was put.           *)
LEMMA AddedIs ==
    ASSUME NEW T, NEW l \in Seq(T), NEW w \in T, NEW p \in 1 .. Len(l) + 1, NEW t \in Seq(T),
           HasBesides(t, l, p, w)
    PROVE  /\ \A v \in T : Listed(t, v) <=> Listed(l, v) \/ v = w
           /\ \A v, u \in T : Beneath(t, v, u) =>
                 \/ Beneath(l, v, u)
                 \/ v = w /\ \E k \in DOMAIN l : k >= p /\ l[k] = u
                 \/ u = w /\ \E k \in DOMAIN l : k < p /\ l[k] = v
<1>1. PICK n \in Nat : n = Len(l) /\ DOMAIN l = 1 .. n /\ p \in 1 .. n + 1
  OBVIOUS
<1>2. /\ t \in Seq(T) /\ Len(t) = n + 1
      /\ \A i \in 1 .. n + 1 : t[i] = IF i < p THEN l[i] ELSE IF i = p THEN w ELSE l[i - 1]
  BY <1>1 DEF HasBesides
<1>3. DOMAIN t = 1 .. n + 1
  BY <1>1, <1>2
<1> DEFINE At(i) == IF i < p THEN i ELSE i - 1
<1>4. \A i \in 1 .. n + 1 : i # p => At(i) \in 1 .. n /\ t[i] = l[At(i)]
  <2> TAKE i \in 1 .. n + 1
  <2> QED
    BY <1>1, <1>2
<1>5. t[p] = w
  BY <1>1, <1>2
<1>6. \A i, j \in 1 .. n + 1 : i < j /\ i # p /\ j # p => At(i) < At(j)
  BY <1>1
<1>7. \A i \in 1 .. n + 1 : (i < p => At(i) < p) /\ (i > p => At(i) >= p)
  BY <1>1
<1>8. \A k \in 1 .. n : \E i \in 1 .. n + 1 : i # p /\ At(i) = k
  <2> TAKE k \in 1 .. n
  <2>1. CASE k < p
    <3>1. k \in 1 .. n + 1 /\ At(k) = k /\ k # p
      BY <1>1, <2>1
    <3> QED
      BY <3>1
  <2>2. CASE k >= p
    <3>1. k + 1 \in 1 .. n + 1 /\ At(k + 1) = k /\ k + 1 # p
      BY <1>1, <2>2
    <3> QED
      BY <3>1
  <2> QED
    BY <1>1, <2>1, <2>2
<1> HIDE DEF At
<1>9. ASSUME NEW v \in T
      PROVE  Listed(t, v) <=> Listed(l, v) \/ v = w
  <2>1. ASSUME NEW i \in 1 .. n + 1, t[i] = v
        PROVE  Listed(l, v) \/ v = w
    BY <1>1, <1>4, <1>5, <2>1 DEF Listed
  <2>2. ASSUME NEW k \in 1 .. n, l[k] = v
        PROVE  Listed(t, v)
    <3>1. PICK i \in 1 .. n + 1 : i # p /\ At(i) = k
      BY <1>8, <2>2
    <3> QED
      BY <1>3, <1>4, <2>2, <3>1 DEF Listed
  <2>3. Listed(t, w)
    BY <1>1, <1>3, <1>5 DEF Listed
  <2> QED
    BY <1>1, <1>3, <2>1, <2>2, <2>3 DEF Listed
<1>10. ASSUME NEW v \in T, NEW u \in T, Beneath(t, v, u)
       PROVE  \/ Beneath(l, v, u)
              \/ v = w /\ \E k \in DOMAIN l : k >= p /\ l[k] = u
              \/ u = w /\ \E k \in DOMAIN l : k < p /\ l[k] = v
  <2>1. PICK i \in 1 .. n + 1, j \in 1 .. n + 1 : i < j /\ t[i] = v /\ t[j] = u
    BY <1>3, <1>10 DEF Beneath
  <2>2. CASE i = p
    <3>1. j # p /\ At(j) \in DOMAIN l /\ At(j) >= p /\ l[At(j)] = u
      <4>1. j # p /\ j > p
        BY <1>1, <2>1, <2>2
      <4> QED
        BY <1>1, <1>4, <1>7, <2>1, <4>1
    <3> QED
      BY <1>5, <2>1, <2>2, <3>1
  <2>3. CASE j = p
    <3>1. At(i) \in DOMAIN l /\ At(i) < p /\ l[At(i)] = v
      <4>1. i # p /\ i < p
        BY <1>1, <2>1, <2>3
      <4> QED
        BY <1>1, <1>4, <1>7, <2>1, <4>1
    <3> QED
      BY <1>5, <2>1, <2>3, <3>1
  <2>4. CASE i # p /\ j # p
    <3>1. /\ At(i) \in DOMAIN l /\ At(j) \in DOMAIN l /\ At(i) < At(j)
          /\ l[At(i)] = v /\ l[At(j)] = u
      BY <1>1, <1>4, <1>6, <2>1, <2>4
    <3> QED
      BY <3>1 DEF Beneath
  <2> QED
    BY <2>2, <2>3, <2>4
<1> QED
  BY <1>9, <1>10
=============================================================================
