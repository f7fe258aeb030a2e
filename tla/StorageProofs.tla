--------------------------- MODULE StorageProofs ---------------------------
(***************************************************************************)
(* The buffer cache, for any clients, blocks, values and capacity: its     *)
(* buffers are sound, and it implements the store of module Store.  Then   *)
(* the volume, for any sizes: what was closed is on the medium, and what   *)
(* bears the mark of a clean unmount is settled.  Then the names, links    *)
(* and blocks of a volume, and what the operations upon one inode do of    *)
(* them, which module VolumeProofs rests on.                               *)
(***************************************************************************)
EXTENDS BufferCache, Volume, ListFacts, FiniteSetTheorems, TLAPS

(* The types of everything but the recency list, which decides only which  *)
(* buffer is claimed.                                                      *)
Typed ==
    /\ holds \in [Entry -> Block \cup {Nothing}]
    /\ data \in [Entry -> Value \cup {Nothing}]
    /\ dirty \subseteq Entry
    /\ references \in [Entry -> Nat]
    /\ medium \in [Block -> Value]
    /\ registered \subseteq Device
    /\ hold \in [Client -> Entry \cup {0}]
    /\ asked \in [Client -> Block \cup {Nothing}]

Holders(e) == {c \in Client : hold[c] = e}

(* Every count is that of the holders, and who holds has what it asked for.*)
Counted ==
    /\ \A c \in Client : IF hold[c] = 0 THEN asked[c] = Nothing
                         ELSE asked[c] \in Block /\ holds[hold[c]] = asked[c]
    /\ \A e \in Entry : references[e] = Cardinality(Holders(e))

(* One buffer to a block, and of a device that is registered.              *)
Placed ==
    /\ \A e, f \in Entry : holds[e] = holds[f] /\ holds[e] # Nothing => e = f
    /\ \A e \in Entry : holds[e] # Nothing => data[e] \in Value /\ Reaches(holds[e])

(* Only a buffer with a block is dirty, and any other has what is on the   *)
(* medium.                                                                 *)
Written ==
    /\ \A e \in dirty : holds[e] # Nothing
    /\ \A e \in Entry : holds[e] # Nothing /\ e \notin dirty => data[e] = medium[holds[e]]

CacheInv == Typed /\ Counted /\ Placed /\ Written

(* What a reader of a block finds.                                         *)
ContentsFacts ==
    /\ Contents \in [Block -> Value]
    /\ \A e \in Entry : holds[e] # Nothing => Contents[holds[e]] = data[e]
    /\ \A b \in Block : ~Cached(b) => Contents[b] = medium[b]

-----------------------------------------------------------------------------
(* The constants.                                                          *)
LEMMA Basics ==
    /\ 0 \notin Entry /\ Nothing \notin Block /\ Nothing \notin Value
    /\ IsFiniteSet(Client) /\ Device = {b[1] : b \in Block}
BY CacheAssumption DEF Entry, Device

(* The clients that hold a buffer can be counted, and there are none       *)
(* exactly when the count is 0.                                            *)
LEMMA HoldersFinite ==
    ASSUME NEW e
    PROVE  /\ IsFiniteSet(Holders(e)) /\ Cardinality(Holders(e)) \in Nat
           /\ Cardinality(Holders(e)) = 0 <=> Holders(e) = {}
<1>1. Holders(e) \subseteq Client
  BY DEF Holders
<1>2. IsFiniteSet(Holders(e))
  BY <1>1, Basics, FS_Subset
<1> QED
  BY <1>2, FS_CardinalityType, FS_EmptySet

(* The block of a buffer is found in that buffer.                          *)
LEMMA ContentsIs == CacheInv => ContentsFacts
<1> SUFFICES ASSUME CacheInv PROVE ContentsFacts
  OBVIOUS
<1>1. /\ Typed /\ Placed
  BY DEF CacheInv
<1>2. ASSUME NEW e \in Entry, holds[e] # Nothing
      PROVE  holds[e] \in Block /\ Contents[holds[e]] = data[e]
  <2>1. holds[e] \in Block
    BY <1>1, <1>2 DEF Typed
  <2>2. \A f \in Entry : holds[f] = holds[e] => f = e
    BY <1>1, <1>2 DEF Placed
  <2>3. (CHOOSE f \in Entry : holds[f] = holds[e]) = e
    BY <2>2
  <2> QED
    BY <2>1, <2>3 DEF Contents, Cached
<1>3. \A b \in Block : ~Cached(b) => Contents[b] = medium[b]
  BY DEF Contents
<1>4. Contents \in [Block -> Value]
  <2>1. \A b \in Block : Contents[b] \in Value
    <3> SUFFICES ASSUME NEW b \in Block PROVE Contents[b] \in Value
      OBVIOUS
    <3>1. CASE Cached(b)
      <4>1. PICK e \in Entry : holds[e] = b
        BY <3>1 DEF Cached
      <4> QED
        BY <1>1, <1>2, <4>1, Basics DEF Placed
    <3>2. CASE ~Cached(b)
      BY <1>1, <1>3, <3>2 DEF Typed
    <3> QED
      BY <3>1, <3>2
  <2>2. Contents = [b \in Block |-> Contents[b]]
    BY DEF Contents
  <2> QED
    BY <2>1, <2>2
<1> QED
  BY <1>2, <1>3, <1>4 DEF ContentsFacts

(* What ContentsIs says of the contents holds after a step too.            *)
LEMMA ContentsNext == CacheInv' => ContentsFacts'
BY ContentsIs, PTL

(* What the write-back of some buffers leaves on the medium.               *)
LEMMA WrittenBackIs ==
    ASSUME CacheInv, NEW s \in SUBSET Entry
    PROVE  /\ WrittenBack(s) \in [Block -> Value]
           /\ \A e \in s : holds[e] # Nothing => WrittenBack(s)[holds[e]] = data[e]
           /\ \A b \in Block : (\A e \in s : holds[e] # b) => WrittenBack(s)[b] = medium[b]
           /\ \A b \in Block : WrittenBack(s)[b] \in {medium[b], Contents[b]}
<1>1. Typed /\ Placed /\ Written /\ ContentsFacts
  BY ContentsIs DEF CacheInv
<1>2. \A b \in Block : (\A e \in s \cap dirty : holds[e] # b) => WrittenBack(s)[b] = medium[b]
  BY DEF WrittenBack
<1>3. ASSUME NEW e \in s, e \in dirty
      PROVE  holds[e] \in Block /\ WrittenBack(s)[holds[e]] = data[e]
  <2>1. holds[e] \in Block /\ holds[e] # Nothing
    BY <1>1, <1>3 DEF Typed, Written
  <2>2. \A f \in s \cap dirty : holds[f] = holds[e] => f = e
    BY <1>1, <2>1 DEF Placed
  <2>3. (CHOOSE f \in s \cap dirty : holds[f] = holds[e]) = e
    BY <1>3, <2>2
  <2> QED
    BY <1>3, <2>1, <2>3 DEF WrittenBack
<1>4. ASSUME NEW e \in s, holds[e] # Nothing
      PROVE  holds[e] \in Block /\ WrittenBack(s)[holds[e]] = data[e]
  <2>1. holds[e] \in Block
    BY <1>1, <1>4 DEF Typed
  <2>2. CASE e \in dirty
    BY <1>3, <2>2
  <2>3. CASE e \notin dirty
    <3>1. \A f \in s \cap dirty : holds[f] # holds[e]
      BY <1>1, <1>4, <2>3 DEF Placed
    <3> QED
      BY <1>1, <1>2, <1>4, <2>1, <2>3, <3>1 DEF Written
  <2> QED
    BY <2>2, <2>3
<1>5. \A b \in Block : WrittenBack(s)[b] \in {medium[b], Contents[b]}
  <2> SUFFICES ASSUME NEW b \in Block, WrittenBack(s)[b] # medium[b]
               PROVE  WrittenBack(s)[b] = Contents[b]
    OBVIOUS
  <2>1. PICK e \in s \cap dirty : holds[e] = b
    BY <1>2
  <2>2. WrittenBack(s)[b] = data[e] /\ holds[e] # Nothing
    BY <1>3, <2>1, Basics
  <2> QED
    BY <1>1, <2>1, <2>2 DEF ContentsFacts
<1>6. WrittenBack(s) \in [Block -> Value]
  <2>1. \A b \in Block : WrittenBack(s)[b] \in Value
    BY <1>1, <1>5 DEF Typed, ContentsFacts
  <2>2. WrittenBack(s) = [b \in Block |-> WrittenBack(s)[b]]
    BY DEF WrittenBack
  <2> QED
    BY <2>1, <2>2
<1> QED
  BY <1>2, <1>4, <1>5, <1>6

(* A client takes or gives up a buffer.                                    *)
LEMMA HolderGained ==
    ASSUME Typed, NEW c \in Client, hold[c] = 0, NEW e \in Entry,
           hold' = [hold EXCEPT ![c] = e]
    PROVE  /\ Cardinality(Holders(e)') = Cardinality(Holders(e)) + 1
           /\ \A f \in Entry : f # e => Holders(f)' = Holders(f)
<1>1. hold'[c] = e /\ \A d \in Client : d # c => hold'[d] = hold[d]
  BY DEF Typed
<1>2. c \notin Holders(e) /\ Holders(e)' = Holders(e) \cup {c}
  BY <1>1, Basics DEF Holders
<1>3. \A f \in Entry : f # e => Holders(f)' = Holders(f)
  BY <1>1, Basics DEF Holders
<1>4. Cardinality(Holders(e) \cup {c}) = Cardinality(Holders(e)) + 1
  BY <1>2, HoldersFinite, FS_AddElement
<1> QED
  BY <1>2, <1>3, <1>4

(* A client that gives its buffer back leaves that buffer one holder       *)
(* fewer, and no other buffer any different.                               *)
LEMMA HolderLost ==
    ASSUME Typed, NEW c \in Client, NEW e \in Entry, hold[c] = e,
           hold' = [hold EXCEPT ![c] = 0]
    PROVE  /\ Cardinality(Holders(e)') = Cardinality(Holders(e)) - 1
           /\ \A f \in Entry : f # e => Holders(f)' = Holders(f)
<1>1. hold'[c] = 0 /\ \A d \in Client : d # c => hold'[d] = hold[d]
  BY DEF Typed
<1>2. c \in Holders(e) /\ Holders(e)' = Holders(e) \ {c}
  BY <1>1, Basics DEF Holders
<1>3. \A f \in Entry : f # e => Holders(f)' = Holders(f)
  BY <1>1, Basics DEF Holders
<1>4. Cardinality(Holders(e) \ {c}) = Cardinality(Holders(e)) - 1
  BY <1>2, HoldersFinite, FS_RemoveElement
<1> QED
  BY <1>2, <1>3, <1>4

(* Nobody holds a buffer whose count is zero.                              *)
LEMMA Unheld ==
    ASSUME CacheInv, NEW e \in Entry, references[e] = 0
    PROVE  Holders(e) = {} /\ \A c \in Client : hold[c] # e
<1>1. Cardinality(Holders(e)) = 0
  BY DEF CacheInv, Counted
<1>2. Holders(e) = {}
  BY <1>1, HoldersFinite
<1> QED
  BY <1>2 DEF Holders

-----------------------------------------------------------------------------
(* The calls keep the invariant.                                           *)
LEMMA GetHitKeeps ==
    ASSUME CacheInv, NEW c \in Client, NEW b \in Block, GetHit(c, b)
    PROVE  CacheInv'
<1>1. Typed /\ Counted /\ Placed /\ Written
  BY DEF CacheInv
<1>2. PICK e \in Entry : /\ holds[e] = b
                         /\ references' = [references EXCEPT ![e] = @ + 1]
                         /\ hold' = [hold EXCEPT ![c] = e]
  BY DEF GetHit
<1>3. /\ hold[c] = 0 /\ asked' = [asked EXCEPT ![c] = b]
      /\ UNCHANGED <<holds, data, dirty, medium, registered>>
  BY DEF GetHit
<1>4. Typed'
  BY <1>1, <1>2, <1>3 DEF Typed
<1>5. /\ Cardinality(Holders(e)') = Cardinality(Holders(e)) + 1
      /\ \A f \in Entry : f # e => Holders(f)' = Holders(f)
  BY <1>1, <1>2, <1>3, HolderGained
<1>6. Counted'
  <2>1. \A f \in Entry : references'[f] = Cardinality(Holders(f)')
    <3>1. references'[e] = references[e] + 1 /\ \A f \in Entry : f # e => references'[f] = references[f]
      BY <1>1, <1>2 DEF Typed
    <3> QED
      BY <1>1, <1>5, <3>1 DEF Counted
  <2>2. \A d \in Client : IF hold'[d] = 0 THEN asked'[d] = Nothing
                          ELSE asked'[d] \in Block /\ holds'[hold'[d]] = asked'[d]
    <3>1. /\ hold'[c] = e /\ asked'[c] = b /\ e # 0
          /\ \A d \in Client : d # c => hold'[d] = hold[d] /\ asked'[d] = asked[d]
      BY <1>1, <1>2, <1>3, Basics DEF Typed
    <3> QED
      BY <1>1, <1>2, <1>3, <3>1 DEF Counted
  <2> QED
    BY <2>1, <2>2 DEF Counted
<1>7. Placed' /\ Written'
  BY <1>1, <1>3 DEF Placed, Written, Reaches
<1> QED
  BY <1>4, <1>6, <1>7 DEF CacheInv

(* The write-back of some buffers leaves the other clean ones clean.       *)
LEMMA OthersStayWritten ==
    ASSUME CacheInv, NEW s \in SUBSET Entry, NEW f \in Entry \ s,
           holds[f] # Nothing, f \notin dirty
    PROVE  data[f] = WrittenBack(s)[holds[f]]
<1>1. Typed /\ Placed /\ Written
  BY DEF CacheInv
<1>2. holds[f] \in Block /\ \A e \in s : holds[e] # holds[f]
  BY <1>1 DEF Typed, Placed
<1>3. WrittenBack(s)[holds[f]] = medium[holds[f]]
  BY <1>2, WrittenBackIs
<1> QED
  BY <1>1, <1>3 DEF Written

(* A buffer nobody holds is emptied and given another block, or none.      *)
LEMMA EvictKeeps ==
    ASSUME CacheInv, NEW e \in Entry, references[e] = 0, NEW b \in Block \cup {Nothing},
           b # Nothing => ~Cached(b) /\ Reaches(b),
           medium' = WrittenBack({e}), dirty' = dirty \ {e}, registered' = registered,
           holds' = [holds EXCEPT ![e] = b],
           data' = [data EXCEPT ![e] = IF b = Nothing THEN Nothing ELSE medium'[b]]
    PROVE  /\ holds' \in [Entry -> Block \cup {Nothing}]
           /\ data' \in [Entry -> Value \cup {Nothing}]
           /\ dirty' \subseteq Entry /\ medium' \in [Block -> Value] /\ registered' \subseteq Device
           /\ Placed' /\ Written'
           /\ holds'[e] = b /\ \A f \in Entry : f # e => holds'[f] = holds[f] /\ data'[f] = data[f]
<1>1. Typed /\ Placed /\ Written
  BY DEF CacheInv
<1>2. {e} \in SUBSET Entry /\ medium' \in [Block -> Value]
  BY WrittenBackIs
<1>3. /\ holds'[e] = b /\ data'[e] = IF b = Nothing THEN Nothing ELSE medium'[b]
      /\ \A f \in Entry : f # e => holds'[f] = holds[f] /\ data'[f] = data[f]
      /\ holds' \in [Entry -> Block \cup {Nothing}]
  BY <1>1 DEF Typed
<1>4. b # Nothing => b \in Block /\ medium'[b] \in Value
  BY <1>2
<1>5. data' \in [Entry -> Value \cup {Nothing}]
  BY <1>1, <1>4 DEF Typed
<1>6. Placed'
  <2>1. b # Nothing => \A f \in Entry : holds[f] # b
    BY DEF Cached
  <2>2. \A f, g \in Entry : holds'[f] = holds'[g] /\ holds'[f] # Nothing => f = g
    BY <1>1, <1>3, <2>1 DEF Placed
  <2>3. \A f \in Entry : holds'[f] # Nothing => data'[f] \in Value /\ Reaches(holds'[f])
    BY <1>1, <1>3, <1>4 DEF Placed, Reaches
  <2>4. \A f \in Entry : holds'[f] # Nothing => data'[f] \in Value /\ holds'[f][1] \in registered'
    BY <2>3 DEF Reaches
  <2> QED
    BY <2>2, <2>4 DEF Placed, Reaches
<1>7. Written'
  <2>1. \A f \in dirty' : holds'[f] # Nothing
    BY <1>1, <1>3 DEF Written, Typed
  <2>2. \A f \in Entry : f # e /\ holds[f] # Nothing /\ f \notin dirty => data[f] = medium'[holds[f]]
    BY <1>2, OthersStayWritten
  <2>3. \A f \in Entry : holds'[f] # Nothing /\ f \notin dirty' => data'[f] = medium'[holds'[f]]
    BY <1>3, <2>2
  <2> QED
    BY <2>1, <2>3 DEF Written
<1> QED
  BY <1>1, <1>2, <1>3, <1>5, <1>6, <1>7 DEF Typed

(* BufferGet that evicts one block and reads another keeps the             *)
(* invariant.                                                              *)
LEMMA GetMissKeeps ==
    ASSUME CacheInv, NEW c \in Client, NEW b \in Block, GetMiss(c, b)
    PROVE  CacheInv'
<1>1. Typed /\ Counted
  BY DEF CacheInv
<1>2. PICK e \in Entry : /\ Victim(e) /\ medium' = EvictTo(e) /\ dirty' = dirty \ {e}
                         /\ holds' = [holds EXCEPT ![e] = b]
                         /\ data' = [data EXCEPT ![e] = medium'[b]]
                         /\ references' = [references EXCEPT ![e] = 1]
                         /\ hold' = [hold EXCEPT ![c] = e]
  BY DEF GetMiss
<1>3. /\ hold[c] = 0 /\ ~Cached(b) /\ Reaches(b) /\ asked' = [asked EXCEPT ![c] = b]
      /\ registered' = registered
  BY DEF GetMiss
<1>4. references[e] = 0 /\ medium' = WrittenBack({e}) /\ b # Nothing
  BY <1>2, Basics DEF Victim, EvictTo
<1>5. Holders(e) = {} /\ \A d \in Client : hold[d] # e
  BY <1>4, Unheld
<1>6. /\ holds' \in [Entry -> Block \cup {Nothing}]
      /\ data' \in [Entry -> Value \cup {Nothing}]
      /\ dirty' \subseteq Entry /\ medium' \in [Block -> Value] /\ registered' \subseteq Device
      /\ Placed' /\ Written'
      /\ holds'[e] = b /\ \A f \in Entry : f # e => holds'[f] = holds[f] /\ data'[f] = data[f]
  BY <1>2, <1>3, <1>4, EvictKeeps
<1>7. Typed'
  BY <1>1, <1>2, <1>3, <1>6 DEF Typed
<1>8. Counted'
  <2>1. Cardinality(Holders(e)) = 0
    BY <1>5, HoldersFinite
  <2>2. /\ Cardinality(Holders(e)') = Cardinality(Holders(e)) + 1
        /\ \A f \in Entry : f # e => Holders(f)' = Holders(f)
    BY <1>1, <1>2, <1>3, HolderGained
  <2>3. \A f \in Entry : references'[f] = Cardinality(Holders(f)')
    <3>1. references'[e] = 1 /\ \A f \in Entry : f # e => references'[f] = references[f]
      BY <1>1, <1>2 DEF Typed
    <3> QED
      BY <1>1, <2>1, <2>2, <3>1 DEF Counted
  <2>4. \A d \in Client : IF hold'[d] = 0 THEN asked'[d] = Nothing
                          ELSE asked'[d] \in Block /\ holds'[hold'[d]] = asked'[d]
    <3>1. /\ hold'[c] = e /\ asked'[c] = b /\ e # 0
          /\ \A d \in Client : d # c => hold'[d] = hold[d] /\ asked'[d] = asked[d]
      BY <1>1, <1>2, <1>3, Basics DEF Typed
    <3>2. \A d \in Client : hold[d] # 0 => holds'[hold[d]] = holds[hold[d]]
      BY <1>1, <1>5, <1>6 DEF Typed
    <3> QED
      BY <1>1, <1>6, <3>1, <3>2 DEF Counted
  <2> QED
    BY <2>3, <2>4 DEF Counted
<1> QED
  BY <1>6, <1>7, <1>8 DEF CacheInv

(* BufferGet whose read fails leaves the buffer it took empty and          *)
(* keeps the invariant.                                                    *)
LEMMA GetUnreadKeeps ==
    ASSUME CacheInv, NEW c \in Client, NEW b \in Block, GetUnread(c, b)
    PROVE  CacheInv'
<1>1. Typed /\ Counted
  BY DEF CacheInv
<1>2. PICK e \in Entry : /\ Victim(e) /\ medium' = EvictTo(e) /\ dirty' = dirty \ {e}
                         /\ holds' = [holds EXCEPT ![e] = Nothing]
                         /\ data' = [data EXCEPT ![e] = Nothing]
  BY DEF GetUnread
<1>3. UNCHANGED <<references, hold, asked, registered>>
  BY DEF GetUnread
<1>4. references[e] = 0 /\ medium' = WrittenBack({e})
  BY <1>2 DEF Victim, EvictTo
<1>5. \A d \in Client : hold[d] # e
  BY <1>4, Unheld
<1>6. /\ holds' \in [Entry -> Block \cup {Nothing}]
      /\ data' \in [Entry -> Value \cup {Nothing}]
      /\ dirty' \subseteq Entry /\ medium' \in [Block -> Value] /\ registered' \subseteq Device
      /\ Placed' /\ Written'
      /\ \A f \in Entry : f # e => holds'[f] = holds[f] /\ data'[f] = data[f]
  <2>1. Nothing \in Block \cup {Nothing} /\ registered' = registered
    BY <1>3
  <2> QED
    BY <1>2, <1>4, <2>1, EvictKeeps
<1>7. Typed'
  BY <1>1, <1>3, <1>6 DEF Typed
<1>8. Counted'
  <2>1. \A d \in Client : hold[d] # 0 => holds'[hold[d]] = holds[hold[d]]
    BY <1>1, <1>5, <1>6 DEF Typed
  <2>2. \A f : Holders(f)' = Holders(f)
    BY <1>3 DEF Holders
  <2> QED
    BY <1>1, <1>3, <2>1, <2>2 DEF Counted
<1> QED
  BY <1>6, <1>7, <1>8 DEF CacheInv

(* A client that changes the data of its buffer marks it dirty and keeps   *)
(* the invariant.                                                          *)
LEMMA AlterKeeps ==
    ASSUME CacheInv, NEW c \in Client, NEW v \in Value, Alter(c, v)
    PROVE  CacheInv'
<1>1. Typed /\ Counted /\ Placed /\ Written
  BY DEF CacheInv
<1>2. PICK e \in Entry : e = hold[c]
  BY <1>1 DEF Alter, Typed
<1>3. /\ data' = [data EXCEPT ![e] = v] /\ dirty' = dirty \cup {e} /\ hold[c] # 0
      /\ UNCHANGED <<holds, references, medium, registered, hold, asked>>
  BY <1>2 DEF Alter, MarkDirty
<1>4. Typed'
  BY <1>1, <1>3 DEF Typed
<1>5. holds[e] # Nothing
  BY <1>1, <1>2, <1>3, Basics DEF Counted
<1>6. Counted'
  BY <1>1, <1>3 DEF Counted, Holders
<1>7. data'[e] = v /\ \A f \in Entry : f # e => data'[f] = data[f]
  BY <1>1, <1>3 DEF Typed
<1>8. Placed'
  BY <1>1, <1>3, <1>7 DEF Placed, Reaches
<1>9. Written'
  BY <1>1, <1>3, <1>5, <1>7 DEF Written
<1> QED
  BY <1>4, <1>6, <1>8, <1>9 DEF CacheInv

(* BufferRelease keeps the invariant.                                      *)
LEMMA ReleaseKeeps ==
    ASSUME CacheInv, NEW c \in Client, Release(c)
    PROVE  CacheInv'
<1>1. Typed /\ Counted /\ Placed /\ Written
  BY DEF CacheInv
<1>2. PICK e \in Entry : e = hold[c]
  BY <1>1 DEF Release, Typed
<1>3. /\ references' = [references EXCEPT ![e] = @ - 1]
      /\ hold' = [hold EXCEPT ![c] = 0] /\ asked' = [asked EXCEPT ![c] = Nothing]
      /\ UNCHANGED <<holds, data, dirty, medium, registered>>
  BY <1>2 DEF Release
<1>4. /\ Cardinality(Holders(e)') = Cardinality(Holders(e)) - 1
      /\ \A f \in Entry : f # e => Holders(f)' = Holders(f)
  BY <1>1, <1>2, <1>3, HolderLost
<1>5. /\ references'[e] = references[e] - 1
      /\ \A f \in Entry : f # e => references'[f] = references[f]
  BY <1>1, <1>3 DEF Typed
<1>6. \A f \in Entry : references'[f] = Cardinality(Holders(f)')
  BY <1>1, <1>4, <1>5 DEF Counted
<1>7. \A f : Cardinality(Holders(f)') \in Nat
  <2>1. \A f : Holders(f)' \subseteq Client
    BY DEF Holders
  <2> QED
    BY <2>1, Basics, FS_Subset, FS_CardinalityType
<1>8. Typed'
  <2>1. references' \in [Entry -> Nat]
    BY <1>1, <1>3, <1>5, <1>6, <1>7 DEF Typed
  <2> QED
    BY <1>1, <1>3, <2>1 DEF Typed
<1>9. \A d \in Client : IF hold'[d] = 0 THEN asked'[d] = Nothing
                        ELSE asked'[d] \in Block /\ holds'[hold'[d]] = asked'[d]
  <2>1. /\ hold'[c] = 0 /\ asked'[c] = Nothing
        /\ \A d \in Client : d # c => hold'[d] = hold[d] /\ asked'[d] = asked[d]
    BY <1>1, <1>3 DEF Typed
  <2> QED
    BY <1>1, <1>3, <2>1 DEF Counted
<1>10. Counted'
  BY <1>6, <1>9 DEF Counted
<1>11. Placed' /\ Written'
  BY <1>1, <1>3 DEF Placed, Written, Reaches
<1> QED
  BY <1>8, <1>10, <1>11 DEF CacheInv

(* BufferFlush and BufferSync: the buffers of s are written.               *)
LEMMA WriteBackKeeps ==
    ASSUME CacheInv, NEW s \in SUBSET Entry, medium' = WrittenBack(s), dirty' = dirty \ s,
           UNCHANGED <<holds, data, references, registered, hold, asked>>
    PROVE  CacheInv'
<1>1. Typed /\ Counted /\ Placed /\ Written
  BY DEF CacheInv
<1>2. /\ medium' \in [Block -> Value]
      /\ \A e \in s : holds[e] # Nothing => medium'[holds[e]] = data[e]
  BY WrittenBackIs
<1>3. Typed'
  BY <1>1, <1>2 DEF Typed
<1>4. Counted' /\ Placed'
  BY <1>1 DEF Counted, Holders, Placed, Reaches
<1>5. Written'
  <2>1. \A f \in Entry : f \notin s /\ holds[f] # Nothing /\ f \notin dirty =>
                           data[f] = medium'[holds[f]]
    BY OthersStayWritten
  <2>2. \A f \in dirty' : holds'[f] # Nothing
    BY <1>1 DEF Written
  <2> QED
    BY <1>2, <2>1, <2>2 DEF Written
<1> QED
  BY <1>3, <1>4, <1>5 DEF CacheInv

(* Writing back one buffer, or all of them, keeps the invariant whichever  *)
(* writes fail.                                                            *)
LEMMA FlushAndSyncKeep ==
    /\ \A c \in Client : CacheInv /\ Flush(c) => CacheInv'
    /\ \A fails \in SUBSET Entry : CacheInv /\ Sync(fails) => CacheInv'
<1>1. ASSUME CacheInv, NEW c \in Client, Flush(c) PROVE CacheInv'
  <2>1. PICK e \in Entry : e = hold[c]
    BY <1>1 DEF Flush, CacheInv, Typed
  <2>2. /\ medium' = WrittenBack({e}) /\ dirty' = dirty \ {e}
        /\ UNCHANGED <<holds, data, references, registered, hold, asked>>
    BY <1>1, <2>1 DEF Flush
  <2>3. {e} \in SUBSET Entry
    OBVIOUS
  <2> QED
    BY <1>1, <2>2, <2>3, WriteBackKeeps
<1>2. ASSUME CacheInv, NEW fails \in SUBSET Entry, Sync(fails) PROVE CacheInv'
  <2>1. /\ medium' = WrittenBack(Entry \ fails)
        /\ UNCHANGED <<holds, data, references, registered, hold, asked>>
    BY <1>2 DEF Sync
  <2>2. dirty' = dirty \ (Entry \ fails) /\ Entry \ fails \in SUBSET Entry
    BY <1>2 DEF Sync, CacheInv, Typed
  <2> QED
    BY <1>2, <2>1, <2>2, WriteBackKeeps
<1> QED
  BY <1>1, <1>2

(* BufferInvalidateDevice: what is emptied nobody holds.                   *)
LEMMA InvalidateKeeps ==
    ASSUME CacheInv, NEW d \in Device, NEW fails \in SUBSET Entry, Invalidate(d, fails)
    PROVE  CacheInv'
<1>1. Typed /\ Counted /\ Placed /\ Written
  BY DEF CacheInv
<1>2. PICK gone \in SUBSET Entry : gone = {e \in Entry \ fails : OnDevice(e, d)}
  OBVIOUS
<1>3. /\ ~HeldOn(d) /\ medium' = WrittenBack(gone) /\ dirty' = dirty \ gone
      /\ holds' = [e \in Entry |-> IF e \in gone THEN Nothing ELSE holds[e]]
      /\ data' = [e \in Entry |-> IF e \in gone THEN Nothing ELSE data[e]]
      /\ UNCHANGED <<references, registered, hold, asked>>
  BY <1>2 DEF Invalidate
<1>4. medium' \in [Block -> Value]
  BY <1>3, WrittenBackIs
<1>5. Typed'
  BY <1>1, <1>3, <1>4 DEF Typed
<1>6. \A e \in gone : references[e] = 0
  BY <1>2, <1>3 DEF HeldOn
<1>7. \A c \in Client : hold[c] \notin gone
  BY <1>6, Unheld
<1>8. Counted'
  <2>1. \A c \in Client : hold[c] # 0 => holds'[hold[c]] = holds[hold[c]]
    BY <1>1, <1>3, <1>7 DEF Typed
  <2>2. \A f : Holders(f)' = Holders(f)
    BY <1>3 DEF Holders
  <2> QED
    BY <1>1, <1>3, <2>1, <2>2 DEF Counted
<1>9. \A e \in Entry : holds'[e] # Nothing =>
         e \notin gone /\ holds'[e] = holds[e] /\ data'[e] = data[e]
  BY <1>3
<1>10. Placed'
  BY <1>1, <1>3, <1>9 DEF Placed, Reaches
<1>11. Written'
  <2>1. \A f \in dirty' : holds'[f] # Nothing
    BY <1>1, <1>3 DEF Written, Typed
  <2>2. \A f \in Entry : f \notin gone /\ holds[f] # Nothing /\ f \notin dirty =>
                           data[f] = medium'[holds[f]]
    BY <1>3, OthersStayWritten
  <2> QED
    BY <1>3, <1>9, <2>1, <2>2 DEF Written
<1> QED
  BY <1>5, <1>8, <1>10, <1>11 DEF CacheInv

(* Devices come and go only when no buffer is theirs.                      *)
LEMMA UnregisterKeeps ==
    ASSUME CacheInv, NEW d \in Device, Unregister(d)
    PROVE  CacheInv'
<1>1. Typed /\ Counted /\ Placed /\ Written
  BY DEF CacheInv
<1>2. /\ \A e \in Entry : ~OnDevice(e, d)
      /\ registered' = registered \ {d}
      /\ UNCHANGED <<holds, data, dirty, references, medium, hold, asked>>
  BY DEF Unregister, tableVars
<1>3. Typed' /\ Counted' /\ Written'
  BY <1>1, <1>2 DEF Typed, Counted, Holders, Written
<1>4. Placed'
  BY <1>1, <1>2 DEF Placed, Reaches, OnDevice
<1> QED
  BY <1>3, <1>4 DEF CacheInv

(* A device registered in a slot keeps the invariant: nothing of the one   *)
(* before is in a buffer.                                                  *)
LEMMA RegisterKeeps ==
    ASSUME CacheInv, NEW d \in Device, Register(d)
    PROVE  CacheInv'
<1>1. Typed /\ Counted /\ Placed /\ Written
  BY DEF CacheInv
<1>2. /\ d \notin registered /\ registered' = registered \cup {d}
      /\ medium' \in [Block -> Value] /\ \A b \in Block : b[1] # d => medium'[b] = medium[b]
      /\ UNCHANGED <<holds, data, dirty, references, hold, asked>>
  BY DEF Register, tableVars
<1>3. Typed' /\ Counted'
  BY <1>1, <1>2 DEF Typed, Counted, Holders
<1>4. Placed'
  BY <1>1, <1>2 DEF Placed, Reaches
<1>5. \A e \in Entry : holds[e] # Nothing => holds[e] \in Block /\ holds[e][1] # d
  BY <1>1, <1>2 DEF Typed, Placed, Reaches
<1>6. Written'
  BY <1>1, <1>2, <1>5 DEF Written
<1> QED
  BY <1>3, <1>4, <1>6 DEF CacheInv

(* An empty cache is sound upon any medium.                                *)
NoBuffers ==
    /\ holds = [e \in Entry |-> Nothing] /\ data = [e \in Entry |-> Nothing] /\ dirty = {}
    /\ references = [e \in Entry |-> 0] /\ hold = [c \in Client |-> 0]
    /\ asked = [c \in Client |-> Nothing] /\ medium \in [Block -> Value]
    /\ registered \subseteq Device

(* A cache without buffers in use satisfies the invariant, whatever is on  *)
(* the media.                                                              *)
LEMMA EmptyIsSound == NoBuffers => CacheInv
<1> SUFFICES ASSUME NoBuffers PROVE CacheInv
  OBVIOUS
<1>1. Typed
  BY DEF Typed, NoBuffers
<1>2. \A e \in Entry : Holders(e) = {}
  BY Basics DEF Holders, NoBuffers
<1>3. Cardinality({}) = 0
  BY FS_EmptySet
<1>4. Counted
  BY <1>2, <1>3 DEF Counted, NoBuffers
<1>5. Placed /\ Written
  BY DEF Placed, Written, NoBuffers
<1> QED
  BY <1>1, <1>4, <1>5 DEF CacheInv

(* A machine that stops loses every buffer, which keeps the invariant.     *)
LEMMA MachineStopsKeeps == CacheInv /\ MachineStops => CacheInv'
<1>1. CacheInv /\ MachineStops => NoBuffers'
  BY DEF CacheInv, Typed, MachineStops, NoBuffers
<1>2. NoBuffers' => CacheInv'
  BY EmptyIsSound, PTL
<1> QED
  BY <1>1, <1>2

(* The cache starts in the invariant.                                      *)
LEMMA InitCache == CacheInit => CacheInv
BY EmptyIsSound DEF CacheInit, Initialised, NoBuffers

(* Every call, whatever transfer fails, every coming and going of a device *)
(* and every stop of the machine preserves the invariant.                  *)
THEOREM CacheInductive == CacheInv /\ [CacheNext]_cacheVars => CacheInv'
<1> SUFFICES ASSUME CacheInv, [CacheNext]_cacheVars PROVE CacheInv'
  OBVIOUS
<1>1. ASSUME UNCHANGED <<holds, data, dirty, references, medium, registered, hold, asked>>
      PROVE  CacheInv'
  BY <1>1 DEF CacheInv, Typed, Counted, Holders, Placed, Reaches, Written
<1>2. ASSUME NEW c \in Client, NEW b \in Block,
             GetHit(c, b) \/ GetMiss(c, b) \/ GetUnread(c, b) \/ GetRefused(c, b)
      PROVE  CacheInv'
  <2>1. GetRefused(c, b) => CacheInv'
    BY <1>1 DEF GetRefused, tableVars
  <2> QED
    BY <1>2, <2>1, GetHitKeeps, GetMissKeeps, GetUnreadKeeps
<1>3. ASSUME NEW c \in Client, NEW v \in Value, Alter(c, v) PROVE CacheInv'
  BY <1>3, AlterKeeps
<1>4. ASSUME NEW c \in Client, Release(c) \/ Flush(c) PROVE CacheInv'
  BY <1>4, ReleaseKeeps, FlushAndSyncKeep
<1>5. ASSUME NEW fails \in SUBSET Entry, Sync(fails) PROVE CacheInv'
  BY <1>5, FlushAndSyncKeep
<1>6. ASSUME NEW d \in Device, NEW fails \in SUBSET Entry, Invalidate(d, fails) PROVE CacheInv'
  BY <1>6, InvalidateKeeps
<1>7. ASSUME NEW d \in Device, InvalidateRefused(d) PROVE CacheInv'
  BY <1>1, <1>7 DEF InvalidateRefused, tableVars
<1>8. ASSUME NEW d \in Device, Unregister(d) \/ Register(d) PROVE CacheInv'
  BY <1>8, UnregisterKeeps, RegisterKeeps
<1>9. CASE MachineStops
  BY <1>9, MachineStopsKeeps
<1>10. CASE UNCHANGED cacheVars
  BY <1>1, <1>10 DEF cacheVars
<1> QED
  BY <1>2, <1>3, <1>4, <1>5, <1>6, <1>7, <1>8, <1>9, <1>10 DEF CacheNext

(* CacheInv holds in every state of every run.                             *)
LEMMA CacheAlways == CacheSpec => []CacheInv
BY InitCache, CacheInductive, PTL DEF CacheSpec

(* No held buffer changes its block, no block is in two buffers, and no    *)
(* clean buffer differs from its device, for any number of clients, blocks *)
(* and buffers (BufferClaim, BufferGet, BufferInvalidateDevice).           *)
THEOREM BuffersStaySound == CacheSpec => []BuffersSound
<1>1. CacheInv => BuffersSound
  <2> SUFFICES ASSUME CacheInv PROVE BuffersSound
    OBVIOUS
  <2>1. Typed /\ Counted /\ Placed /\ Written
    BY DEF CacheInv
  <2>2. ASSUME NEW c \in Client, hold[c] # 0
        PROVE  /\ holds[hold[c]] = asked[c]
               /\ references[hold[c]] = Cardinality({d \in Client : hold[d] = hold[c]})
    BY <2>1, <2>2 DEF Typed, Counted, Holders
  <2> QED
    BY <2>1, <2>2 DEF BuffersSound, Placed, Written
<1> QED
  BY <1>1, CacheAlways, PTL

-----------------------------------------------------------------------------

(* The refinement of Store: what each call does to the contents.           *)
Seen == [c \in Client |-> IF hold[c] = 0 THEN Nothing ELSE data[hold[c]]]

(* A medium each of whose blocks is as before or as the cache has it is a  *)
(* legal settling of the store.                                            *)
LEMMA Settles ==
    ASSUME CacheInv, medium' \in [Block -> Value],
           \A b \in Block : medium'[b] \in {medium[b], Contents[b]}
    PROVE  TheStore!Settle
<1>1. medium' = [b \in Block |-> IF b \in {a \in Block : medium'[a] = Contents[a]}
                                  THEN Contents[b] ELSE medium[b]]
  OBVIOUS
<1> QED
  BY <1>1 DEF TheStore!Settle

(* Contents that agree block by block are the same.                        *)
LEMMA SameContents ==
    ASSUME CacheInv, CacheInv', \A b \in Block : Contents'[b] = Contents[b]
    PROVE  Contents' = Contents
<1>1. ContentsFacts /\ ContentsFacts'
  BY ContentsIs, ContentsNext
<1>2. Contents \in [Block -> Value] /\ Contents' \in [Block -> Value]
  BY <1>1 DEF ContentsFacts
<1> QED
  BY <1>2

(* Who holds keeps what it sees, where its buffer keeps its contents.      *)
LEMMA SameSeen ==
    ASSUME hold' = hold, \A c \in Client : hold[c] # 0 => data'[hold[c]] = data[hold[c]]
    PROVE  Seen' = Seen
BY DEF Seen

(* BufferGet that finds the block hands out what was last written to       *)
(* it.                                                                     *)
LEMMA GetHitTakes ==
    ASSUME CacheInv, CacheInv', NEW c \in Client, NEW b \in Block, GetHit(c, b)
    PROVE  TheStore!Take(c, b) /\ TheStore!Settle
<1>1. Typed /\ Counted /\ ContentsFacts
  BY ContentsIs DEF CacheInv
<1>2. PICK e \in Entry : holds[e] = b /\ hold' = [hold EXCEPT ![c] = e]
  BY DEF GetHit
<1>3. /\ hold[c] = 0 /\ asked' = [asked EXCEPT ![c] = b] /\ reply' = "given"
      /\ UNCHANGED <<holds, data, dirty, medium, registered>>
  BY DEF GetHit
<1>4. Contents' = Contents
  BY <1>3 DEF Contents, Cached
<1>5. Contents[b] = data[e] /\ asked[c] = Nothing
  BY <1>1, <1>2, <1>3, Basics DEF ContentsFacts, Counted
<1>6. Seen' = [Seen EXCEPT ![c] = Contents[b]]
  <2>1. hold'[c] = e /\ e # 0 /\ \A d \in Client : d # c => hold'[d] = hold[d]
    BY <1>1, <1>2, Basics DEF Typed
  <2> QED
    BY <1>3, <1>5, <2>1 DEF Seen
<1>7. TheStore!Take(c, b)
  BY <1>3, <1>4, <1>5, <1>6 DEF TheStore!Take, Seen
<1>8. TheStore!Settle
  BY <1>1, <1>3, Settles DEF Typed
<1> QED
  BY <1>7, <1>8

(* An eviction is invisible.                                               *)
LEMMA EvictHides ==
    ASSUME CacheInv, CacheInv', NEW e \in Entry, NEW b \in Block \cup {Nothing},
           b # Nothing => ~Cached(b), medium' = WrittenBack({e}),
           holds'[e] = b, b # Nothing => data'[e] = medium'[b],
           \A f \in Entry : f # e => holds'[f] = holds[f] /\ data'[f] = data[f]
    PROVE  Contents' = Contents /\ TheStore!Settle
<1>1. Placed /\ ContentsFacts /\ ContentsFacts'
  BY ContentsIs, ContentsNext DEF CacheInv
<1>2. /\ medium' \in [Block -> Value]
      /\ holds[e] # Nothing => medium'[holds[e]] = data[e]
      /\ \A a \in Block : holds[e] # a => medium'[a] = medium[a]
      /\ \A a \in Block : medium'[a] \in {medium[a], Contents[a]}
  <2>1. {e} \in SUBSET Entry
    OBVIOUS
  <2> QED
    BY <2>1, WrittenBackIs
<1>3. ASSUME NEW a \in Block PROVE Contents'[a] = Contents[a]
  <2>1. a # Nothing
    BY Basics
  <2>2. CASE a = b
    <3>1. Contents'[a] = medium'[a] /\ Contents[a] = medium[a] /\ holds[e] # a
      BY <1>1, <2>1, <2>2 DEF ContentsFacts, Cached
    <3> QED
      BY <1>2, <3>1
  <2>3. CASE a # b /\ holds[e] = a
    <3>1. \A f \in Entry : holds'[f] # a
      BY <1>1, <2>1, <2>3 DEF Placed
    <3>2. Contents'[a] = medium'[a]
      BY <1>1, <3>1 DEF ContentsFacts, Cached
    <3>3. Contents[a] = data[e]
      BY <1>1, <2>1, <2>3 DEF ContentsFacts
    <3> QED
      BY <1>2, <2>1, <2>3, <3>2, <3>3
  <2>4. CASE a # b /\ holds[e] # a /\ Cached(a)
    <3>1. PICK f \in Entry : holds[f] = a
      BY <2>4 DEF Cached
    <3>2. f # e /\ holds'[f] = a /\ data'[f] = data[f]
      BY <2>4, <3>1
    <3> QED
      BY <1>1, <2>1, <3>1, <3>2 DEF ContentsFacts
  <2>5. CASE a # b /\ holds[e] # a /\ ~Cached(a)
    <3>1. \A f \in Entry : holds'[f] # a
      BY <2>5 DEF Cached
    <3> QED
      BY <1>1, <1>2, <2>5, <3>1 DEF ContentsFacts, Cached
  <2> QED
    BY <2>2, <2>3, <2>4, <2>5
<1>4. Contents' = Contents
  BY <1>3, SameContents
<1> QED
  BY <1>2, <1>4, Settles

(* BufferGet that has to read hands out what was last written: it is       *)
(* on the medium, for the victim was written back before it was given up.  *)
LEMMA GetMissTakes ==
    ASSUME CacheInv, CacheInv', NEW c \in Client, NEW b \in Block, GetMiss(c, b)
    PROVE  TheStore!Take(c, b) /\ TheStore!Settle
<1>1. Typed /\ Counted /\ ContentsFacts'
  BY ContentsNext DEF CacheInv
<1>2. PICK e \in Entry : /\ Victim(e) /\ medium' = EvictTo(e)
                         /\ holds' = [holds EXCEPT ![e] = b]
                         /\ data' = [data EXCEPT ![e] = medium'[b]]
                         /\ hold' = [hold EXCEPT ![c] = e]
  BY DEF GetMiss
<1>3. /\ hold[c] = 0 /\ ~Cached(b) /\ asked' = [asked EXCEPT ![c] = b] /\ reply' = "given"
  BY DEF GetMiss
<1>4. references[e] = 0 /\ medium' = WrittenBack({e}) /\ b # Nothing /\ asked[c] = Nothing
  BY <1>1, <1>2, <1>3, Basics DEF Victim, EvictTo, Counted
<1>5. \A d \in Client : hold[d] # e
  BY <1>4, Unheld
<1>6. /\ holds'[e] = b /\ data'[e] = medium'[b]
      /\ \A f \in Entry : f # e => holds'[f] = holds[f] /\ data'[f] = data[f]
  BY <1>1, <1>2 DEF Typed
<1>7. Contents' = Contents /\ TheStore!Settle
  BY <1>3, <1>4, <1>6, EvictHides
<1>8. Contents[b] = data'[e]
  BY <1>1, <1>4, <1>6, <1>7 DEF ContentsFacts
<1>9. Seen' = [Seen EXCEPT ![c] = Contents[b]]
  <2>1. hold'[c] = e /\ e # 0 /\ \A d \in Client : d # c => hold'[d] = hold[d]
    BY <1>1, <1>2, Basics DEF Typed
  <2>2. \A d \in Client : hold[d] # 0 => data'[hold[d]] = data[hold[d]]
    BY <1>1, <1>5, <1>6 DEF Typed
  <2> QED
    BY <1>8, <2>1, <2>2 DEF Seen
<1>10. TheStore!Take(c, b)
  BY <1>3, <1>4, <1>7, <1>9 DEF TheStore!Take, Seen
<1> QED
  BY <1>7, <1>10

(* BufferGet whose read fails is a failed request of the store.            *)
LEMMA GetUnreadFails ==
    ASSUME CacheInv, CacheInv', NEW c \in Client, NEW b \in Block, GetUnread(c, b)
    PROVE  TheStore!Fail /\ TheStore!Settle
<1>1. Typed
  BY DEF CacheInv
<1>2. PICK e \in Entry : /\ Victim(e) /\ medium' = EvictTo(e)
                         /\ holds' = [holds EXCEPT ![e] = Nothing]
                         /\ data' = [data EXCEPT ![e] = Nothing]
  BY DEF GetUnread
<1>3. reply' = "failed" /\ UNCHANGED <<references, hold, asked, registered>>
  BY DEF GetUnread
<1>4. references[e] = 0 /\ medium' = WrittenBack({e})
  BY <1>2 DEF Victim, EvictTo
<1>5. \A d \in Client : hold[d] # e
  BY <1>4, Unheld
<1>6. /\ holds'[e] = Nothing
      /\ \A f \in Entry : f # e => holds'[f] = holds[f] /\ data'[f] = data[f]
  BY <1>1, <1>2 DEF Typed
<1>7. Contents' = Contents /\ TheStore!Settle
  <2>1. Nothing \in Block \cup {Nothing}
    OBVIOUS
  <2> QED
    BY <1>4, <1>6, <2>1, EvictHides
<1>8. Seen' = Seen
  BY <1>1, <1>3, <1>5, <1>6, SameSeen DEF Typed
<1> QED
  BY <1>3, <1>7, <1>8 DEF TheStore!Fail, Seen

(* Two clients see the same buffer exactly where they hold the same block. *)
LEMMA AlterChanges ==
    ASSUME CacheInv, CacheInv', NEW c \in Client, NEW v \in Value, Alter(c, v)
    PROVE  TheStore!Change(c, v)
<1>1. Typed /\ Counted /\ Placed /\ ContentsFacts /\ ContentsFacts'
  BY ContentsIs, ContentsNext DEF CacheInv
<1>2. PICK e \in Entry : e = hold[c]
  BY <1>1 DEF Alter, Typed
<1>3. /\ data' = [data EXCEPT ![e] = v] /\ hold[c] # 0
      /\ UNCHANGED <<holds, medium, registered, hold, asked, reply>>
  BY <1>2 DEF Alter
<1>4. asked[c] \in Block /\ holds[e] = asked[c] /\ asked[c] # Nothing
  BY <1>1, <1>2, <1>3, Basics DEF Counted
<1>5. data'[e] = v /\ \A f \in Entry : f # e => data'[f] = data[f]
  BY <1>1, <1>3 DEF Typed
<1>6. Contents' = [Contents EXCEPT ![asked[c]] = v]
  <2>1. Contents \in [Block -> Value] /\ Contents' \in [Block -> Value]
    BY <1>1 DEF ContentsFacts
  <2>2. Contents'[asked[c]] = v
    BY <1>1, <1>3, <1>4, <1>5 DEF ContentsFacts
  <2>3. ASSUME NEW a \in Block, a # asked[c] PROVE Contents'[a] = Contents[a]
    <3>1. CASE Cached(a)
      <4>1. PICK f \in Entry : holds[f] = a
        BY <3>1 DEF Cached
      <4>2. f # e /\ a # Nothing
        BY <1>4, <2>3, <4>1, Basics
      <4> QED
        BY <1>1, <1>3, <1>5, <4>1, <4>2 DEF ContentsFacts
    <3>2. CASE ~Cached(a)
      BY <1>1, <1>3, <3>2 DEF ContentsFacts, Cached
    <3> QED
      BY <3>1, <3>2
  <2> QED
    BY <1>4, <2>1, <2>2, <2>3
<1>7. ASSUME NEW d \in Client
      PROVE  Seen'[d] = IF asked[d] = asked[c] THEN v ELSE Seen[d]
  <2>1. CASE hold[d] = 0
    BY <1>1, <1>3, <1>4, <2>1 DEF Counted, Seen
  <2>2. CASE hold[d] # 0
    <3>1. hold[d] \in Entry /\ holds[hold[d]] = asked[d]
      BY <1>1, <2>2 DEF Typed, Counted
    <3>2. asked[d] = asked[c] <=> hold[d] = e
      BY <1>1, <1>4, <3>1 DEF Placed
    <3> QED
      BY <1>3, <1>5, <2>2, <3>1, <3>2 DEF Seen
  <2> QED
    BY <2>1, <2>2
<1>8. Seen' = [d \in Client |-> IF asked[d] = asked[c] THEN v ELSE Seen[d]]
  <2>1. Seen' = [d \in Client |-> Seen'[d]]
    BY DEF Seen
  <2> QED
    BY <1>7, <2>1
<1> QED
  BY <1>3, <1>4, <1>6, <1>8 DEF TheStore!Change, Seen

(* BufferRelease is the store's giving back.                               *)
LEMMA ReleaseGives ==
    ASSUME CacheInv, NEW c \in Client, Release(c)
    PROVE  TheStore!Give(c)
<1>1. Typed /\ Counted
  BY DEF CacheInv
<1>2. /\ hold[c] # 0 /\ hold' = [hold EXCEPT ![c] = 0] /\ asked' = [asked EXCEPT ![c] = Nothing]
      /\ UNCHANGED <<holds, data, dirty, medium, registered, reply>>
  BY DEF Release
<1>3. asked[c] # Nothing /\ Contents' = Contents
  BY <1>1, <1>2, Basics DEF Counted, Contents, Cached
<1>4. Seen' = [Seen EXCEPT ![c] = Nothing]
  <2>1. hold'[c] = 0 /\ \A d \in Client : d # c => hold'[d] = hold[d]
    BY <1>1, <1>2 DEF Typed
  <2>2. data' = data
    BY <1>2
  <2>3. ASSUME NEW d \in Client
        PROVE  Seen'[d] = IF d = c THEN Nothing ELSE Seen[d]
    <3>1. CASE d = c
      BY <2>1, <3>1 DEF Seen
    <3>2. CASE d # c
      BY <2>1, <2>2, <3>2 DEF Seen
    <3> QED
      BY <3>1, <3>2
  <2>4. Seen' = [d \in Client |-> Seen'[d]] /\ Seen = [d \in Client |-> Seen[d]]
    BY DEF Seen
  <2>5. Seen' = [d \in Client |-> IF d = c THEN Nothing ELSE Seen[d]]
    BY <2>3, <2>4
  <2>6. DOMAIN Seen = Client
    BY DEF Seen
  <2> QED
    BY <2>5, <2>6
<1> QED
  BY <1>2, <1>3, <1>4 DEF TheStore!Give, Seen

(* A write-back changes what is durable and nothing else; one of every     *)
(* buffer makes everything durable.                                        *)
LEMMA WriteBackSettles ==
    ASSUME CacheInv, CacheInv', NEW s \in SUBSET Entry, medium' = WrittenBack(s),
           UNCHANGED <<holds, data, hold>>
    PROVE  /\ Contents' = Contents /\ Seen' = Seen /\ TheStore!Settle
           /\ s = Entry => medium' = Contents
<1>1. Typed /\ ContentsFacts /\ ContentsFacts'
  BY ContentsIs, ContentsNext DEF CacheInv
<1>2. /\ medium' \in [Block -> Value]
      /\ \A e \in s : holds[e] # Nothing => medium'[holds[e]] = data[e]
      /\ \A a \in Block : (\A e \in s : holds[e] # a) => medium'[a] = medium[a]
      /\ \A a \in Block : medium'[a] \in {medium[a], Contents[a]}
  BY WrittenBackIs
<1>3. ASSUME NEW a \in Block
      PROVE  Contents'[a] = Contents[a] /\ (s = Entry => medium'[a] = Contents[a])
  <2>1. CASE Cached(a)
    <3>1. PICK f \in Entry : holds[f] = a /\ a # Nothing
      BY <2>1, Basics DEF Cached
    <3> QED
      BY <1>1, <1>2, <3>1 DEF ContentsFacts
  <2>2. CASE ~Cached(a)
    BY <1>1, <1>2, <2>2 DEF ContentsFacts, Cached
  <2> QED
    BY <2>1, <2>2
<1>4. Contents' = Contents
  BY <1>3, SameContents
<1>5. s = Entry => medium' = Contents
  BY <1>1, <1>2, <1>3 DEF ContentsFacts
<1>6. Seen' = Seen
  BY DEF Seen
<1> QED
  BY <1>2, <1>4, <1>5, <1>6, Settles

(* Writing back one buffer changes at most what is durable.                *)
LEMMA FlushSettles ==
    ASSUME CacheInv, CacheInv', NEW c \in Client, Flush(c)
    PROVE  TheStore!Settle /\ UNCHANGED <<Contents, asked, Seen, reply>>
<1>1. PICK e \in Entry : e = hold[c]
  BY DEF Flush, CacheInv, Typed
<1>2. /\ medium' = WrittenBack({e}) /\ {e} \in SUBSET Entry
      /\ UNCHANGED <<holds, data, hold, asked, reply>>
  BY <1>1 DEF Flush
<1> QED
  BY <1>2, WriteBackSettles

(* Writing back everything makes everything durable, or is a failed        *)
(* request.                                                                *)
LEMMA SyncSettles ==
    ASSUME CacheInv, CacheInv', NEW fails \in SUBSET Entry, Sync(fails)
    PROVE  TheStore!Synchronise \/ (TheStore!Fail /\ TheStore!Settle)
<1>1. /\ medium' = WrittenBack(Entry \ fails) /\ Entry \ fails \in SUBSET Entry
      /\ UNCHANGED <<holds, data, hold, asked>>
      /\ reply' = IF fails = {} THEN "synced" ELSE "failed"
  BY DEF Sync
<1>2. /\ Contents' = Contents /\ Seen' = Seen /\ TheStore!Settle
      /\ Entry \ fails = Entry => medium' = Contents
  BY <1>1, WriteBackSettles
<1>3. CASE fails = {}
  BY <1>1, <1>2, <1>3 DEF TheStore!Synchronise, Seen
<1>4. CASE fails # {}
  BY <1>1, <1>2, <1>4 DEF TheStore!Fail, Seen
<1> QED
  BY <1>3, <1>4

(* Nobody holds a block of a device of which no buffer is held.            *)
LEMMA HeldElsewhere ==
    ASSUME CacheInv, NEW d, ~HeldOn(d), NEW c \in Client, asked[c] # Nothing
    PROVE  asked[c][1] # d
<1>1. Typed /\ Counted
  BY DEF CacheInv
<1>2. PICK e \in Entry : hold[c] = e /\ holds[e] = asked[c] /\ holds[e] # Nothing
  BY <1>1 DEF Typed, Counted
<1>3. references[e] # 0
  BY <1>2, Unheld
<1> QED
  BY <1>2, <1>3 DEF HeldOn, OnDevice

(* Invalidation writes everything back before it discards, or fails.       *)
LEMMA InvalidateDiscards ==
    ASSUME CacheInv, CacheInv', NEW d \in Device, NEW fails \in SUBSET Entry,
           Invalidate(d, fails)
    PROVE  TheStore!Settle /\ (TheStore!Discard \/ TheStore!Fail)
<1>1. Typed /\ Placed /\ ContentsFacts /\ ContentsFacts'
  BY ContentsIs, ContentsNext DEF CacheInv
<1>2. PICK gone \in SUBSET Entry : gone = {e \in Entry \ fails : OnDevice(e, d)}
  OBVIOUS
<1>3. /\ ~HeldOn(d) /\ medium' = WrittenBack(gone)
      /\ holds' = [e \in Entry |-> IF e \in gone THEN Nothing ELSE holds[e]]
      /\ data' = [e \in Entry |-> IF e \in gone THEN Nothing ELSE data[e]]
      /\ reply' = IF fails = {} THEN "discarded" ELSE "failed"
      /\ UNCHANGED <<hold, asked>>
  BY <1>2 DEF Invalidate
<1>4. /\ medium' \in [Block -> Value]
      /\ \A e \in gone : holds[e] # Nothing => medium'[holds[e]] = data[e]
      /\ \A a \in Block : (\A e \in gone : holds[e] # a) => medium'[a] = medium[a]
      /\ \A a \in Block : medium'[a] \in {medium[a], Contents[a]}
  BY <1>3, WrittenBackIs
<1>5. ASSUME NEW a \in Block
      PROVE  Contents'[a] = Contents[a] /\ (fails = {} /\ a[1] = d => medium'[a] = Contents[a])
  <2>1. CASE Cached(a)
    <3>1. PICK f \in Entry : holds[f] = a /\ a # Nothing
      BY <2>1, Basics DEF Cached
    <3>2. Contents[a] = data[f]
      BY <1>1, <3>1 DEF ContentsFacts
    <3>3. CASE f \in gone
      <4>1. medium'[a] = data[f]
        BY <1>4, <3>1, <3>3
      <4>2. \A g \in Entry : holds'[g] # a
        BY <1>1, <1>3, <3>1, <3>3 DEF Placed
      <4>3. Contents'[a] = medium'[a]
        BY <1>1, <4>2 DEF ContentsFacts, Cached
      <4> QED
        BY <3>2, <4>1, <4>3
    <3>4. CASE f \notin gone
      <4>1. holds'[f] = a /\ data'[f] = data[f]
        BY <1>3, <3>1, <3>4
      <4>2. Contents'[a] = data[f]
        BY <1>1, <3>1, <4>1 DEF ContentsFacts
      <4>3. ~(fails = {} /\ a[1] = d)
        BY <1>2, <3>1, <3>4 DEF OnDevice
      <4> QED
        BY <3>2, <4>2, <4>3
    <3> QED
      BY <3>3, <3>4
  <2>2. CASE ~Cached(a)
    <3>1. medium'[a] = medium[a] /\ Contents[a] = medium[a]
      BY <1>1, <1>4, <2>2 DEF ContentsFacts, Cached
    <3>2. \A g \in Entry : holds'[g] # a
      BY <1>3, <2>2, Basics DEF Cached
    <3>3. Contents'[a] = medium'[a]
      BY <1>1, <3>2 DEF ContentsFacts, Cached
    <3> QED
      BY <3>1, <3>3
  <2> QED
    BY <2>1, <2>2
<1>6. Contents' = Contents /\ TheStore!Settle
  BY <1>4, <1>5, SameContents, Settles
<1>7. Seen' = Seen
  <2>1. \A e \in gone : references[e] = 0
    BY <1>2, <1>3 DEF HeldOn
  <2>2. \A c \in Client : hold[c] \notin gone
    BY <2>1, Unheld
  <2> QED
    BY <1>1, <1>3, <2>2, SameSeen DEF Typed
<1>8. CASE fails = {}
  <2>1. PICK b \in Block : b[1] = d
    BY Basics
  <2>2. \A c \in Client : asked[c] # Nothing => asked[c][1] # b[1]
    BY <1>3, <2>1, HeldElsewhere
  <2>3. \A a \in Block : a[1] = b[1] => medium'[a] = Contents[a]
    BY <1>5, <1>8, <2>1
  <2>4. TheStore!Discard
    BY <1>3, <1>6, <1>7, <1>8, <2>2, <2>3 DEF TheStore!Discard, Seen
  <2> QED
    BY <1>6, <2>4
<1>9. CASE fails # {}
  BY <1>3, <1>6, <1>7, <1>9 DEF TheStore!Fail, Seen
<1> QED
  BY <1>8, <1>9

(* Registering a device replaces the contents of its blocks and no others. *)
LEMMA RegisterReplaces ==
    ASSUME CacheInv, CacheInv', NEW d \in Device, Register(d)
    PROVE  \E b \in Block : TheStore!Replace(b)
<1>1. Typed /\ Counted /\ Placed /\ ContentsFacts /\ ContentsFacts'
  BY ContentsIs, ContentsNext DEF CacheInv
<1>2. /\ d \notin registered
      /\ medium' \in [Block -> Value] /\ \A b \in Block : b[1] # d => medium'[b] = medium[b]
      /\ UNCHANGED <<holds, data, hold, asked, reply>>
  BY DEF Register, tableVars
<1>3. \A e \in Entry : holds[e] # Nothing => holds[e][1] # d
  BY <1>1, <1>2 DEF Placed, Reaches
<1>4. PICK b \in Block : b[1] = d
  BY Basics
<1>5. ~HeldOn(d)
  BY <1>3 DEF HeldOn, OnDevice
<1>6. \A c \in Client : asked[c] # Nothing => asked[c][1] # b[1]
  BY <1>4, <1>5, HeldElsewhere
<1>7. ASSUME NEW a \in Block
      PROVE  /\ a[1] = b[1] => Contents[a] = medium[a] /\ Contents'[a] = medium'[a]
             /\ a[1] # b[1] => Contents'[a] = Contents[a] /\ medium'[a] = medium[a]
  <2>1. CASE Cached(a)
    <3>1. PICK f \in Entry : holds[f] = a /\ a # Nothing
      BY <2>1, Basics DEF Cached
    <3>2. a[1] # b[1] /\ Contents[a] = data[f] /\ Contents'[a] = data[f]
      BY <1>1, <1>2, <1>3, <1>4, <3>1 DEF ContentsFacts
    <3> QED
      BY <1>2, <1>4, <3>2
  <2>2. CASE ~Cached(a)
    <3>1. Contents[a] = medium[a] /\ Contents'[a] = medium'[a]
      BY <1>1, <1>2, <2>2 DEF ContentsFacts, Cached
    <3> QED
      BY <1>2, <1>4, <3>1
  <2> QED
    BY <2>1, <2>2
<1>8. /\ Contents' \in [Block -> Value]
      /\ medium' = [a \in Block |-> IF a[1] = b[1] THEN Contents'[a] ELSE medium[a]]
  BY <1>1, <1>2, <1>7 DEF ContentsFacts
<1>9. Seen' = Seen
  BY <1>2 DEF Seen
<1>10. TheStore!Replace(b)
  BY <1>2, <1>6, <1>7, <1>8, <1>9 DEF TheStore!Replace, Seen
<1> QED
  BY <1>10

(* A machine that stops is left with what was durable.                     *)
LEMMA MachineStopsStops ==
    ASSUME CacheInv, CacheInv', MachineStops
    PROVE  TheStore!Stop
<1>1. Typed /\ ContentsFacts'
  BY ContentsNext DEF CacheInv
<1>2. /\ holds' = [e \in Entry |-> Nothing] /\ hold' = [c \in Client |-> 0]
      /\ asked' = [c \in Client |-> Nothing] /\ reply' = "none" /\ medium' = medium
  BY DEF MachineStops
<1>3. \A b \in Block : Contents'[b] = medium[b]
  BY <1>1, <1>2, Basics DEF ContentsFacts, Cached
<1>4. Contents' = medium
  BY <1>1, <1>3 DEF ContentsFacts, Typed
<1>5. Seen' = [c \in Client |-> Nothing]
  BY <1>2 DEF Seen
<1> QED
  BY <1>2, <1>4, <1>5 DEF TheStore!Stop, Seen

(* Every step of the cache is a step of the store, or none.                *)
LEMMA StoreStep ==
    CacheInv /\ CacheInv' /\ [CacheNext]_cacheVars => [TheStore!StoreNext]_(TheStore!storeVars)
<1> SUFFICES ASSUME CacheInv, CacheInv', [CacheNext]_cacheVars
             PROVE  TheStore!StoreNext \/ UNCHANGED TheStore!storeVars
  OBVIOUS
<1>1. ASSUME UNCHANGED <<holds, data, medium, hold, asked>>
      PROVE  UNCHANGED <<Contents, medium, asked, Seen>> /\ TheStore!Settle
  <2>1. medium \in [Block -> Value]
    BY DEF CacheInv, Typed
  <2> QED
    BY <1>1, <2>1, Settles DEF Contents, Cached, Seen
<1>2. ASSUME NEW c \in Client, NEW b \in Block,
             GetHit(c, b) \/ GetMiss(c, b) \/ GetUnread(c, b) \/ GetRefused(c, b)
      PROVE  TheStore!StoreNext
  <2>1. CASE GetHit(c, b) \/ GetMiss(c, b)
    BY <2>1, GetHitTakes, GetMissTakes DEF TheStore!StoreNext
  <2>2. CASE GetUnread(c, b)
    BY <2>2, GetUnreadFails DEF TheStore!StoreNext
  <2>3. CASE GetRefused(c, b)
    <3>1. reply' = "failed" /\ UNCHANGED <<holds, data, medium, hold, asked>>
      BY <2>3 DEF GetRefused, tableVars
    <3>2. TheStore!Fail /\ TheStore!Settle
      BY <1>1, <3>1 DEF TheStore!Fail, Seen
    <3> QED
      BY <3>2 DEF TheStore!StoreNext
  <2> QED
    BY <1>2, <2>1, <2>2, <2>3
<1>3. ASSUME NEW c \in Client, NEW v \in Value, Alter(c, v) PROVE TheStore!StoreNext
  BY <1>3, AlterChanges DEF TheStore!StoreNext
<1>4. ASSUME NEW c \in Client, Release(c) PROVE TheStore!StoreNext
  BY <1>4, ReleaseGives DEF TheStore!StoreNext
<1>5. ASSUME NEW c \in Client, Flush(c) PROVE TheStore!StoreNext
  BY <1>5, FlushSettles DEF TheStore!StoreNext, Seen
<1>6. ASSUME NEW fails \in SUBSET Entry, Sync(fails) PROVE TheStore!StoreNext
  BY <1>6, SyncSettles DEF TheStore!StoreNext
<1>7. ASSUME NEW d \in Device, NEW fails \in SUBSET Entry, Invalidate(d, fails)
      PROVE  TheStore!StoreNext
  BY <1>7, InvalidateDiscards DEF TheStore!StoreNext
<1>8. ASSUME NEW d \in Device, InvalidateRefused(d) PROVE TheStore!StoreNext
  <2>1. reply' = "failed" /\ UNCHANGED <<holds, data, medium, hold, asked>>
    BY <1>8 DEF InvalidateRefused, tableVars
  <2>2. TheStore!Fail /\ TheStore!Settle
    BY <1>1, <2>1 DEF TheStore!Fail, Seen
  <2> QED
    BY <2>2 DEF TheStore!StoreNext
<1>9. ASSUME NEW d \in Device, Unregister(d) PROVE UNCHANGED TheStore!storeVars
  <2>1. UNCHANGED <<holds, data, medium, hold, asked, reply>>
    BY <1>9 DEF Unregister, tableVars
  <2> QED
    BY <1>1, <2>1 DEF TheStore!storeVars, Seen
<1>10. ASSUME NEW d \in Device, Register(d) PROVE TheStore!StoreNext
  BY <1>10, RegisterReplaces DEF TheStore!StoreNext
<1>11. CASE MachineStops
  BY <1>11, MachineStopsStops DEF TheStore!StoreNext
<1>12. CASE UNCHANGED cacheVars
  <2>1. UNCHANGED <<holds, data, medium, hold, asked, reply>>
    BY <1>12 DEF cacheVars
  <2> QED
    BY <1>1, <2>1 DEF TheStore!storeVars, Seen
<1> QED
  BY <1>2, <1>3, <1>4, <1>5, <1>6, <1>7, <1>8, <1>9, <1>10, <1>11, <1>12 DEF CacheNext

(* The cache is invisible, for any clients, blocks, devices and capacity:  *)
(* a block read is the block last written whatever was evicted, what is on *)
(* the medium was once in the block, and a BufferSync that succeeded left  *)
(* nothing behind.                                                         *)
THEOREM CacheIsStore == CacheSpec => IsStore
<1>1. CacheInit => TheStore!Empty
  <2> SUFFICES ASSUME CacheInit PROVE TheStore!Empty
    OBVIOUS
  <2>1. CacheInv /\ ContentsFacts
    BY InitCache, ContentsIs
  <2>2. /\ \A e \in Entry : holds[e] = Nothing
        /\ medium \in [Block -> Value] /\ hold = [c \in Client |-> 0]
        /\ asked = [c \in Client |-> Nothing] /\ reply = "none"
    BY DEF CacheInit, Initialised
  <2>3. \A b \in Block : Contents[b] = medium[b]
    BY <2>1, <2>2, Basics DEF ContentsFacts, Cached
  <2>4. Contents = medium
    BY <2>1, <2>2, <2>3 DEF ContentsFacts
  <2> QED
    BY <2>2, <2>4 DEF TheStore!Empty
<1>2. CacheInv /\ [CacheNext]_cacheVars => [TheStore!StoreNext]_(TheStore!storeVars)
  BY CacheInductive, StoreStep
<1> QED
  BY <1>1, <1>2, CacheAlways, PTL DEF CacheSpec, IsStore, TheStore!StoreSpec

(***************************************************************************)
(* The recency list.                                                       *)
(***************************************************************************)

(* The list names every buffer, and each once.                             *)
Whole(l) ==
    /\ l \in Seq(Entry)
    /\ \A e \in Entry : Listed(l, e) /\ ~Beneath(l, e, e)

ListInv ==
    /\ Whole(recency)
    /\ reply \in {"none", "given", "failed", "synced", "discarded"}

(* BufferDetach takes out that entry alone.                                *)
LEMMA DetachedIs ==
    ASSUME NEW l, Whole(l), NEW e \in Entry, NEW t, t = Detached(l, e)
    PROVE  /\ t \in Seq(Entry)
           /\ \A f \in Entry : ~Beneath(t, f, f) /\ (Listed(t, f) <=> f # e)
<1>1. l \in Seq(Entry) /\ \A f \in Entry : Listed(l, f) /\ ~Beneath(l, f, f)
  BY DEF Whole
<1>2. PICK n \in Nat : n = Len(l) /\ DOMAIN l = 1 .. n
  BY <1>1
<1>3. PICK places : places = Listings(l, e) /\ places = {i \in 1 .. n : l[i] = e}
  BY <1>2 DEF Listings
<1>4. places # {} /\ places \subseteq Nat
  BY <1>1, <1>2, <1>3 DEF Listed
<1>5. PICK p \in 1 .. n : p = Min(places) /\ l[p] = e
  BY <1>3, <1>4, LeastMember
<1>6. t = RemoveAt(l, p)
  BY <1>3, <1>4, <1>5 DEF Detached
<1>7. t \in Seq(Entry)
  BY <1>1, <1>2, <1>6, RemoveAtIs
<1>8. /\ \A v \in Entry : Listed(t, v) <=> Listed(l, v) /\ v # e
      /\ \A v, u \in Entry : Beneath(t, v, u) => Beneath(l, v, u) /\ v # e /\ u # e
  BY <1>1, <1>2, <1>5, <1>6, RemovedIs
<1> QED
  BY <1>1, <1>7, <1>8

(* With the entry put in again at one place, the list is whole again.      *)
LEMMA PutBackIs ==
    ASSUME NEW l \in Seq(Entry), NEW e \in Entry, NEW t \in Seq(Entry),
           \A f \in Entry : ~Beneath(l, f, f) /\ (Listed(l, f) <=> f # e),
           NEW p \in 1 .. Len(l) + 1, HasBesides(t, l, p, e)
    PROVE  Whole(t)
<1>1. /\ \A v \in Entry : Listed(t, v) <=> Listed(l, v) \/ v = e
      /\ \A v, u \in Entry : Beneath(t, v, u) =>
            \/ Beneath(l, v, u)
            \/ v = e /\ \E k \in DOMAIN l : k >= p /\ l[k] = u
            \/ u = e /\ \E k \in DOMAIN l : k < p /\ l[k] = v
  BY AddedIs
<1>2. \A k \in DOMAIN l : l[k] # e
  BY DEF Listed
<1> QED
  BY <1>1, <1>2 DEF Whole

(* BufferTouch, and BufferInvalidateDevice's turn for one entry.           *)
LEMMA TouchIs ==
    ASSUME Whole(recency), NEW e \in Entry
    PROVE  Whole(Touch(e))
<1>1. PICK d \in Seq(Entry) : /\ d = Detached(recency, e)
                              /\ \A f \in Entry : ~Beneath(d, f, f) /\ (Listed(d, f) <=> f # e)
  BY DetachedIs
<1>2. /\ Append(d, e) \in Seq(Entry) /\ Len(Append(d, e)) = Len(d) + 1
      /\ Len(d) + 1 \in 1 .. Len(d) + 1
      /\ \A i \in 1 .. Len(d) + 1 :
            Append(d, e)[i] = IF i < Len(d) + 1 THEN d[i]
                              ELSE IF i = Len(d) + 1 THEN e ELSE d[i - 1]
  OBVIOUS
<1>3. HasBesides(Append(d, e), d, Len(d) + 1, e)
  BY <1>2 DEF HasBesides
<1>4. Whole(Append(d, e))
  BY <1>1, <1>2, <1>3, PutBackIs
<1> QED
  BY <1>1, <1>4 DEF Touch

(* An entry that is moved to the old end leaves each listed once.          *)
LEMMA PutOldestIs ==
    ASSUME NEW l, Whole(l), NEW gone, NEW e \in Entry
    PROVE  Whole(PutOldest(l, gone, e))
<1>1. CASE e \notin gone
  BY <1>1 DEF PutOldest
<1>2. CASE e \in gone
  <2>1. PICK d \in Seq(Entry) : /\ d = Detached(l, e)
                                /\ \A f \in Entry : ~Beneath(d, f, f) /\ (Listed(d, f) <=> f # e)
    BY DetachedIs
  <2>2. PICK t : t = <<e>> \o d
    OBVIOUS
  <2>3. /\ t \in Seq(Entry) /\ Len(t) = Len(d) + 1
        /\ \A i \in 1 .. Len(d) + 1 : t[i] = IF i = 1 THEN e ELSE d[i - 1]
    <3>1. /\ <<e>> \in Seq(Entry) /\ Len(<<e>>) = 1 /\ <<e>>[1] = e
      OBVIOUS
    <3>2. /\ t \in Seq(Entry) /\ Len(t) = Len(<<e>>) + Len(d)
          /\ \A i \in 1 .. Len(<<e>>) + Len(d) :
                t[i] = IF i <= Len(<<e>>) THEN <<e>>[i] ELSE d[i - Len(<<e>>)]
      BY <2>2, <3>1, ConcatProperties
    <3>3. Len(d) \in Nat
      OBVIOUS
    <3>4. \A i \in 1 .. 1 + Len(d) : i <= 1 <=> i = 1
      BY <3>3
    <3> QED
      BY <3>1, <3>2, <3>3, <3>4
  <2>4. 1 \in 1 .. Len(d) + 1 /\ HasBesides(t, d, 1, e)
    BY <2>3 DEF HasBesides
  <2>5. Whole(t)
    BY <2>1, <2>3, <2>4, PutBackIs
  <2> QED
    BY <1>2, <2>1, <2>2, <2>5 DEF PutOldest, Cons
<1> QED
  BY <1>1, <1>2

(* The lists on the way of BufferInvalidateDevice through the table.       *)
LEMMA DiscardedOneByOne ==
    ASSUME NEW gone, NEW l, l = recency
    PROVE  \E f : /\ f = [e \in 0 .. Capacity |-> IF e = 0 THEN l ELSE PutOldest(f[e - 1], gone, e)]
                  /\ Discarded(gone) = f[Capacity]
<1> DEFINE Way(n, f) == f = [e \in 0 .. n |-> IF e = 0 THEN l ELSE PutOldest(f[e - 1], gone, e)]
<1>1. Capacity \in Nat
  BY CacheAssumption
<1>2. Way(0, [e \in 0 .. 0 |-> l])
  OBVIOUS
<1>3. ASSUME NEW n \in Nat \ {0}, NEW f, Way(n - 1, f)
      PROVE  \E g : Way(n, g)
  <2>1. PICK g : g = [e \in 0 .. n |-> IF e = n THEN PutOldest(f[n - 1], gone, n) ELSE f[e]]
    OBVIOUS
  <2>2. n - 1 \in 0 .. n - 1 /\ n - 1 \in 0 .. n /\ n - 1 # n
    OBVIOUS
  <2>3. g[n] = PutOldest(g[n - 1], gone, n)
    BY <2>1, <2>2
  <2>4. \A e \in 0 .. n : e # n => e \in 0 .. n - 1 /\ g[e] = f[e]
    BY <2>1
  <2>5. \A e \in 0 .. n - 1 : f[e] = IF e = 0 THEN l ELSE PutOldest(f[e - 1], gone, e)
    BY <1>3
  <2>6. \A e \in 0 .. n : e # 0 => e - 1 \in 0 .. n /\ e - 1 # n
    OBVIOUS
  <2>7. \A e \in 0 .. n : g[e] = IF e = 0 THEN l ELSE PutOldest(g[e - 1], gone, e)
    <3> TAKE e \in 0 .. n
    <3>1. CASE e = n
      BY <2>3, <3>1
    <3>2. CASE e # n /\ e = 0
      BY <2>4, <2>5, <3>2
    <3>3. CASE e # n /\ e # 0
      <4>1. g[e - 1] = f[e - 1] /\ g[e] = f[e]
        BY <2>4, <2>6, <3>3
      <4> QED
        BY <2>4, <2>5, <3>3, <4>1
    <3> QED
      BY <3>1, <3>2, <3>3
  <2> QED
    BY <2>1, <2>7
<1> HIDE DEF Way
<1>4. \E f : Way(Capacity, f)
  <2>1. PICK bad : bad = {n \in Nat : ~ \E f : Way(n, f)}
    OBVIOUS
  <2>2. ASSUME bad # {}
        PROVE  FALSE
    <3>1. PICK n \in bad : \A m \in bad : n <= m
      BY <2>1, <2>2, HasLeast
    <3>2. n # 0 /\ n \in Nat
      BY <1>2, <2>1
    <3>3. n - 1 \in Nat /\ n - 1 \notin bad
      BY <3>1, <3>2
    <3>4. PICK f : Way(n - 1, f)
      BY <2>1, <3>3
    <3> QED
      BY <1>3, <2>1, <3>2, <3>4
  <2> QED
    BY <1>1, <2>1, <2>2
<1>5. PICK f : f = CHOOSE g : Way(Capacity, g)
  OBVIOUS
<1>6. Way(Capacity, f)
  BY <1>4, <1>5
<1>7. Discarded(gone) = f[Capacity]
  BY <1>5 DEF Discarded, Way
<1> QED
  BY <1>6, <1>7 DEF Way

(* BufferInvalidateDevice loses no buffer and lists none twice.            *)
LEMMA DiscardedIs ==
    ASSUME Whole(recency), NEW gone
    PROVE  Whole(Discarded(gone))
<1>1. PICK l : l = recency /\ Whole(l)
  OBVIOUS
<1>2. PICK f : /\ f = [e \in 0 .. Capacity |-> IF e = 0 THEN l ELSE PutOldest(f[e - 1], gone, e)]
               /\ Discarded(gone) = f[Capacity]
  BY <1>1, DiscardedOneByOne
<1>3. Capacity \in Nat
  BY CacheAssumption
<1>4. PICK bad : bad = {n \in Nat : n <= Capacity /\ ~Whole(f[n])}
  OBVIOUS
<1>5. ASSUME bad # {}
      PROVE  FALSE
  <2>1. PICK n \in bad : \A m \in bad : n <= m
    BY <1>4, <1>5, HasLeast
  <2>2. f[0] = l
    BY <1>2, <1>3
  <2>3. n # 0 /\ n \in 1 .. Capacity
    BY <1>1, <1>4, <2>1, <2>2
  <2>4. n - 1 \in Nat /\ n - 1 \notin bad /\ n - 1 <= Capacity
    BY <1>3, <2>1, <2>3
  <2>5. Whole(f[n - 1])
    BY <1>4, <2>4
  <2>6. f[n] = PutOldest(f[n - 1], gone, n)
    BY <1>2, <1>3, <2>3
  <2>7. n \in Entry
    BY <2>3 DEF Entry
  <2>8. Whole(PutOldest(f[n - 1], gone, n))
    BY <2>5, <2>7, PutOldestIs
  <2> QED
    BY <1>4, <2>1, <2>6, <2>8
<1>6. Whole(f[Capacity])
  BY <1>3, <1>4, <1>5
<1> QED
  BY <1>2, <1>6

(* The list as BufferInitialise makes it.                                  *)
LEMMA FirstListIs == Whole([e \in Entry |-> e])
<1>1. PICK l : l = [e \in Entry |-> e]
  OBVIOUS
<1>2. Capacity \in Nat /\ Entry = 1 .. Capacity
  BY CacheAssumption DEF Entry
<1>3. l \in Seq(Entry) /\ DOMAIN l = Entry /\ \A e \in Entry : l[e] = e
  BY <1>1, <1>2
<1>4. \A e \in Entry : Listed(l, e)
  BY <1>3 DEF Listed
<1>5. \A e \in Entry : ~Beneath(l, e, e)
  BY <1>2, <1>3 DEF Beneath
<1> QED
  BY <1>1, <1>3, <1>4, <1>5 DEF Whole

(* Every step of the cache keeps the list whole.                           *)
LEMMA ListStep ==
    ASSUME ListInv, [CacheNext]_cacheVars
    PROVE  ListInv'
<1>1. Whole(recency)
  BY DEF ListInv
<1>2. CASE UNCHANGED <<recency, reply>>
  BY <1>2 DEF ListInv
<1>3. ASSUME NEW c \in Client, NEW b \in Block,
             GetHit(c, b) \/ GetMiss(c, b) \/ GetUnread(c, b) \/ GetRefused(c, b)
      PROVE  ListInv'
  <2>1. CASE GetHit(c, b) \/ GetMiss(c, b)
    <3>1. PICK e \in Entry : recency' = Touch(e) /\ reply' = "given"
      BY <2>1 DEF GetHit, GetMiss
    <3> QED
      BY <1>1, <3>1, TouchIs DEF ListInv
  <2>2. CASE GetUnread(c, b) \/ GetRefused(c, b)
    BY <1>1, <2>2 DEF GetUnread, GetRefused, ListInv, tableVars
  <2> QED
    BY <1>3, <2>1, <2>2
<1>4. ASSUME NEW d \in Device, NEW fails \in SUBSET Entry, Invalidate(d, fails)
      PROVE  ListInv'
  <2>1. PICK gone : recency' = Discarded(gone)
    BY <1>4 DEF Invalidate
  <2>2. reply' \in {"discarded", "failed"}
    BY <1>4 DEF Invalidate
  <2> QED
    BY <1>1, <2>1, <2>2, DiscardedIs DEF ListInv
<1>5. CASE MachineStops
  BY <1>5, FirstListIs DEF MachineStops, ListInv
<1>6. ASSUME NEW fails \in SUBSET Entry, Sync(fails)
      PROVE  ListInv'
  BY <1>1, <1>6 DEF Sync, ListInv
<1>7. ASSUME NEW d \in Device, InvalidateRefused(d) \/ Unregister(d) \/ Register(d)
      PROVE  ListInv'
  BY <1>7, <1>1 DEF InvalidateRefused, Unregister, Register, tableVars, ListInv
<1>8. ASSUME NEW c \in Client, Release(c) \/ Flush(c) \/ \E v \in Value : Alter(c, v)
      PROVE  UNCHANGED <<recency, reply>>
  BY <1>8 DEF Release, Flush, Alter
<1>9. CASE UNCHANGED cacheVars
  BY <1>2, <1>9 DEF cacheVars
<1> QED
  BY <1>2, <1>3, <1>4, <1>5, <1>6, <1>7, <1>8, <1>9 DEF CacheNext

(* So it is always whole.                                                  *)
LEMMA ListAlways == CacheSpec => []ListInv
<1>1. CacheInit => ListInv
  BY FirstListIs DEF CacheInit, Initialised, ListInv
<1> QED
  BY <1>1, ListStep, PTL DEF CacheSpec

(* Every buffer can be found and used again: it is in the recency list,    *)
(* and once (BufferTouch, BufferDetach, BufferInvalidateDevice).           *)
THEOREM BuffersStayListed == CacheSpec => []EachListedOnce
<1>1. ListInv => EachListedOnce
  <2> SUFFICES ASSUME ListInv, NEW e \in Entry
               PROVE  Cardinality({i \in 1 .. Len(recency) : recency[i] = e}) = 1
    BY DEF EachListedOnce
  <2>1. PICK n \in Nat : n = Len(recency) /\ DOMAIN recency = 1 .. n
    BY DEF ListInv, Whole
  <2>2. PICK i \in 1 .. n : recency[i] = e
    BY <2>1 DEF ListInv, Whole, Listed
  <2>3. \A j \in 1 .. n : recency[j] = e => j = i
    <3> TAKE j \in 1 .. n
    <3>1. ~(i < j /\ recency[j] = e) /\ ~(j < i /\ recency[j] = e)
      BY <2>1, <2>2 DEF ListInv, Whole, Beneath
    <3> QED
      BY <3>1
  <2>4. {j \in 1 .. Len(recency) : recency[j] = e} = {i}
    BY <2>1, <2>2, <2>3
  <2> QED
    BY <2>4, FS_Singleton
<1> QED
  BY <1>1, ListAlways, PTL

(* The cache's tables have the types they are meant to have.               *)
THEOREM CacheTypeCorrect == CacheSpec => []CacheTypeOK
<1>1. CacheInv /\ ListInv => CacheTypeOK
  BY DEF CacheInv, ListInv, Typed, Whole, CacheTypeOK
<1> QED
  BY <1>1, CacheAlways, ListAlways, PTL

(***************************************************************************)
(* The volume.                                                             *)
(***************************************************************************)

(* With no file open and nothing refused, what the medium has is what the  *)
(* cache has, whenever the volume is not being written back.               *)
SettledWhenClosed ==
    /\ DOMAIN files = Descriptor
    /\ phase = "on" /\ ~full /\ (\A d \in Descriptor : files[d] = 0) => maybe = AllWritten

(* The record an operation carries has what it got last.                   *)
HasGot(s) == "got" \in DOMAIN s

(* A write into a buffer leaves what was got.                              *)
LEMMA PutHasGot ==
    ASSUME NEW s, HasGot(s), NEW x, NEW value
    PROVE  HasGot(Put(s, x, value)) /\ Put(s, x, value).got = s.got
  BY DEF Put, HasGot

(* Ext2AllocateBlock leaves the record one, whatever comes of it.          *)
LEMMA AllocateBlockHasGot ==
    ASSUME NEW s, HasGot(s)
    PROVE  HasGot(AllocateBlock(s))
<1>1. HasGot(Refuse(s))
  BY DEF Refuse, HasGot
<1>2. ASSUME NEW t, HasGot(t), NEW b
      PROVE  HasGot([t EXCEPT !.got = b])
  BY <1>2 DEF HasGot
<1>3. \A b : HasGot(Adjust(Adjust(Put(s, BlockMap, s.v[BlockMap] \cup {b}), Group, "freeBlocks", -1),
                           Super, "freeBlocks", -1))
  BY PutHasGot DEF Adjust
<1> QED
  BY <1>1, <1>2, <1>3 DEF AllocateBlock

(* So does Ext2InodeBlockAllocate, with or without a table to make.        *)
LEMMA AllocateAtHasGot ==
    ASSUME NEW s, HasGot(s), NEW index
    PROVE  HasGot(AllocateAt(s, index))
<1>1. ASSUME NEW t, HasGot(t)
      PROVE  HasGot(WithTable(t))
  <2>1. HasGot(AllocateBlock(t))
    BY <1>1, AllocateBlockHasGot
  <2>2. ASSUME NEW a, HasGot(a)
        PROVE  HasGot(PutTable(a))
    <3>1. HasGot(Put(a, Area(a.got), Pointers(NoPointers)))
      BY <2>2, PutHasGot
    <3>2. HasGot([Put(a, Area(a.got), Pointers(NoPointers)) EXCEPT !.i.table = a.got])
      BY <3>1 DEF HasGot
    <3> QED
      BY <2>2, <3>2 DEF PutTable
  <2> QED
    BY <1>1, <2>1, <2>2 DEF WithTable
<1>2. ASSUME NEW b, HasGot(b)
      PROVE  HasGot(PutPointer(b, index))
  <2>1. HasGot([b EXCEPT !.i.direct = b.got])
    BY <1>2 DEF HasGot
  <2>2. HasGot(Put(b, Area(b.i.table),
                   Pointers([TableOf(b.v, b.i.table) EXCEPT ![index - 1] = b.got])))
    BY <1>2, PutHasGot
  <2> QED
    BY <1>2, <2>1, <2>2 DEF PutPointer
<1>3. HasGot([s EXCEPT !.got = BlockAt(s.v, s.i, index)])
  BY DEF HasGot
<1> QED
  BY <1>1, <1>2, <1>3, AllocateBlockHasGot DEF AllocateAt

(* And Ext2DirectoryInsert, into a block with room or a new one.           *)
LEMMA InsertHasGot ==
    ASSUME NEW s, HasGot(s), NEW dir, NEW n, NEW i
    PROVE  HasGot(Insert(s, dir, n, i))
<1>1. HasGot(Refuse(s))
  BY DEF Refuse, HasGot
<1>2. ASSUME NEW a, HasGot(a), NEW b
      PROVE  HasGot(SetName(a, b, n, i))
  BY <1>2, PutHasGot DEF SetName
<1>3. ASSUME NEW a, HasGot(a)
      PROVE  HasGot(Grow(a, dir, n, i))
  <2>1. HasGot(Put(a, Area(a.got), Names(NoNames)))
    BY <1>3, PutHasGot
  <2>2. PICK b : b = [Put(a, Area(a.got), Names(NoNames)) EXCEPT !.i.size = @ + 1]
    OBVIOUS
  <2>3. HasGot(b)
    BY <2>1, <2>2 DEF HasGot
  <2>4. HasGot(SetName(WriteInode(b, dir, b.i), a.got, n, i))
    BY <1>2, <2>3, PutHasGot DEF WriteInode
  <2> QED
    BY <1>3, <2>2, <2>4 DEF Grow
<1>4. HasGot(AllocateAt(s, s.i.size))
  BY AllocateAtHasGot
<1> QED
  BY <1>1, <1>2, <1>3, <1>4 DEF Insert

(* The number CreateFile gives a file is no descriptor's "closed".         *)
LEMMA NewFileHasInode ==
    ASSUME VolumeAssumption, NEW inode, NEW dir, NEW n, NEW s,
           s = CreateFile(Begin(inode), dir, n), s.ok
    PROVE  s.got # 0
<1>1. PICK t : t = Begin(inode)
  OBVIOUS
<1>2. HasGot(t)
  BY <1>1 DEF Begin, HasGot
<1>3. PICK a : a = AllocateInode(t, FALSE)
  OBVIOUS
<1>4. ASSUME a.ok
      PROVE  HasGot(a) /\ a.got # 0
  <2>1. PICK free : free = Inode \ t.v[InodeMap]
    OBVIOUS
  <2>2. ~Refuse(t).ok
    BY <1>1 DEF Refuse, Begin
  <2>3. PICK b : HasGot(b) /\ a = [b EXCEPT !.got = Min(free)] /\ free # {}
    <3>1. \A x, value : HasGot(Put(t, x, value))
      BY <1>2, PutHasGot
    <3>2. \A x, value, y, other : HasGot(Put(Put(t, x, value), y, other))
      BY <3>1, PutHasGot
    <3>3. \A x, value, y, other, z, field, by : HasGot(Adjust(Put(Put(t, x, value), y, other), z, field, by))
      BY <3>2, PutHasGot DEF Adjust
    <3> QED
      BY <1>3, <1>4, <2>1, <2>2, <3>3 DEF AllocateInode
  <2>4. Min(free) \in free /\ free \subseteq Nat \ {0}
    <3>1. free \subseteq Nat \ {0}
      BY <2>1 DEF Inode
    <3> QED
      BY <2>3, <3>1, LeastMember
  <2> QED
    BY <2>3, <2>4 DEF HasGot
<1>5. a.ok
  <2>1. ~a.ok => s = a
    BY <1>1, <1>3 DEF CreateFile
  <2> QED
    BY <2>1
<1>6. HasGot(Insert(WriteInode(a, a.got, NewInode("file", 1)), dir, n, a.got))
  BY <1>4, <1>5, PutHasGot, InsertHasGot DEF WriteInode
<1>7. s = [Insert(WriteInode(a, a.got, NewInode("file", 1)), dir, n, a.got) EXCEPT !.got = a.got]
  BY <1>1, <1>3, <1>5 DEF CreateFile
<1> QED
  BY <1>4, <1>5, <1>6, <1>7 DEF HasGot

(* One step of the volume: a call that alters names or closes a file is    *)
(* followed by the writing back, one that leaves the volume as it was has  *)
(* a file open, and one that was refused is remembered by full.            *)
LEMMA VolumeStep ==
    ASSUME VolumeAssumption, SettledWhenClosed, [VolumeNext]_volumeVars
    PROVE  SettledWhenClosed'
<1> USE DEF SettledWhenClosed
<1>1. ASSUME NEW dir \in Inode, NEW n \in Name, Mkdir(dir, n)
      PROVE  SettledWhenClosed'
  BY <1>1 DEF Mkdir, Finish, AfterNames
<1>2. ASSUME NEW dir \in Inode, NEW n \in Name, Rmdir(dir, n)
      PROVE  SettledWhenClosed'
  BY <1>2 DEF Rmdir, Finish, AfterNames
<1>3. ASSUME NEW dir \in Inode, NEW n \in Name, Unlink(dir, n)
      PROVE  SettledWhenClosed'
  <2>1. PICK s : UNCHANGED files /\ phase' = AfterNames(s) /\ full' = (full \/ ~s.ok)
    <3>1. PICK s : /\ Finish([s EXCEPT !.i = NodeOf(dir)], dir) /\ phase' = AfterNames(s)
                   /\ s = UnlinkName(Begin(NodeOf(dir)), n) /\ UNCHANGED files
      BY <1>3 DEF Unlink
    <3>2. [s EXCEPT !.i = NodeOf(dir)].ok = s.ok
      OBVIOUS
    <3> QED
      BY <3>1, <3>2 DEF Finish
  <2> QED
    BY <2>1 DEF AfterNames
<1>4. ASSUME NEW dir \in Inode, NEW n \in Name, NEW i \in Inode, Link(i, dir, n)
      PROVE  SettledWhenClosed'
  BY <1>4 DEF Link, AfterNames
<1>5. ASSUME NEW dir \in Inode, NEW n \in Name, NEW d \in Descriptor, OpenNew(d, dir, n)
      PROVE  SettledWhenClosed'
  <2>1. PICK s : /\ s = CreateFile(Begin(NodeOf(dir)), dir, n) /\ full' = (full \/ ~s.ok)
                 /\ files' = IF s.ok THEN [files EXCEPT ![d] = s.got] ELSE files
    BY <1>5 DEF OpenNew
  <2>2. s.ok => s.got # 0
    BY <2>1, NewFileHasInode
  <2> QED
    BY <2>1, <2>2
<1>6. ASSUME NEW dir \in Inode, NEW n \in Name, NEW d \in Descriptor, NEW truncate \in BOOLEAN,
             Open(d, dir, n, truncate)
      PROVE  SettledWhenClosed'
  <2>1. PICK i : i # 0 /\ files' = [files EXCEPT ![d] = i]
    BY <1>6 DEF Open
  <2> QED
    BY <2>1
<1>7. ASSUME NEW d \in Descriptor, NEW index \in 0 .. PerTable, NEW count \in 1 .. 2,
             Write(d, index, count)
      PROVE  SettledWhenClosed'
  <2>1. files[d] # 0 /\ UNCHANGED files
    BY <1>7 DEF Write
  <2> QED
    BY <2>1
<1>8. ASSUME NEW d \in Descriptor, Close(d)
      PROVE  SettledWhenClosed'
  BY <1>8 DEF Close, AfterClose
<1>9. CASE Mount
  BY <1>9 DEF Mount
<1>10. CASE SyncDone
  <2>1. AllWritten' = AllWritten
    BY <1>10 DEF SyncDone, AllWritten
  <2> QED
    BY <1>10, <2>1 DEF SyncDone
<1>11. CASE Unmount
  BY <1>11 DEF Unmount
<1>12. CASE UnmountReadOnly
  BY <1>12 DEF UnmountReadOnly
<1>13. CASE Stop
  BY <1>13 DEF Stop
<1>14. CASE Settle
  BY <1>14 DEF Settle
<1>15. CASE UNCHANGED volumeVars
  <2>1. AllWritten' = AllWritten
    BY <1>15 DEF volumeVars, AllWritten
  <2> QED
    BY <1>15, <2>1 DEF volumeVars
<1> QED
  BY <1>1, <1>2, <1>3, <1>4, <1>5, <1>6, <1>7, <1>8, <1>9, <1>10, <1>11, <1>12, <1>13, <1>14,
     <1>15 DEF VolumeNext

(* A machine that stops with every file closed, and no call ever refused,  *)
(* loses nothing: whatever is not yet on the medium, some file is open or  *)
(* the call goes on (ext2_vfs.c, vfs.c: VfsMountIsDurable, VfsClose).      *)
THEOREM ClosedFilesAreDurable == VolumeSpec => []ClosedIsDurable
<1>1. VolumeInit => SettledWhenClosed
  BY DEF VolumeInit, SettledWhenClosed, AllWritten
<1>2. SettledWhenClosed /\ [VolumeNext]_volumeVars => SettledWhenClosed'
  BY VolumeStep, VolumeAssumption
<1>3. SettledWhenClosed => ClosedIsDurable
  BY DEF SettledWhenClosed, ClosedIsDurable, AllWritten
<1> QED
  BY <1>1, <1>2, <1>3, PTL DEF VolumeSpec

-----------------------------------------------------------------------------
(* The types of the volume: what every buffer, and every version of it     *)
(* that the medium may hold, may be.  An operation of ext2 is followed from*)
(* write to write.                                                         *)

(* The buffers of the volume are what they are called, each one thing.     *)
LEMMA StructureIs ==
    /\ Super \in Structure /\ Group \in Structure /\ BlockMap \in Structure /\ InodeMap \in Structure
    /\ \A i \in Inode : Table(i) \in Structure
    /\ \A b \in DiskBlock : Area(b) \in Structure
  BY DEF Structure

(* No buffer is another.                                                   *)
LEMMA BuffersApart ==
    /\ Super # Group /\ Super # BlockMap /\ Super # InodeMap
    /\ Group # BlockMap /\ Group # InodeMap /\ BlockMap # InodeMap
    /\ \A i : Table(i) # Super /\ Table(i) # Group /\ Table(i) # BlockMap /\ Table(i) # InodeMap
    /\ \A b : Area(b) # Super /\ Area(b) # Group /\ Area(b) # BlockMap /\ Area(b) # InodeMap
    /\ \A i, b : Table(i) # Area(b)
    /\ \A b, c : Area(b) = Area(c) <=> b = c
  BY DEF Super, Group, BlockMap, InodeMap, Table, Area

SuperRecord == [valid : BOOLEAN, freeBlocks : Int, freeInodes : Int]
GroupRecord == [freeBlocks : Int, freeInodes : Int, directories : Int]

(* What each buffer may hold, by its name.                                 *)
LEMMA MayHoldIs ==
    ASSUME NEW z
    PROVE  /\ MayHold(Super, z) <=> z \in SuperRecord
           /\ MayHold(Group, z) <=> z \in GroupRecord
           /\ MayHold(BlockMap, z) <=> z \in SUBSET DiskBlock
           /\ MayHold(InodeMap, z) <=> z \in SUBSET Inode
           /\ \A i \in Inode : MayHold(Table(i), z) <=> z \in [Beside(i) -> InodeRecord]
           /\ \A b \in DiskBlock : MayHold(Area(b), z) <=> z \in Content
<1>1. /\ MayHold(Super, z) <=> z \in SuperRecord
      /\ MayHold(Group, z) <=> z \in GroupRecord
      /\ MayHold(BlockMap, z) <=> z \in SUBSET DiskBlock
      /\ MayHold(InodeMap, z) <=> z \in SUBSET Inode
  BY BuffersApart DEF MayHold, SuperRecord, GroupRecord
<1>2. ASSUME NEW i \in Inode
      PROVE  MayHold(Table(i), z) <=> z \in [Beside(i) -> InodeRecord]
  <2>1. \A j \in Inode : Table(i) = Table(j) => Beside(i) = Beside(j)
    BY DEF Beside
  <2> QED
    BY <2>1, BuffersApart DEF MayHold
<1>3. ASSUME NEW b \in DiskBlock
      PROVE  MayHold(Area(b), z) <=> z \in Content
  BY BuffersApart DEF MayHold
<1> QED
  BY <1>1, <1>2, <1>3

Rows == [0 .. PerTable - 1 -> 0 .. DiskBlocks]
NameRows == [Name -> 0 .. Inodes]

(* A block is what its kind says.                                          *)
LEMMA ContentIs ==
    /\ Zeroed \in Content /\ \A i \in Inode : Data(i) \in Content
    /\ \A names \in NameRows : Names(names) \in Content
    /\ \A to \in Rows : Pointers(to) \in Content
    /\ \A z \in Content : /\ z.kind = "pointers" => z.to \in Rows /\ z = Pointers(z.to)
                          /\ z.kind = "names" => z.names \in NameRows /\ z = Names(z.names)
<1>1. \A z \in Content : /\ z.kind = "pointers" => z.to \in Rows /\ z = Pointers(z.to)
                         /\ z.kind = "names" => z.names \in NameRows /\ z = Names(z.names)
  <2> TAKE z \in Content
  <2>1. CASE z = Zeroed
    BY <2>1 DEF Zeroed
  <2>2. CASE \E i \in Inode : z = Data(i)
    BY <2>2 DEF Data
  <2>3. CASE \E names \in NameRows : z = Names(names)
    BY <2>3 DEF Names
  <2>4. CASE \E to \in Rows : z = Pointers(to)
    BY <2>4 DEF Pointers
  <2> QED
    BY <2>1, <2>2, <2>3, <2>4 DEF Content, NameRows, Rows
<1> QED
  BY <1>1 DEF Content, NameRows, Rows

(* A table, a directory's block and an inode with nothing in them.         *)
LEMMA EmptyIs ==
    ASSUME VolumeAssumption
    PROVE  /\ NoNames \in NameRows /\ NoPointers \in Rows /\ NoInode \in InodeRecord
           /\ Pointers(NoPointers).kind = "pointers" /\ Names(NoNames).kind = "names"
           /\ \A kind \in {"none", "file", "dir"}, links \in Int : NewInode(kind, links) \in InodeRecord
<1>1. PerTable \in Nat /\ DiskBlocks \in Nat /\ Inodes \in Nat
  BY DEF VolumeAssumption
<1> QED
  BY <1>1 DEF NoNames, NameRows, NoPointers, Rows, NoInode, NewInode, InodeRecord, Pointers, Names

(* The record an operation carries: its fields, and of what type.  No      *)
(* version of the superblock bears the mark of a clean unmount.            *)
Carried(s) == s = [v |-> s.v, w |-> s.w, i |-> s.i, got |-> s.got, ok |-> s.ok]
Sane(s) ==
    /\ Carried(s)
    /\ s.ok \in BOOLEAN /\ s.i \in InodeRecord
    /\ DOMAIN s.v = Structure /\ DOMAIN s.w = Structure
    /\ \A x \in Structure : s.v[x] \in s.w[x] /\ \A z \in s.w[x] : MayHold(x, z)
    /\ \A z \in s.w[Super] : ~z.valid

(* The same but for the inode in memory, or what was got, or whether it is *)
(* refused.                                                                *)
LEMMA FieldsIs ==
    ASSUME NEW s, Sane(s)
    PROVE  /\ \A inode \in InodeRecord :
                 /\ Sane([s EXCEPT !.i = inode])
                 /\ [s EXCEPT !.i = inode].v = s.v /\ [s EXCEPT !.i = inode].w = s.w
                 /\ [s EXCEPT !.i = inode].i = inode
                 /\ [s EXCEPT !.i = inode].got = s.got /\ [s EXCEPT !.i = inode].ok = s.ok
           /\ \A b :
                 /\ Sane([s EXCEPT !.got = b])
                 /\ [s EXCEPT !.got = b].v = s.v /\ [s EXCEPT !.got = b].w = s.w
                 /\ [s EXCEPT !.got = b].i = s.i
                 /\ [s EXCEPT !.got = b].got = b /\ [s EXCEPT !.got = b].ok = s.ok
           /\ \A ok \in BOOLEAN :
                 /\ Sane([s EXCEPT !.ok = ok])
                 /\ [s EXCEPT !.ok = ok].v = s.v /\ [s EXCEPT !.ok = ok].w = s.w
                 /\ [s EXCEPT !.ok = ok].i = s.i
                 /\ [s EXCEPT !.ok = ok].got = s.got /\ [s EXCEPT !.ok = ok].ok = ok
<1>1. PICK v, w, i, got, okay : s = [v |-> v, w |-> w, i |-> i, got |-> got, ok |-> okay]
  BY DEF Sane, Carried
<1>2. \A t : (\E other, gained, done : t = [v |-> v, w |-> w, i |-> other, got |-> gained, ok |-> done]
                   /\ other \in InodeRecord /\ done \in BOOLEAN) => Sane(t)
  <2> SUFFICES ASSUME NEW other \in InodeRecord, NEW gained, NEW done \in BOOLEAN, NEW t,
                      t = [v |-> v, w |-> w, i |-> other, got |-> gained, ok |-> done]
               PROVE  Sane(t)
    OBVIOUS
  <2>1. t.v = s.v /\ t.w = s.w /\ t.i = other /\ t.got = gained /\ t.ok = done
    BY <1>1
  <2> QED
    BY <2>1 DEF Sane, Carried
<1>3. i \in InodeRecord /\ okay \in BOOLEAN
  BY <1>1 DEF Sane
<1> QED
  BY <1>1, <1>2, <1>3

(* A write makes a version of one buffer.                                  *)
LEMMA PutIs ==
    ASSUME NEW s, Sane(s), NEW x \in Structure, NEW value
    PROVE  /\ Put(s, x, value).i = s.i /\ Put(s, x, value).got = s.got /\ Put(s, x, value).ok = s.ok
           /\ Put(s, x, value).v = IF s.ok THEN [s.v EXCEPT ![x] = value] ELSE s.v
           /\ (s.ok => MayHold(x, value) /\ (x = Super => ~value.valid)) => Sane(Put(s, x, value))
<1>1. PICK v, w, i, got, okay : s = [v |-> v, w |-> w, i |-> i, got |-> got, ok |-> okay]
  BY DEF Sane, Carried
<1>2. CASE ~s.ok
  BY <1>2 DEF Put
<1>3. CASE s.ok
  <2>1. Put(s, x, value) =
          [v |-> [v EXCEPT ![x] = value], w |-> [w EXCEPT ![x] = w[x] \cup {value}],
           i |-> i, got |-> got, ok |-> okay]
    BY <1>1, <1>3 DEF Put
  <2>2. ASSUME MayHold(x, value), x = Super => ~value.valid
        PROVE  Sane(Put(s, x, value))
    <3>1. PICK t : t = Put(s, x, value)
      OBVIOUS
    <3>2. /\ t.v = [s.v EXCEPT ![x] = value] /\ t.w = [s.w EXCEPT ![x] = s.w[x] \cup {value}]
          /\ t.i = s.i /\ t.got = s.got /\ t.ok = s.ok /\ Carried(t)
      BY <1>1, <2>1, <3>1 DEF Carried
    <3>3. \A y \in Structure : t.v[y] = (IF y = x THEN value ELSE s.v[y])
                            /\ t.w[y] = IF y = x THEN s.w[x] \cup {value} ELSE s.w[y]
      BY <3>2 DEF Sane
    <3>4. \A y \in Structure : t.v[y] \in t.w[y] /\ \A z \in t.w[y] : MayHold(y, z)
      BY <2>2, <3>3 DEF Sane
    <3>5. \A z \in t.w[Super] : ~z.valid
      BY <2>2, <3>3, StructureIs DEF Sane
    <3>6. DOMAIN t.v = Structure /\ DOMAIN t.w = Structure
      BY <3>2 DEF Sane
    <3> QED
      BY <3>1, <3>2, <3>4, <3>5, <3>6 DEF Sane
  <2>3. Put(s, x, value).i = s.i /\ Put(s, x, value).got = s.got /\ Put(s, x, value).ok = s.ok
    BY <1>1, <2>1
  <2>4. Put(s, x, value).v = [s.v EXCEPT ![x] = value]
    <3>1. s.v = v
      BY <1>1
    <3>2. Put(s, x, value).v = [v EXCEPT ![x] = value]
      BY <2>1
    <3> QED
      BY <3>1, <3>2
  <2> QED
    BY <1>3, <2>2, <2>3, <2>4
<1> QED
  BY <1>2, <1>3 DEF Sane

(* What a buffer of an operation holds now.                                *)
LEMMA ViewIs ==
    ASSUME NEW s, Sane(s)
    PROVE  /\ s.v[Super] \in SuperRecord /\ ~s.v[Super].valid /\ s.v[Group] \in GroupRecord
           /\ s.v[BlockMap] \subseteq DiskBlock /\ s.v[InodeMap] \subseteq Inode
           /\ \A i \in Inode : s.v[Table(i)] \in [Beside(i) -> InodeRecord] /\ InodeIn(s.v, i) \in InodeRecord
           /\ \A b \in DiskBlock : s.v[Area(b)] \in Content
<1>1. \A x \in Structure : MayHold(x, s.v[x])
  BY DEF Sane
<1>2. s.v[Super] \in SuperRecord /\ s.v[Group] \in GroupRecord
  BY <1>1, StructureIs, MayHoldIs
<1>3. s.v[BlockMap] \subseteq DiskBlock /\ s.v[InodeMap] \subseteq Inode
  BY <1>1, StructureIs, MayHoldIs
<1>4. \A i \in Inode : s.v[Table(i)] \in [Beside(i) -> InodeRecord]
  BY <1>1, StructureIs, MayHoldIs
<1>5. \A i \in Inode : InodeIn(s.v, i) \in InodeRecord
  <2>1. \A i \in Inode : i \in Beside(i)
    BY DEF Beside
  <2> QED
    BY <1>4, <2>1 DEF InodeIn
<1>6. \A b \in DiskBlock : s.v[Area(b)] \in Content
  BY <1>1, StructureIs, MayHoldIs
<1>7. ~s.v[Super].valid
  BY StructureIs DEF Sane
<1> QED
  BY <1>2, <1>3, <1>4, <1>5, <1>6, <1>7

(* What one step of an operation leaves of the record it carries.          *)
Same(s, t) == t.i = s.i /\ t.got = s.got /\ t.ok = s.ok
Kept(s, t) == t.i = s.i /\ (t.ok => s.ok)
SizeKept(s, t) == t.i.size = s.i.size
HasPut(s, t, x, z) == t.v[x] = z /\ \A y \in Structure \ {x} : t.v[y] = s.v[y]
LEMMA KeptOn ==
    /\ \A s, t : Kept(s, t) => SizeKept(s, t)
    /\ \A s, t, u : SizeKept(s, t) /\ SizeKept(t, u) => SizeKept(s, u)
    /\ \A s, t : Same(s, t) => Kept(s, t)
    /\ \A s, t, u : Same(s, t) /\ Same(t, u) => Same(s, u)
    /\ \A s, t, u : Kept(s, t) /\ Kept(t, u) => Kept(s, u)
<1>1. \A s, t : Same(s, t) => Kept(s, t)
  BY DEF Same, Kept
<1>2. \A s, t, u : Same(s, t) /\ Same(t, u) => Same(s, u)
  BY DEF Same
<1>3. \A s, t, u : Kept(s, t) /\ Kept(t, u) => Kept(s, u)
  BY DEF Kept
<1>4. \A s, t : Kept(s, t) => SizeKept(s, t)
  BY DEF Kept, SizeKept
<1>5. \A s, t, u : SizeKept(s, t) /\ SizeKept(t, u) => SizeKept(s, u)
  BY DEF SizeKept
<1> QED
  BY <1>1, <1>2, <1>3, <1>4, <1>5

(* What is read after a write.                                             *)
LEMMA PutShows ==
    ASSUME NEW s, Sane(s), s.ok, NEW x \in Structure, NEW value, NEW t, t = Put(s, x, value)
    PROVE  HasPut(s, t, x, value)
<1>1. Put(s, x, value).v = [s.v EXCEPT ![x] = value]
  BY PutIs
<1>2. Put(s, x, value).v[x] = value /\ \A y \in Structure \ {x} : Put(s, x, value).v[y] = s.v[y]
  BY <1>1 DEF Sane
<1> QED
  BY <1>2 DEF HasPut

(* A write into a buffer other than the superblock's.                      *)
LEMMA PutKeeps ==
    ASSUME NEW s, Sane(s), NEW x, x \in Structure \ {Super}, NEW value, MayHold(x, value),
           NEW t, t = Put(s, x, value)
    PROVE  Sane(t) /\ Same(s, t)
<1>1. x \in Structure /\ x # Super
  OBVIOUS
<1>2. Sane(t)
  BY <1>1, PutIs
<1>3. t.i = s.i /\ t.got = s.got /\ t.ok = s.ok
  BY <1>1, PutIs
<1> QED
  BY <1>2, <1>3 DEF Same

(* The buffers but the superblock's.                                       *)
LEMMA OtherBuffers ==
    /\ Group \in Structure \ {Super} /\ BlockMap \in Structure \ {Super}
    /\ InodeMap \in Structure \ {Super}
    /\ \A i \in Inode : Table(i) \in Structure \ {Super}
    /\ \A b \in DiskBlock : Area(b) \in Structure \ {Super}
  BY StructureIs, BuffersApart

(* A version of one of the bitmaps, of the group or of a block.            *)
LEMMA VersionHeld ==
    /\ \A z \in SUBSET DiskBlock : MayHold(BlockMap, z)
    /\ \A z \in SUBSET Inode : MayHold(InodeMap, z)
    /\ \A z \in GroupRecord : MayHold(Group, z)
    /\ \A z \in SuperRecord : MayHold(Super, z)
    /\ \A b \in DiskBlock, z \in Content : MayHold(Area(b), z)
    /\ \A i \in Inode : \A z : z \in [Beside(i) -> InodeRecord] => MayHold(Table(i), z)
  BY MayHoldIs

(* A count of the superblock or of the group.                              *)
LEMMA AdjustSuper ==
    ASSUME NEW s, Sane(s), NEW by \in Int, NEW field \in {"freeBlocks", "freeInodes"},
           NEW t, t = Adjust(s, Super, field, by)
    PROVE  Sane(t) /\ Same(s, t)
<1>1. PICK z : z = s.v[Super] /\ z \in SuperRecord /\ ~z.valid
  BY ViewIs
<1>2. PICK y : y = [z EXCEPT ![field] = z[field] + by]
  OBVIOUS
<1>3. y \in SuperRecord /\ ~y.valid
  <2>1. CASE field = "freeBlocks"
    BY <1>1, <1>2, <2>1 DEF SuperRecord
  <2>2. CASE field = "freeInodes"
    BY <1>1, <1>2, <2>2 DEF SuperRecord
  <2> QED
    BY <2>1, <2>2
<1>4. t = Put(s, Super, y)
  BY <1>1, <1>2 DEF Adjust
<1>5. MayHold(Super, y)
  BY <1>3, VersionHeld
<1>6. Super \in Structure
  BY StructureIs
<1>7. Sane(t)
  <2>1. s.ok => MayHold(Super, y) /\ (Super = Super => ~y.valid)
    BY <1>3, <1>5
  <2>2. Sane(Put(s, Super, y))
    BY <1>6, <2>1, PutIs
  <2> QED
    BY <1>4, <2>2
<1>8. Same(s, Put(s, Super, y))
  BY <1>6, PutIs DEF Same
<1> QED
  BY <1>4, <1>7, <1>8

(* The same of the group's counts.                                         *)
LEMMA AdjustGroup ==
    ASSUME NEW s, Sane(s), NEW by \in Int, NEW field \in {"freeBlocks", "freeInodes", "directories"},
           NEW t, t = Adjust(s, Group, field, by)
    PROVE  Sane(t) /\ Same(s, t)
<1>1. PICK z : z = s.v[Group] /\ z \in GroupRecord
  BY ViewIs
<1>2. PICK y : y = [z EXCEPT ![field] = z[field] + by]
  OBVIOUS
<1>3. y \in GroupRecord
  <2>1. CASE field = "freeBlocks"
    BY <1>1, <1>2, <2>1 DEF GroupRecord
  <2>2. CASE field = "freeInodes"
    BY <1>1, <1>2, <2>2 DEF GroupRecord
  <2>3. CASE field = "directories"
    BY <1>1, <1>2, <2>3 DEF GroupRecord
  <2> QED
    BY <2>1, <2>2, <2>3
<1>4. t = Put(s, Group, y)
  BY <1>1, <1>2 DEF Adjust
<1>5. MayHold(Group, y)
  BY <1>3, VersionHeld
<1> QED
  BY <1>4, <1>5, OtherBuffers, PutKeeps

(* Refused is refused, and otherwise as before.                            *)
LEMMA RefuseIs ==
    ASSUME NEW s, Sane(s)
    PROVE  Sane(Refuse(s)) /\ ~Refuse(s).ok /\ Kept(s, Refuse(s))
<1>1. Sane(Refuse(s)) /\ ~Refuse(s).ok
  BY FieldsIs DEF Refuse
<1>2. Refuse(s).i = s.i
  BY FieldsIs DEF Refuse
<1> QED
  BY <1>1, <1>2 DEF Kept

(* Another inode in memory, or another block or inode got.                 *)
LEMMA SetIs ==
    ASSUME NEW s, Sane(s)
    PROVE  /\ \A inode \in InodeRecord : Sane([s EXCEPT !.i = inode])
           /\ \A b : Sane([s EXCEPT !.got = b]) /\ Kept(s, [s EXCEPT !.got = b])
                  /\ [s EXCEPT !.got = b].got = b
<1>1. \A b : [s EXCEPT !.got = b].i = s.i /\ [s EXCEPT !.got = b].ok = s.ok
  BY FieldsIs
<1>2. \A b : Kept(s, [s EXCEPT !.got = b])
  BY <1>1 DEF Kept
<1> QED
  BY <1>2, FieldsIs

(* Ext2AllocateBlock: a block, or a refusal.                               *)
LEMMA AllocateBlockIs ==
    ASSUME NEW s, Sane(s), NEW t, t = AllocateBlock(s)
    PROVE  Sane(t) /\ Kept(s, t) /\ (t.ok => t.got \in DiskBlock)
<1>1. CASE ~s.ok \/ s.v[Super].freeBlocks = 0 \/ s.v[Group].freeBlocks = 0 \/ FreeBits(s) = {}
  <2>1. t = Refuse(s)
    BY <1>1 DEF AllocateBlock
  <2> QED
    BY <2>1, RefuseIs
<1>2. CASE ~(~s.ok \/ s.v[Super].freeBlocks = 0 \/ s.v[Group].freeBlocks = 0 \/ FreeBits(s) = {})
  <2>1. PICK b : b = Min(FreeBits(s)) /\ b \in DiskBlock
    <3>1. FreeBits(s) \subseteq Nat /\ FreeBits(s) \subseteq DiskBlock
      BY DEF FreeBits, DiskBlock
    <3> QED
      BY <1>2, <3>1, LeastMember
  <2>2. PICK a : a = Put(s, BlockMap, s.v[BlockMap] \cup {b})
    OBVIOUS
  <2>3. Sane(a) /\ Same(s, a)
    <3>1. MayHold(BlockMap, s.v[BlockMap] \cup {b})
      BY <2>1, ViewIs, VersionHeld
    <3> QED
      BY <2>2, <3>1, PutKeeps, OtherBuffers
  <2>4. PICK c : c = Adjust(a, Group, "freeBlocks", -1) /\ Sane(c) /\ Same(a, c)
    BY <2>3, AdjustGroup
  <2>5. PICK d : d = Adjust(c, Super, "freeBlocks", -1) /\ Sane(d) /\ Same(c, d)
    BY <2>4, AdjustSuper
  <2>6. t = [d EXCEPT !.got = b]
    BY <1>2, <2>1, <2>2, <2>4, <2>5 DEF AllocateBlock
  <2>7. Sane(t) /\ Kept(d, t) /\ t.got = b
    BY <2>5, <2>6, SetIs
  <2> QED
    BY <2>1, <2>3, <2>4, <2>5, <2>7, KeptOn
<1> QED
  BY <1>1, <1>2

(* Ext2FreeBlock.                                                          *)
LEMMA FreeBlockIs ==
    ASSUME NEW s, Sane(s), NEW b, NEW t, t = FreeBlock(s, b)
    PROVE  Sane(t) /\ Kept(s, t)
<1>1. CASE b \notin s.v[BlockMap]
  <2>1. t = Refuse(s)
    BY <1>1 DEF FreeBlock
  <2> QED
    BY <2>1, RefuseIs
<1>2. CASE b \in s.v[BlockMap]
  <2>1. PICK a : a = Put(s, BlockMap, s.v[BlockMap] \ {b})
    OBVIOUS
  <2>2. Sane(a) /\ Same(s, a)
    <3>1. MayHold(BlockMap, s.v[BlockMap] \ {b})
      BY ViewIs, VersionHeld
    <3> QED
      BY <2>1, <3>1, PutKeeps, OtherBuffers
  <2>3. PICK c : c = Adjust(a, Group, "freeBlocks", 1) /\ Sane(c) /\ Same(a, c)
    BY <2>2, AdjustGroup
  <2>4. t = Adjust(c, Super, "freeBlocks", 1)
    BY <1>2, <2>1, <2>3 DEF FreeBlock
  <2>5. Sane(t) /\ Same(c, t)
    BY <2>3, <2>4, AdjustSuper
  <2> QED
    BY <2>2, <2>3, <2>5, KeptOn
<1> QED
  BY <1>1, <1>2

(* A buffer of inodes.                                                     *)
LEMMA WriteInodeIs ==
    ASSUME NEW s, Sane(s), NEW i \in Inode, NEW inode \in InodeRecord, NEW t, t = WriteInode(s, i, inode)
    PROVE  Sane(t) /\ Same(s, t)
<1>1. [s.v[Table(i)] EXCEPT ![i] = inode] \in [Beside(i) -> InodeRecord]
  BY ViewIs
<1>2. MayHold(Table(i), [s.v[Table(i)] EXCEPT ![i] = inode])
  BY <1>1, VersionHeld
<1>3. t = Put(s, Table(i), [s.v[Table(i)] EXCEPT ![i] = inode])
  BY DEF WriteInode
<1> QED
  BY <1>2, <1>3, PutKeeps, OtherBuffers

(* The group's counts of inodes and of directories.                        *)
GroupWith(group, by, directory, count) ==
    [group EXCEPT !.freeInodes = @ + by, !.directories = IF directory THEN @ + count ELSE @]
LEMMA GroupWithIs ==
    ASSUME NEW group \in GroupRecord, NEW by \in Int, NEW directory \in BOOLEAN, NEW count \in Int
    PROVE  GroupWith(group, by, directory, count) \in GroupRecord
<1>1. group.directories \in Int /\ group.freeInodes \in Int /\ group.freeBlocks \in Int
  BY DEF GroupRecord
<1>2. PICK n : n = (IF directory THEN group.directories + count ELSE group.directories) /\ n \in Int
  BY <1>1
<1>3. GroupWith(group, by, directory, count) = [group EXCEPT !.freeInodes = group.freeInodes + by, !.directories = n]
  BY <1>2 DEF GroupWith, GroupRecord
<1>4. PICK m : m = group.freeInodes + by /\ m \in Int
  BY <1>1
<1>5. [group EXCEPT !.freeInodes = m, !.directories = n] \in GroupRecord
  BY <1>1, <1>2, <1>4 DEF GroupRecord
<1> QED
  BY <1>3, <1>4, <1>5

(* Ext2AllocateInode and Ext2FreeInode.                                    *)
LEMMA AllocateInodeIs ==
    ASSUME NEW s, Sane(s), s.ok, NEW directory \in BOOLEAN, NEW t, t = AllocateInode(s, directory)
    PROVE  Sane(t) /\ Kept(s, t) /\ (t.ok => t.got \in Inode)
<1>1. PICK free : free = Inode \ s.v[InodeMap]
  OBVIOUS
<1>2. CASE s.v[Super].freeInodes = 0 \/ s.v[Group].freeInodes = 0 \/ free = {}
  <2>1. t = Refuse(s)
    BY <1>1, <1>2 DEF AllocateInode
  <2> QED
    BY <2>1, RefuseIs
<1>3. CASE ~(s.v[Super].freeInodes = 0 \/ s.v[Group].freeInodes = 0 \/ free = {})
  <2>1. Min(free) \in Inode
    <3>1. free \subseteq Nat /\ free \subseteq Inode
      BY <1>1 DEF Inode
    <3> QED
      BY <1>3, <3>1, LeastMember
  <2>2. PICK a : a = Put(s, InodeMap, s.v[InodeMap] \cup {Min(free)})
    OBVIOUS
  <2>3. Sane(a) /\ Same(s, a)
    <3>1. MayHold(InodeMap, s.v[InodeMap] \cup {Min(free)})
      BY <2>1, ViewIs, VersionHeld
    <3> QED
      BY <2>2, <3>1, PutKeeps, OtherBuffers
  <2>4. PICK group : group = GroupWith(a.v[Group], -1, directory, 1)
    OBVIOUS
  <2>5. MayHold(Group, group)
    BY <2>3, <2>4, ViewIs, GroupWithIs, VersionHeld
  <2>6. PICK b : b = Put(a, Group, group) /\ Sane(b) /\ Same(a, b)
    BY <2>3, <2>5, PutKeeps, OtherBuffers
  <2>7. PICK c : c = Adjust(b, Super, "freeInodes", -1) /\ Sane(c) /\ Same(b, c)
    BY <2>6, AdjustSuper
  <2>8. t = [c EXCEPT !.got = Min(free)]
    BY <1>1, <1>3, <2>2, <2>4, <2>6, <2>7 DEF AllocateInode, GroupWith
  <2>9. Sane(t) /\ Kept(c, t) /\ t.got = Min(free)
    BY <2>7, <2>8, SetIs
  <2> QED
    BY <2>1, <2>3, <2>6, <2>7, <2>9, KeptOn
<1> QED
  BY <1>2, <1>3

(* Ext2FreeInode, which refuses an inode that is free already.             *)
LEMMA FreeInodeIs ==
    ASSUME NEW s, Sane(s), NEW i, NEW directory \in BOOLEAN, NEW t, t = FreeInode(s, i, directory)
    PROVE  Sane(t) /\ Kept(s, t)
<1>1. CASE i \notin s.v[InodeMap]
  <2>1. t = Refuse(s)
    BY <1>1 DEF FreeInode
  <2> QED
    BY <2>1, RefuseIs
<1>2. CASE i \in s.v[InodeMap]
  <2>1. PICK a : a = Put(s, InodeMap, s.v[InodeMap] \ {i})
    OBVIOUS
  <2>2. Sane(a) /\ Same(s, a)
    <3>1. MayHold(InodeMap, s.v[InodeMap] \ {i})
      BY ViewIs, VersionHeld
    <3> QED
      BY <2>1, <3>1, PutKeeps, OtherBuffers
  <2>3. PICK group : group = GroupWith(a.v[Group], 1, directory, -1)
    OBVIOUS
  <2>4. MayHold(Group, group)
    <3>1. group \in GroupRecord
      BY <2>2, <2>3, ViewIs, GroupWithIs
    <3> QED
      BY <3>1, VersionHeld
  <2>5. PICK b : b = Put(a, Group, group) /\ Sane(b) /\ Same(a, b)
    BY <2>2, <2>4, PutKeeps, OtherBuffers
  <2>6. t = Adjust(b, Super, "freeInodes", 1)
    BY <1>2, <2>1, <2>3, <2>5 DEF FreeInode, GroupWith
  <2>7. Sane(t) /\ Same(b, t)
    BY <2>5, <2>6, AdjustSuper
  <2> QED
    BY <2>2, <2>5, <2>7, KeptOn
<1> QED
  BY <1>1, <1>2

(* The pointers of a table, and what an inode has at an index.             *)
LEMMA TableOfIs ==
    ASSUME VolumeAssumption, NEW s, Sane(s), NEW b \in DiskBlock
    PROVE  TableOf(s.v, b) \in Rows
<1>1. s.v[Area(b)] \in Content
  BY ViewIs
<1>2. NoPointers \in Rows
  BY EmptyIs
<1> QED
  BY <1>1, <1>2, ContentIs DEF TableOf

(* An inode's fields.                                                      *)
LEMMA InodeIs ==
    ASSUME VolumeAssumption, NEW inode \in InodeRecord
    PROVE  /\ inode.direct \in DiskBlock \cup {0} /\ inode.table \in DiskBlock \cup {0}
           /\ inode.size \in 0 .. PerTable + 1 /\ inode.links \in Int
           /\ inode.kind \in {"none", "file", "dir"}
           /\ \A b \in DiskBlock \cup {0} : /\ [inode EXCEPT !.direct = b] \in InodeRecord
                                           /\ [inode EXCEPT !.table = b] \in InodeRecord
           /\ \A n \in 0 .. PerTable + 1 : [inode EXCEPT !.size = n] \in InodeRecord
           /\ \A n \in Int : [inode EXCEPT !.links = n] \in InodeRecord
<1>1. DiskBlock \cup {0} = 0 .. DiskBlocks
  BY DEF DiskBlock, VolumeAssumption
<1>2. inode \in [kind : {"none", "file", "dir"}, links : Int, size : 0 .. PerTable + 1,
                 direct : 0 .. DiskBlocks, table : 0 .. DiskBlocks]
  BY DEF InodeRecord
<1>3. \A b \in 0 .. DiskBlocks : /\ [inode EXCEPT !.direct = b] \in InodeRecord
                                 /\ [inode EXCEPT !.table = b] \in InodeRecord
  BY <1>2 DEF InodeRecord
<1>4. \A n \in 0 .. PerTable + 1 : [inode EXCEPT !.size = n] \in InodeRecord
  BY <1>2 DEF InodeRecord
<1>5. \A n \in Int : [inode EXCEPT !.links = n] \in InodeRecord
  BY <1>2 DEF InodeRecord
<1> QED
  BY <1>1, <1>2, <1>3, <1>4, <1>5

Indices == 0 .. PerTable

(* The block at an index is one of the volume's, or none.                  *)
LEMMA BlockAtIs ==
    ASSUME VolumeAssumption, NEW s, Sane(s), NEW inode \in InodeRecord, NEW index \in Indices
    PROVE  BlockAt(s.v, inode, index) \in DiskBlock \cup {0}
<1>1. inode.direct \in DiskBlock \cup {0} /\ inode.table \in DiskBlock \cup {0}
  BY InodeIs
<1>2. CASE index = 0
  BY <1>1, <1>2 DEF BlockAt
<1>3. CASE index # 0 /\ inode.table = 0
  BY <1>3 DEF BlockAt
<1>4. CASE index # 0 /\ inode.table # 0
  <2>1. TableOf(s.v, inode.table) \in Rows
    BY <1>1, <1>4, TableOfIs
  <2>2. index - 1 \in 0 .. PerTable - 1
    BY <1>4 DEF VolumeAssumption, Indices
  <2>3. TableOf(s.v, inode.table)[index - 1] \in 0 .. DiskBlocks
    BY <2>1, <2>2 DEF Rows
  <2>4. BlockAt(s.v, inode, index) = TableOf(s.v, inode.table)[index - 1]
    BY <1>4 DEF BlockAt
  <2> QED
    BY <2>3, <2>4 DEF DiskBlock, VolumeAssumption
<1> QED
  BY <1>2, <1>3, <1>4

(* A block written.                                                        *)
LEMMA PutAreaIs ==
    ASSUME NEW s, Sane(s), NEW b \in DiskBlock, NEW z \in Content, NEW t, t = Put(s, Area(b), z)
    PROVE  Sane(t) /\ Same(s, t)
<1>1. MayHold(Area(b), z)
  BY VersionHeld
<1> QED
  BY <1>1, PutKeeps, OtherBuffers

(* Nothing is written once an operation is refused.                        *)
LEMMA PutRefused ==
    ASSUME NEW s, ~s.ok, NEW x, NEW z
    PROVE  Put(s, x, z) = s
  BY DEF Put

(* Ext2PointerAllocate: the table of an inode in memory.                   *)
LEMMA PutTableIs ==
    ASSUME VolumeAssumption, NEW a, Sane(a), a.ok => a.got \in DiskBlock, NEW t, t = PutTable(a)
    PROVE  Sane(t) /\ SizeKept(a, t) /\ (t.ok => a.ok /\ t.i.table # 0)
<1>1. CASE ~a.ok
  BY <1>1 DEF PutTable, SizeKept
<1>2. CASE a.ok
  <2>1. Pointers(NoPointers) \in Content
    BY EmptyIs, ContentIs
  <2>2. PICK c : c = Put(a, Area(a.got), Pointers(NoPointers)) /\ Sane(c) /\ Same(a, c)
    BY <1>2, <2>1, PutAreaIs
  <2>3. PICK inode : /\ inode = [c.i EXCEPT !.table = a.got] /\ inode \in InodeRecord
                     /\ inode.table = a.got /\ inode.size = c.i.size
    <3>1. c.i \in InodeRecord
      BY <2>2 DEF Sane
    <3>2. PICK inode : inode = [c.i EXCEPT !.table = a.got] /\ inode \in InodeRecord
      BY <1>2, <3>1, InodeIs
    <3>3. inode.table = a.got /\ inode.size = c.i.size
      BY <3>1, <3>2 DEF InodeRecord
    <3> QED
      BY <3>2, <3>3
  <2>4. t = [c EXCEPT !.i = inode]
    BY <1>2, <2>2, <2>3 DEF PutTable
  <2>5. Sane(t)
    BY <2>2, <2>3, <2>4, SetIs
  <2>6. t.i = inode
    BY <2>2, <2>3, <2>4, FieldsIs
  <2>7. a.got # 0
    BY <1>2 DEF DiskBlock
  <2>8. SizeKept(c, t) /\ SizeKept(a, c)
    BY <2>2, <2>3, <2>6, KeptOn DEF SizeKept
  <2> QED
    BY <1>2, <2>3, <2>5, <2>6, <2>7, <2>8, KeptOn
<1> QED
  BY <1>1, <1>2

(* The table that an index beyond the first needs.                         *)
LEMMA WithTableIs ==
    ASSUME VolumeAssumption, NEW s, Sane(s), NEW t, t = WithTable(s)
    PROVE  Sane(t) /\ SizeKept(s, t) /\ (t.ok => s.ok /\ t.i.table # 0)
<1>1. CASE s.i.table # 0
  BY <1>1 DEF WithTable, SizeKept
<1>2. CASE s.i.table = 0
  <2>1. PICK a : a = AllocateBlock(s) /\ Sane(a) /\ Kept(s, a) /\ (a.ok => a.got \in DiskBlock)
    BY AllocateBlockIs
  <2>2. t = PutTable(a)
    BY <1>2, <2>1 DEF WithTable
  <2>3. Sane(t) /\ SizeKept(a, t) /\ (t.ok => a.ok /\ t.i.table # 0)
    BY <2>1, <2>2, PutTableIs
  <2>4. a.ok => s.ok
    BY <2>1 DEF Kept
  <2> QED
    BY <2>1, <2>3, <2>4, KeptOn
<1> QED
  BY <1>1, <1>2

(* The pointer to a block just allocated.                                  *)
LEMMA PutPointerIs ==
    ASSUME VolumeAssumption, NEW b, Sane(b), NEW index \in Indices,
           b.ok => b.got \in DiskBlock /\ (index # 0 => b.i.table # 0),
           NEW t, t = PutPointer(b, index)
    PROVE  Sane(t) /\ SizeKept(b, t) /\ (t.ok => b.ok /\ t.got \in DiskBlock)
<1>1. CASE ~b.ok
  BY <1>1 DEF PutPointer, SizeKept
<1>2. CASE b.ok /\ index = 0
  <2>1. PICK inode : inode = [b.i EXCEPT !.direct = b.got] /\ inode \in InodeRecord /\ inode.size = b.i.size
    <3>1. b.i \in InodeRecord
      BY DEF Sane
    <3>2. PICK inode : inode = [b.i EXCEPT !.direct = b.got] /\ inode \in InodeRecord
      BY <1>2, <3>1, InodeIs
    <3>3. inode.size = b.i.size
      BY <3>1, <3>2 DEF InodeRecord
    <3> QED
      BY <3>2, <3>3
  <2>2. t = [b EXCEPT !.i = inode]
    BY <1>2, <2>1 DEF PutPointer
  <2>3. Sane(t)
    BY <2>1, <2>2, SetIs
  <2>4. t.got = b.got /\ t.i = inode
    BY <2>1, <2>2, FieldsIs
  <2>5. SizeKept(b, t)
    BY <2>1, <2>4 DEF SizeKept
  <2> QED
    BY <1>2, <2>3, <2>4, <2>5
<1>3. CASE b.ok /\ index # 0
  <2>1. b.i.table \in DiskBlock
    <3>1. b.i \in InodeRecord
      BY DEF Sane
    <3> QED
      BY <1>3, <3>1, InodeIs
  <2>2. [TableOf(b.v, b.i.table) EXCEPT ![index - 1] = b.got] \in Rows
    <3>1. TableOf(b.v, b.i.table) \in Rows
      BY <2>1, TableOfIs
    <3>2. b.got \in 0 .. DiskBlocks
      BY <1>3 DEF DiskBlock, VolumeAssumption
    <3> QED
      BY <3>1, <3>2 DEF Rows
  <2>3. t = Put(b, Area(b.i.table), Pointers([TableOf(b.v, b.i.table) EXCEPT ![index - 1] = b.got]))
    BY <1>3 DEF PutPointer
  <2>4. Pointers([TableOf(b.v, b.i.table) EXCEPT ![index - 1] = b.got]) \in Content
    BY <2>2, ContentIs
  <2>5. Sane(t) /\ Same(b, t)
    BY <2>1, <2>3, <2>4, PutAreaIs
  <2>6. t.got = b.got
    BY <2>5 DEF Same
  <2> QED
    BY <1>3, <2>5, <2>6, KeptOn
<1> QED
  BY <1>1, <1>2, <1>3

(* Ext2InodeBlockAllocate.                                                 *)
LEMMA AllocateAtIs ==
    ASSUME VolumeAssumption, NEW s, Sane(s), s.ok, NEW index \in Indices, NEW t, t = AllocateAt(s, index)
    PROVE  Sane(t) /\ SizeKept(s, t) /\ (t.ok => t.got \in DiskBlock)
<1>1. PICK known : known = BlockAt(s.v, s.i, index) /\ known \in DiskBlock \cup {0}
  <2>1. s.i \in InodeRecord
    BY DEF Sane
  <2> QED
    BY <2>1, BlockAtIs
<1>2. CASE known # 0
  <2>1. t = [s EXCEPT !.got = known]
    BY <1>1, <1>2 DEF AllocateAt
  <2> QED
    BY <1>1, <1>2, <2>1, SetIs, KeptOn
<1>3. CASE known = 0
  <2>1. PICK a : /\ a = (IF index = 0 THEN s ELSE WithTable(s)) /\ Sane(a) /\ SizeKept(s, a)
                 /\ (a.ok /\ index # 0 => a.i.table # 0)
    BY WithTableIs DEF SizeKept
  <2>2. PICK b : b = AllocateBlock(a) /\ Sane(b) /\ Kept(a, b) /\ (b.ok => b.got \in DiskBlock)
    BY <2>1, AllocateBlockIs
  <2>3. t = PutPointer(b, index)
    BY <1>1, <1>3, <2>1, <2>2 DEF AllocateAt
  <2>4. b.ok => b.got \in DiskBlock /\ (index # 0 => b.i.table # 0)
    BY <2>1, <2>2 DEF Kept
  <2>5. SizeKept(b, t)
    BY <2>2, <2>3, <2>4, PutPointerIs
  <2> QED
    BY <2>1, <2>2, <2>3, <2>4, <2>5, PutPointerIs, KeptOn
<1> QED
  BY <1>2, <1>3

(* Ext2TruncateSubtree, pointer by pointer: the records on the way.        *)
LEMMA FreeEntryIs ==
    ASSUME VolumeAssumption, NEW a, Sane(a), a.i.table # 0, NEW e \in 0 .. PerTable - 1,
           NEW t, t = FreeEntry(a, e)
    PROVE  Sane(t) /\ Kept(a, t)
<1>1. a.i.table \in DiskBlock
  <2>1. a.i \in InodeRecord
    BY DEF Sane
  <2> QED
    BY <2>1, InodeIs
<1>2. PICK row : row = TableOf(a.v, a.i.table) /\ row \in Rows
  BY <1>1, TableOfIs
<1>3. CASE row[e] = 0
  BY <1>2, <1>3 DEF FreeEntry, Kept
<1>4. CASE row[e] # 0
  <2>1. PICK b : b = FreeBlock(a, row[e]) /\ Sane(b) /\ Kept(a, b)
    BY FreeBlockIs
  <2>2. [row EXCEPT ![e] = 0] \in Rows
    BY <1>2 DEF Rows, VolumeAssumption
  <2>3. Pointers([row EXCEPT ![e] = 0]) \in Content
    BY <2>2, ContentIs
  <2>4. t = Put(b, Area(a.i.table), Pointers([row EXCEPT ![e] = 0]))
    BY <1>2, <1>4, <2>1 DEF FreeEntry
  <2>5. Sane(t) /\ Same(b, t)
    BY <1>1, <2>1, <2>3, <2>4, PutAreaIs
  <2> QED
    BY <2>1, <2>5, KeptOn
<1> QED
  BY <1>3, <1>4

(* The blocks of a table are freed one after another: there is a function  *)
(* that says how the operation stands after each.                          *)
LEMMA FreedOneByOne ==
    ASSUME VolumeAssumption, NEW s
    PROVE  \E f : /\ f = [k \in 0 .. PerTable |-> IF k = 0 THEN s ELSE FreeEntry(f[k - 1], k - 1)]
                  /\ FreeEntries(s) = f[PerTable]
<1> DEFINE Way(n, f) == f = [k \in 0 .. n |-> IF k = 0 THEN s ELSE FreeEntry(f[k - 1], k - 1)]
<1>1. PerTable \in Nat
  BY DEF VolumeAssumption
<1>2. Way(0, [k \in 0 .. 0 |-> s])
  OBVIOUS
<1>3. ASSUME NEW n \in Nat \ {0}, NEW f, Way(n - 1, f)
      PROVE  \E g : Way(n, g)
  <2>1. PICK g : g = [k \in 0 .. n |-> IF k = n THEN FreeEntry(f[n - 1], n - 1) ELSE f[k]]
    OBVIOUS
  <2>2. n - 1 \in 0 .. n - 1 /\ n - 1 \in 0 .. n /\ n - 1 # n
    OBVIOUS
  <2>3. g[n] = FreeEntry(g[n - 1], n - 1)
    BY <2>1, <2>2
  <2>4. \A k \in 0 .. n : k # n => k \in 0 .. n - 1 /\ g[k] = f[k]
    BY <2>1
  <2>5. \A k \in 0 .. n - 1 : f[k] = IF k = 0 THEN s ELSE FreeEntry(f[k - 1], k - 1)
    BY <1>3
  <2>6. \A k \in 0 .. n : k # 0 => k - 1 \in 0 .. n /\ k - 1 # n
    OBVIOUS
  <2>7. \A k \in 0 .. n : g[k] = IF k = 0 THEN s ELSE FreeEntry(g[k - 1], k - 1)
    <3> TAKE k \in 0 .. n
    <3>1. CASE k = n
      BY <2>3, <3>1
    <3>2. CASE k # n /\ k = 0
      BY <2>4, <2>5, <3>2
    <3>3. CASE k # n /\ k # 0
      <4>1. g[k - 1] = f[k - 1] /\ g[k] = f[k]
        BY <2>4, <2>6, <3>3
      <4> QED
        BY <2>4, <2>5, <3>3, <4>1
    <3> QED
      BY <3>1, <3>2, <3>3
  <2> QED
    BY <2>1, <2>7
<1> HIDE DEF Way
<1>4. \E f : Way(PerTable, f)
  <2>1. PICK bad : bad = {n \in Nat : ~ \E f : Way(n, f)}
    OBVIOUS
  <2>2. ASSUME bad # {}
        PROVE  FALSE
    <3>1. PICK n \in bad : \A m \in bad : n <= m
      BY <2>1, <2>2, HasLeast
    <3>2. n # 0 /\ n \in Nat
      BY <1>2, <2>1
    <3>3. n - 1 \in Nat /\ n - 1 \notin bad
      BY <3>1, <3>2
    <3>4. PICK f : Way(n - 1, f)
      BY <2>1, <3>3
    <3> QED
      BY <1>3, <2>1, <3>2, <3>4
  <2> QED
    BY <1>1, <2>1, <2>2
<1>5. PICK f : f = CHOOSE g : Way(PerTable, g)
  OBVIOUS
<1>6. Way(PerTable, f)
  BY <1>4, <1>5
<1>7. FreeEntries(s) = f[PerTable]
  BY <1>5 DEF FreeEntries, Way
<1> QED
  BY <1>6, <1>7 DEF Way

(* However many are freed, the operation stands well.                      *)
LEMMA FreeEntriesIs ==
    ASSUME VolumeAssumption, NEW s, Sane(s), s.i.table # 0, NEW t, t = FreeEntries(s)
    PROVE  Sane(t) /\ Kept(s, t)
<1>1. PICK f : /\ f = [k \in 0 .. PerTable |-> IF k = 0 THEN s ELSE FreeEntry(f[k - 1], k - 1)]
               /\ FreeEntries(s) = f[PerTable]
  BY FreedOneByOne
<1>2. PerTable \in Nat
  BY DEF VolumeAssumption
<1>3. f[0] = s /\ \A k \in 1 .. PerTable : f[k] = FreeEntry(f[k - 1], k - 1)
  BY <1>1, <1>2
<1>4. PICK bad : bad = {k \in 0 .. PerTable : ~(Sane(f[k]) /\ Kept(s, f[k]))}
  OBVIOUS
<1>5. ASSUME bad # {}
      PROVE  FALSE
  <2>1. PICK k \in bad : \A m \in bad : k <= m
    BY <1>2, <1>4, <1>5, HasLeast
  <2>2. k # 0
    BY <1>3, <1>4, <2>1 DEF Kept
  <2>3. k \in 1 .. PerTable /\ k - 1 \in 0 .. PerTable /\ k - 1 \in 0 .. PerTable - 1 /\ k - 1 \notin bad
    BY <1>2, <1>4, <2>1, <2>2
  <2>4. PICK a : a = f[k - 1] /\ Sane(a) /\ Kept(s, a)
    BY <1>4, <2>3
  <2>5. a.i.table # 0
    BY <2>4 DEF Kept
  <2>6. Sane(f[k]) /\ Kept(a, f[k])
    BY <1>3, <2>3, <2>4, <2>5, FreeEntryIs
  <2> QED
    BY <1>4, <2>1, <2>4, <2>6, KeptOn
<1>6. Sane(f[PerTable]) /\ Kept(s, f[PerTable])
  BY <1>2, <1>4, <1>5
<1> QED
  BY <1>1, <1>6

(* One of the pointers, or the size, of the inode in memory forgotten.     *)
LEMMA ForgetIs ==
    ASSUME VolumeAssumption, NEW s, Sane(s), NEW field \in {"direct", "table", "size"},
           NEW t, t = Forget(s, field)
    PROVE  Sane(t) /\ t.ok = s.ok
<1>1. CASE ~s.ok
  BY <1>1 DEF Forget
<1>2. CASE s.ok
  <2>1. s.i \in InodeRecord
    BY DEF Sane
  <2>2. PICK inode : inode = [s.i EXCEPT ![field] = 0]
    OBVIOUS
  <2>3. inode \in InodeRecord
    <3>1. 0 \in 0 .. PerTable + 1 /\ 0 \in DiskBlock \cup {0}
      BY DEF VolumeAssumption
    <3>2. CASE field = "direct"
      BY <2>1, <2>2, <3>1, <3>2, InodeIs
    <3>3. CASE field = "table"
      BY <2>1, <2>2, <3>1, <3>3, InodeIs
    <3>4. CASE field = "size"
      BY <2>1, <2>2, <3>1, <3>4, InodeIs
    <3> QED
      BY <3>2, <3>3, <3>4
  <2>4. t = [s EXCEPT !.i = inode]
    BY <1>2, <2>2 DEF Forget
  <2>5. Sane(t)
    BY <2>3, <2>4, SetIs
  <2>6. t.ok = s.ok
    BY <2>3, <2>4, FieldsIs
  <2> QED
    BY <2>5, <2>6
<1> QED
  BY <1>1, <1>2

(* Ext2TruncateFile.                                                       *)
LEMMA TruncateIs ==
    ASSUME VolumeAssumption, NEW s, Sane(s), NEW i \in Inode, NEW t, t = TruncateToNothing(s, i)
    PROVE  Sane(t) /\ (t.ok => s.ok)
<1>1. s.i \in InodeRecord
  BY DEF Sane
<1>2. CASE s.i.size = 0
  <2>1. t = WriteInode(s, i, s.i)
    BY <1>2 DEF TruncateToNothing
  <2>2. Sane(t) /\ Same(s, t)
    BY <1>1, <2>1, WriteInodeIs
  <2> QED
    BY <2>2 DEF Same
<1>3. CASE s.i.size # 0
  <2>1. PICK a : a = FreeDirect(s) /\ Sane(a) /\ (a.ok => s.ok)
    <3>1. CASE s.i.direct = 0
      BY <3>1 DEF FreeDirect
    <3>2. CASE s.i.direct # 0
      <4>1. PICK b : b = FreeBlock(s, s.i.direct) /\ Sane(b) /\ Kept(s, b)
        BY FreeBlockIs
      <4>2. FreeDirect(s) = Forget(b, "direct")
        BY <3>2, <4>1 DEF FreeDirect
      <4>3. Sane(Forget(b, "direct")) /\ Forget(b, "direct").ok = b.ok
        BY <4>1, ForgetIs
      <4>4. b.ok => s.ok
        BY <4>1 DEF Kept
      <4> QED
        BY <4>2, <4>3, <4>4
    <3> QED
      BY <3>1, <3>2
  <2>2. PICK b : b = FreeTable(a) /\ Sane(b) /\ (b.ok => a.ok)
    <3>1. CASE a.i.table = 0
      BY <2>1, <3>1 DEF FreeTable
    <3>2. CASE a.i.table # 0
      <4>1. PICK c : c = FreeEntries(a) /\ Sane(c) /\ Kept(a, c)
        BY <2>1, <3>2, FreeEntriesIs
      <4>2. PICK d : d = FreeBlock(c, a.i.table) /\ Sane(d) /\ Kept(c, d)
        BY <4>1, FreeBlockIs
      <4>3. FreeTable(a) = Forget(d, "table")
        BY <3>2, <4>1, <4>2 DEF FreeTable
      <4>4. Sane(Forget(d, "table")) /\ Forget(d, "table").ok = d.ok
        BY <4>2, ForgetIs
      <4>5. d.ok => a.ok
        BY <4>1, <4>2 DEF Kept
      <4> QED
        BY <4>3, <4>4, <4>5
    <3> QED
      BY <3>1, <3>2
  <2>3. PICK last : last = Forget(b, "size") /\ Sane(last) /\ last.ok = b.ok
    BY <2>2, ForgetIs
  <2>4. t = WriteInode(last, i, last.i)
    BY <1>3, <2>1, <2>2, <2>3 DEF TruncateToNothing
  <2>5. last.i \in InodeRecord
    BY <2>3 DEF Sane
  <2>6. Sane(t) /\ Same(last, t)
    BY <2>3, <2>4, <2>5, WriteInodeIs
  <2> QED
    BY <2>1, <2>2, <2>3, <2>6 DEF Same
<1> QED
  BY <1>2, <1>3

(* Ext2WriteFile, block by block, of at most two.                          *)
LEMMA WriteBlockIs ==
    ASSUME VolumeAssumption, NEW a, Sane(a), NEW i \in Inode, NEW k \in Indices, NEW t, t = WriteBlock(a, i, k)
    PROVE  Sane(t)
<1>1. CASE ~a.ok
  BY <1>1 DEF WriteBlock
<1>2. CASE a.ok
  <2>1. PICK b : b = AllocateAt(a, k) /\ Sane(b) /\ (b.ok => b.got \in DiskBlock)
    BY <1>2, AllocateAtIs
  <2>2. t = PutData(b, i, k)
    BY <1>2, <2>1 DEF WriteBlock
  <2>3. CASE ~b.ok
    BY <2>1, <2>2, <2>3 DEF PutData
  <2>4. CASE b.ok
    <3>1. Data(i) \in Content
      BY ContentIs
    <3>2. PICK c : c = Put(b, Area(b.got), Data(i)) /\ Sane(c) /\ Same(b, c)
      BY <2>1, <2>4, <3>1, PutAreaIs
    <3>3. c.i \in InodeRecord /\ c.i.size \in 0 .. PerTable + 1
      <4>1. c.i \in InodeRecord
        BY <3>2 DEF Sane
      <4> QED
        BY <4>1, InodeIs
    <3>4. PICK n : n = Max({c.i.size, k + 1}) /\ n \in 0 .. PerTable + 1
      <4>1. {c.i.size, k + 1} \subseteq 0 .. PerTable + 1 /\ PerTable + 1 \in Nat
        BY <3>3 DEF Indices, VolumeAssumption
      <4> QED
        BY <4>1, GreatestMember
    <3>5. PICK inode : inode = [c.i EXCEPT !.size = n] /\ inode \in InodeRecord
      BY <3>3, <3>4, InodeIs
    <3>6. t = [c EXCEPT !.i = inode]
      BY <2>2, <2>4, <3>2, <3>4, <3>5 DEF PutData
    <3> QED
      BY <3>2, <3>5, <3>6, SetIs
  <2> QED
    BY <2>3, <2>4
<1> QED
  BY <1>1, <1>2

(* One block after another, as far as Ext2VfsWrite is asked.               *)
LEMMA WriteBlocksIs ==
    ASSUME VolumeAssumption, NEW s, Sane(s), NEW i \in Inode, NEW index \in Indices, NEW count \in 1 .. 2,
           index + count <= PerTable + 1, NEW t, t = WriteBlocks(s, i, index, count)
    PROVE  Sane(t)
<1>1. PICK first : first = WriteBlock(s, i, index) /\ Sane(first)
  BY WriteBlockIs
<1>2. t = WriteMore(first, i, index, count)
  BY <1>1 DEF WriteBlocks
<1>3. CASE ~first.ok
  BY <1>1, <1>2, <1>3 DEF WriteMore
<1>4. CASE first.ok
  <2> DEFINE Way(f) == f = [k \in 0 .. count - 1 |-> IF k = 0 THEN first ELSE WriteBlock(f[k - 1], i, index + k)]
  <2>1. \E f : Way(f)
    <3>1. PICK f : f = [k \in 0 .. count - 1 |-> IF k = 0 THEN first ELSE WriteBlock(first, i, index + 1)]
      OBVIOUS
    <3>2. \A k \in 0 .. count - 1 : k # 0 => k = 1 /\ f[k - 1] = first
      BY <3>1
    <3>3. \A k \in 0 .. count - 1 : f[k] = IF k = 0 THEN first ELSE WriteBlock(f[k - 1], i, index + k)
      BY <3>1, <3>2
    <3>4. f = [k \in 0 .. count - 1 |-> IF k = 0 THEN first ELSE WriteBlock(f[k - 1], i, index + k)]
      BY <3>1, <3>3
    <3> QED
      BY <3>4
  <2> HIDE DEF Way
  <2>2. PICK f : f = CHOOSE g : Way(g)
    OBVIOUS
  <2>3. Way(f)
    BY <2>1, <2>2
  <2>4. t = PutInode(f[count - 1], i)
    BY <1>2, <1>4, <2>2 DEF WriteMore, Way
  <2>5. Sane(f[count - 1])
    <3>1. CASE count = 1
      <4>1. f[0] = first
        BY <2>3, <3>1 DEF Way
      <4> QED
        BY <1>1, <3>1, <4>1
    <3>2. CASE count = 2
      <4>1. f[0] = first
        BY <2>3, <3>2 DEF Way
      <4>2. f[1] = WriteBlock(f[0], i, index + 1)
        BY <2>3, <3>2 DEF Way
      <4>3. index + 1 \in Indices
        BY <3>2 DEF Indices, VolumeAssumption
      <4>4. Sane(f[1])
        BY <1>1, <4>1, <4>2, <4>3, WriteBlockIs
      <4> QED
        BY <3>2, <4>4
    <3> QED
      BY <3>1, <3>2
  <2>6. PICK a : a = f[count - 1] /\ Sane(a) /\ a.i \in InodeRecord /\ a.ok \in BOOLEAN
    BY <2>5 DEF Sane
  <2>7. PICK b : b = [a EXCEPT !.ok = TRUE] /\ Sane(b)
    BY <2>6, FieldsIs
  <2>8. PICK c : c = WriteInode(b, i, a.i) /\ Sane(c)
    BY <2>6, <2>7, WriteInodeIs
  <2>9. t = [c EXCEPT !.ok = a.ok]
    BY <2>4, <2>6, <2>7, <2>8 DEF PutInode
  <2> QED
    BY <2>6, <2>8, <2>9, FieldsIs
<1> QED
  BY <1>3, <1>4

(* The names of a block of a directory.                                    *)
LEMMA SetNameIs ==
    ASSUME NEW s, Sane(s), NEW b \in DiskBlock, s.ok => s.v[Area(b)].kind = "names",
           NEW n \in Name, NEW i \in 0 .. Inodes, NEW t, t = SetName(s, b, n, i)
    PROVE  Sane(t) /\ Same(s, t)
<1>1. CASE ~s.ok
  <2>1. t = s
    BY <1>1, PutRefused DEF SetName
  <2> QED
    BY <2>1 DEF Same
<1>2. CASE s.ok
  <2>1. PICK names : names = s.v[Area(b)].names /\ names \in NameRows
    BY <1>2, ViewIs, ContentIs
  <2>2. [names EXCEPT ![n] = i] \in NameRows
    BY <2>1 DEF NameRows
  <2>3. Names([names EXCEPT ![n] = i]) \in Content
    BY <2>2, ContentIs
  <2>4. t = Put(s, Area(b), Names([names EXCEPT ![n] = i]))
    BY <2>1 DEF SetName
  <2> QED
    BY <2>3, <2>4, PutAreaIs
<1> QED
  BY <1>1, <1>2

(* A block of a directory by its index.                                    *)
LEMMA NamesAtIs ==
    ASSUME VolumeAssumption, NEW s, Sane(s), NEW inode \in InodeRecord, NEW k \in 0 .. inode.size - 1,
           IsNames(s.v, inode, k)
    PROVE  /\ BlockAt(s.v, inode, k) \in DiskBlock
           /\ s.v[Area(BlockAt(s.v, inode, k))].kind = "names"
           /\ EntriesAt(s.v, inode, k).names \in NameRows
<1>1. k \in Indices
  <2>1. inode.size \in 0 .. PerTable + 1
    BY InodeIs
  <2> QED
    BY <2>1 DEF Indices, VolumeAssumption
<1>2. BlockAt(s.v, inode, k) \in DiskBlock \cup {0}
  BY <1>1, BlockAtIs
<1>3. BlockAt(s.v, inode, k) \in DiskBlock
  BY <1>2 DEF IsNames
<1>4. s.v[Area(BlockAt(s.v, inode, k))].kind = "names"
  BY DEF IsNames, EntriesAt
<1>5. s.v[Area(BlockAt(s.v, inode, k))] \in Content
  BY <1>3, ViewIs
<1> QED
  BY <1>3, <1>4, <1>5, ContentIs DEF EntriesAt

(* Ext2DirectoryFind finds an inode or nothing.                            *)
LEMMA LookupIs ==
    ASSUME VolumeAssumption, NEW s, Sane(s), NEW inode \in InodeRecord, NEW n \in Name
    PROVE  /\ Lookup(s.v, inode, n) \in Inode \cup {0}
           /\ Lookup(s.v, inode, n) # 0 =>
                 \E k \in 0 .. inode.size - 1 : IsNames(s.v, inode, k) /\ EntriesAt(s.v, inode, k).names[n] # 0
<1>1. PICK at : at = {k \in 0 .. inode.size - 1 : IsNames(s.v, inode, k) /\ EntriesAt(s.v, inode, k).names[n] # 0}
  OBVIOUS
<1>2. CASE at = {}
  BY <1>1, <1>2 DEF Lookup
<1>3. CASE at # {}
  <2>1. at \subseteq Nat
    <3>1. inode.size \in 0 .. PerTable + 1
      BY InodeIs
    <3> QED
      BY <1>1, <3>1
  <2>2. PICK k : k = Min(at) /\ k \in at
    BY <1>3, <2>1, LeastMember
  <2>3. EntriesAt(s.v, inode, k).names \in NameRows
    BY <1>1, <2>2, NamesAtIs
  <2>4. EntriesAt(s.v, inode, k).names[n] \in 0 .. Inodes
    BY <2>3 DEF NameRows
  <2>5. EntriesAt(s.v, inode, k).names[n] \in Inode \cup {0}
    BY <2>4 DEF Inode, VolumeAssumption
  <2>6. Lookup(s.v, inode, n) = EntriesAt(s.v, inode, k).names[n]
    BY <1>1, <1>3, <2>2 DEF Lookup
  <2> QED
    BY <1>1, <2>2, <2>5, <2>6
<1> QED
  BY <1>2, <1>3

(* Ext2DirectoryInsert and Ext2DirectoryRemove.                            *)
LEMMA GrowIs ==
    ASSUME VolumeAssumption, NEW a, Sane(a), a.ok => a.got \in DiskBlock /\ a.i.size <= PerTable,
           NEW dir \in Inode, NEW n \in Name, NEW i \in 0 .. Inodes, NEW t, t = Grow(a, dir, n, i)
    PROVE  Sane(t) /\ (t.ok => a.ok)
<1>1. CASE ~a.ok
  BY <1>1 DEF Grow
<1>2. CASE a.ok
  <2>1. Names(NoNames) \in Content
    BY EmptyIs, ContentIs
  <2>2. PICK c : c = Put(a, Area(a.got), Names(NoNames)) /\ Sane(c) /\ Same(a, c)
    BY <1>2, <2>1, PutAreaIs
  <2>3. c.i \in InodeRecord /\ c.i.size + 1 \in 0 .. PerTable + 1
    <3>1. c.i \in InodeRecord
      BY <2>2 DEF Sane
    <3>2. c.i.size \in 0 .. PerTable + 1 /\ c.i.size <= PerTable
      BY <1>2, <2>2, <3>1, InodeIs DEF Same
    <3> QED
      BY <3>1, <3>2 DEF VolumeAssumption
  <2>4. PICK inode : inode = [c.i EXCEPT !.size = c.i.size + 1] /\ inode \in InodeRecord
    BY <2>3, InodeIs
  <2>5. PICK b : b = [c EXCEPT !.i = inode] /\ Sane(b)
    BY <2>2, <2>4, SetIs
  <2>6. b.i = inode /\ b.v = c.v /\ b.ok = c.ok
    BY <2>2, <2>4, <2>5, FieldsIs
  <2>7. PICK d : d = WriteInode(b, dir, b.i) /\ Sane(d) /\ Same(b, d)
    BY <2>4, <2>5, <2>6, WriteInodeIs
  <2>8. t = SetName(d, a.got, n, i)
    BY <1>2, <2>2, <2>3, <2>4, <2>5, <2>7 DEF Grow
  <2>9. d.v[Area(a.got)].kind = "names"
    <3>1. a.got \in DiskBlock /\ Area(a.got) \in Structure /\ Area(a.got) # Table(dir) /\ Table(dir) \in Structure
      BY <1>2, StructureIs, BuffersApart
    <3>2. HasPut(a, c, Area(a.got), Names(NoNames))
      BY <1>2, <2>2, <3>1, PutShows
    <3>3. b.ok
      BY <1>2, <2>2, <2>6 DEF Same
    <3>4. PICK inodes : HasPut(b, d, Table(dir), inodes)
      BY <2>5, <2>7, <3>1, <3>3, PutShows DEF WriteInode
    <3>5. d.v[Area(a.got)] = b.v[Area(a.got)]
      BY <3>1, <3>4 DEF HasPut
    <3>6. c.v[Area(a.got)] = Names(NoNames)
      BY <3>2 DEF HasPut
    <3> QED
      BY <2>6, <3>5, <3>6, EmptyIs
  <2>10. Sane(t) /\ Same(d, t)
    BY <1>2, <2>7, <2>8, <2>9, SetNameIs
  <2> QED
    BY <1>2, <2>10
<1> QED
  BY <1>1, <1>2

(* A name goes into a block with room, or the directory grows.             *)
LEMMA DirectoryInsertIs ==
    ASSUME VolumeAssumption, NEW s, Sane(s), NEW dir \in Inode, NEW n \in Name, NEW i \in 0 .. Inodes,
           NEW t, t = Insert(s, dir, n, i)
    PROVE  Sane(t) /\ (t.ok => s.ok)
<1>1. s.i \in InodeRecord /\ s.i.size \in 0 .. PerTable + 1
  <2>1. s.i \in InodeRecord
    BY DEF Sane
  <2> QED
    BY <2>1, InodeIs
<1>2. PICK room : room = {k \in 0 .. s.i.size - 1 :
                            IsNames(s.v, s.i, k) /\ Used(EntriesAt(s.v, s.i, k).names) < DirSlots}
  OBVIOUS
<1>3. CASE ~s.ok
  BY <1>3 DEF Insert
<1>4. CASE s.ok /\ room # {}
  <2>1. PICK k : k = Min(room) /\ k \in room
    <3>1. room \subseteq Nat
      BY <1>1, <1>2
    <3> QED
      BY <1>4, <3>1, LeastMember
  <2>2. t = SetName(s, BlockAt(s.v, s.i, k), n, i)
    BY <1>2, <1>4, <2>1 DEF Insert
  <2>3. BlockAt(s.v, s.i, k) \in DiskBlock /\ s.v[Area(BlockAt(s.v, s.i, k))].kind = "names"
    BY <1>1, <1>2, <2>1, NamesAtIs
  <2> QED
    BY <1>4, <2>2, <2>3, SetNameIs
<1>5. CASE s.ok /\ room = {} /\ s.i.size > PerTable
  <2>1. t = Refuse(s)
    BY <1>2, <1>5 DEF Insert
  <2> QED
    BY <2>1, RefuseIs
<1>6. CASE s.ok /\ room = {} /\ ~(s.i.size > PerTable)
  <2>1. s.i.size \in Indices
    BY <1>1, <1>6 DEF Indices, VolumeAssumption
  <2>2. PICK a : a = AllocateAt(s, s.i.size) /\ Sane(a) /\ SizeKept(s, a) /\ (a.ok => a.got \in DiskBlock)
    BY <1>6, <2>1, AllocateAtIs
  <2>3. t = Grow(a, dir, n, i)
    BY <1>2, <1>6, <2>2 DEF Insert
  <2>4. a.ok => a.i.size <= PerTable
    BY <1>1, <1>6, <2>2 DEF SizeKept, VolumeAssumption
  <2> QED
    BY <1>6, <2>2, <2>3, <2>4, GrowIs
<1> QED
  BY <1>3, <1>4, <1>5, <1>6

(* The calls.  Ext2CreateFile.                                             *)
LEMMA CreateFileIs ==
    ASSUME VolumeAssumption, NEW s, Sane(s), s.ok, NEW dir \in Inode, NEW n \in Name,
           NEW t, t = CreateFile(s, dir, n)
    PROVE  Sane(t) /\ (t.ok => t.got \in Inode)
<1>1. PICK a : a = AllocateInode(s, FALSE) /\ Sane(a) /\ (a.ok => a.got \in Inode)
  BY AllocateInodeIs
<1>2. CASE ~a.ok
  BY <1>1, <1>2 DEF CreateFile
<1>3. CASE a.ok
  <2>1. NewInode("file", 1) \in InodeRecord
    BY EmptyIs
  <2>2. PICK b : b = WriteInode(a, a.got, NewInode("file", 1)) /\ Sane(b)
    BY <1>1, <1>3, <2>1, WriteInodeIs
  <2>3. PICK i \in Inode : i = a.got
    BY <1>1, <1>3
  <2>4. PICK c : c = Insert(b, dir, n, i) /\ Sane(c)
    <3>1. i \in 0 .. Inodes
      BY DEF Inode, VolumeAssumption
    <3> QED
      BY <2>2, <3>1, DirectoryInsertIs
  <2>5. t = [c EXCEPT !.got = i]
    BY <1>1, <1>3, <2>2, <2>3, <2>4 DEF CreateFile
  <2>6. Sane(t) /\ t.got = i
    BY <2>4, <2>5, SetIs
  <2> QED
    BY <2>6
<1> QED
  BY <1>2, <1>3

(* The count of links of a parent.                                         *)
LEMMA LinksIs ==
    ASSUME VolumeAssumption, NEW s, Sane(s), NEW dir \in Inode, NEW inode \in InodeRecord,
           NEW t, t = [WriteInode(s, dir, inode) EXCEPT !.i = inode]
    PROVE  Sane(t)
<1>1. PICK a : a = WriteInode(s, dir, inode) /\ Sane(a)
  BY WriteInodeIs
<1> QED
  BY <1>1, SetIs

(* The link of a directory's ".." upon its parent, made or taken away.     *)
LEMMA ParentRaisedIs ==
    ASSUME VolumeAssumption, NEW s, Sane(s), NEW dir \in Inode
    PROVE  Sane(ParentRaised(s, dir)) /\ Sane(ParentLowered(s, dir))
<1>1. s.i \in InodeRecord /\ s.i.links \in Int
  <2>1. s.i \in InodeRecord
    BY DEF Sane
  <2> QED
    BY <2>1, InodeIs
<1>2. PICK more : more = [s.i EXCEPT !.links = s.i.links + 1] /\ more \in InodeRecord
  <2>1. PICK m \in Int : m = s.i.links + 1
    BY <1>1
  <2> QED
    BY <1>1, <2>1, InodeIs
<1>3. PICK less : less = [s.i EXCEPT !.links = s.i.links - 1] /\ less \in InodeRecord
  <2>1. PICK m \in Int : m = s.i.links - 1
    BY <1>1
  <2> QED
    BY <1>1, <2>1, InodeIs
<1>4. Sane([WriteInode(s, dir, more) EXCEPT !.i = more]) /\ Sane([WriteInode(s, dir, less) EXCEPT !.i = less])
  BY <1>2, <1>3, LinksIs
<1> QED
  BY <1>2, <1>3, <1>4 DEF ParentRaised, ParentLowered

(* Ext2CreateDirectory.                                                    *)
LEMMA CreateDirectoryIs ==
    ASSUME VolumeAssumption, NEW s, Sane(s), s.ok, NEW dir \in Inode, NEW n \in Name,
           NEW t, t = CreateDirectory(s, dir, n)
    PROVE  Sane(t)
<1>1. PICK a : a = AllocateInode(s, TRUE) /\ Sane(a) /\ (a.ok => a.got \in Inode)
  BY AllocateInodeIs
<1>2. CASE ~a.ok
  BY <1>1, <1>2 DEF CreateDirectory
<1>3. CASE a.ok
  <2>1. PICK i \in Inode : i = a.got
    BY <1>1, <1>3
  <2>2. PICK b : b = AllocateBlock(a) /\ Sane(b) /\ (b.ok => b.got \in DiskBlock)
    BY <1>1, AllocateBlockIs
  <2>3. t = PutDirectory(b, i, dir, n)
    BY <1>1, <1>3, <2>1, <2>2 DEF CreateDirectory
  <2>4. CASE ~b.ok
    BY <2>2, <2>3, <2>4 DEF PutDirectory
  <2>5. CASE b.ok
    <3>1. Names(NoNames) \in Content /\ NewInode("dir", 2) \in InodeRecord
      BY EmptyIs, ContentIs
    <3>2. PICK c : c = Put(b, Area(b.got), Names(NoNames)) /\ Sane(c)
      BY <2>2, <2>5, <3>1, PutAreaIs
    <3>3. PICK inode : inode = [NewInode("dir", 2) EXCEPT !.size = 1, !.direct = b.got] /\ inode \in InodeRecord
      <4>1. [NewInode("dir", 2) EXCEPT !.size = 1] \in InodeRecord
        BY <3>1, InodeIs DEF VolumeAssumption
      <4>2. [[NewInode("dir", 2) EXCEPT !.size = 1] EXCEPT !.direct = b.got] \in InodeRecord
        BY <2>2, <2>5, <4>1, InodeIs
      <4> QED
        BY <4>2
    <3>4. PICK d : d = WriteInode(c, i, inode) /\ Sane(d)
      BY <3>2, <3>3, WriteInodeIs
    <3>5. i \in 0 .. Inodes
      BY DEF Inode, VolumeAssumption
    <3>6. PICK e : e = Insert(d, dir, n, i) /\ Sane(e)
      BY <3>4, <3>5, DirectoryInsertIs
    <3>7. t = ParentRaised(e, dir)
      BY <2>3, <2>5, <3>2, <3>3, <3>4, <3>6 DEF PutDirectory
    <3> QED
      BY <3>6, <3>7, ParentRaisedIs
  <2> QED
    BY <2>4, <2>5
<1> QED
  BY <1>2, <1>3

(* Ext2Link.                                                               *)
LEMMA LinkToIs ==
    ASSUME VolumeAssumption, NEW s, Sane(s), NEW dir \in Inode, NEW n \in Name, NEW i \in Inode,
           NEW target \in InodeRecord, NEW t, t = LinkTo(s, dir, n, i, target)
    PROVE  Sane(t)
<1>1. i \in 0 .. Inodes
  BY DEF Inode, VolumeAssumption
<1>2. PICK a : a = Insert(s, dir, n, i) /\ Sane(a)
  BY <1>1, DirectoryInsertIs
<1>3. target.links + 1 \in Int
  BY InodeIs
<1>4. [target EXCEPT !.links = target.links + 1] \in InodeRecord
  BY <1>3, InodeIs
<1> QED
  BY <1>2, <1>4, WriteInodeIs DEF LinkTo

(* Ext2DirectoryRemove, of a name that is there.                           *)
LEMMA RemoveNameIs ==
    ASSUME VolumeAssumption, NEW s, Sane(s), NEW n \in Name, Lookup(s.v, s.i, n) # 0,
           NEW t, t = RemoveName(s, n)
    PROVE  Sane(t) /\ Same(s, t)
<1>1. s.i \in InodeRecord
  BY DEF Sane
<1>2. PICK k \in 0 .. s.i.size - 1 :
         /\ k = CHOOSE j \in 0 .. s.i.size - 1 : IsNames(s.v, s.i, j) /\ EntriesAt(s.v, s.i, j).names[n] # 0
         /\ IsNames(s.v, s.i, k)
  BY <1>1, LookupIs
<1>3. t = SetName(s, BlockAt(s.v, s.i, k), n, 0)
  BY <1>2 DEF RemoveName
<1>4. BlockAt(s.v, s.i, k) \in DiskBlock /\ s.v[Area(BlockAt(s.v, s.i, k))].kind = "names"
  BY <1>1, <1>2, NamesAtIs
<1>5. 0 \in 0 .. Inodes
  BY DEF VolumeAssumption
<1> QED
  BY <1>3, <1>4, <1>5, SetNameIs

(* Ext2Unlink.                                                             *)
LEMMA UnlinkNameIs ==
    ASSUME VolumeAssumption, NEW s, Sane(s), NEW n \in Name, Lookup(s.v, s.i, n) # 0,
           NEW t, t = UnlinkName(s, n)
    PROVE  Sane(t)
<1>1. s.i \in InodeRecord
  BY DEF Sane
<1>2. PICK i \in Inode : i = Lookup(s.v, s.i, n)
  BY <1>1, LookupIs
<1>3. PICK inode \in InodeRecord : inode = InodeIn(s.v, i)
  BY ViewIs
<1>4. PICK target : target = [inode EXCEPT !.links = inode.links - 1] /\ target \in InodeRecord
  <2>1. inode.links - 1 \in Int
    BY InodeIs
  <2> QED
    BY <2>1, InodeIs
<1>5. PICK a : a = [RemoveName(s, n) EXCEPT !.i = target] /\ Sane(a)
  <2>1. Sane(RemoveName(s, n))
    BY RemoveNameIs
  <2> QED
    BY <1>4, <2>1, SetIs
<1>6. PICK b : b = TruncateToNothing(a, i) /\ Sane(b) /\ b.i \in InodeRecord
  <2>1. Sane(TruncateToNothing(a, i))
    BY <1>5, TruncateIs
  <2> QED
    BY <2>1 DEF Sane
<1>7. PICK c : c = WriteInode(b, i, [b.i EXCEPT !.size = 0]) /\ Sane(c)
  <2>1. [b.i EXCEPT !.size = 0] \in InodeRecord
    BY <1>6, InodeIs DEF VolumeAssumption
  <2> QED
    BY <1>6, <2>1, WriteInodeIs
<1>8. Sane(WriteInode(a, i, target)) /\ Sane(FreeInode(c, i, FALSE))
  BY <1>4, <1>5, <1>7, WriteInodeIs, FreeInodeIs
<1>9. t = IF target.links > 0 THEN WriteInode(a, i, target) ELSE FreeInode(c, i, FALSE)
  BY <1>2, <1>3, <1>4, <1>5, <1>6, <1>7 DEF UnlinkName
<1> QED
  BY <1>8, <1>9

(* Ext2RemoveDirectory.                                                    *)
LEMMA RemoveDirectoryIs ==
    ASSUME VolumeAssumption, NEW s, Sane(s), NEW dir \in Inode, NEW n \in Name, Lookup(s.v, s.i, n) # 0,
           NEW t, t = RemoveDirectory(s, dir, n)
    PROVE  Sane(t)
<1>1. s.i \in InodeRecord
  BY DEF Sane
<1>2. PICK i \in Inode : i = Lookup(s.v, s.i, n)
  BY <1>1, LookupIs
<1>3. PICK inode \in InodeRecord : inode = InodeIn(s.v, i)
  BY ViewIs
<1>4. PICK a : a = [RemoveName(s, n) EXCEPT !.i = inode] /\ Sane(a)
  <2>1. Sane(RemoveName(s, n))
    BY RemoveNameIs
  <2> QED
    BY <2>1, SetIs
<1>5. PICK b : b = TruncateToNothing(a, i) /\ Sane(b) /\ b.i \in InodeRecord
  <2>1. Sane(TruncateToNothing(a, i))
    BY <1>4, TruncateIs
  <2> QED
    BY <2>1 DEF Sane
<1>6. PICK last : last = [b.i EXCEPT !.size = 0, !.links = 0] /\ last \in InodeRecord
  <2>1. 0 \in 0 .. PerTable + 1
    BY DEF VolumeAssumption
  <2>2. PICK y : y = [b.i EXCEPT !.size = 0] /\ y \in InodeRecord
    BY <1>5, <2>1, InodeIs
  <2>3. \A m \in Int : [y EXCEPT !.links = m] \in InodeRecord
    BY <2>2, InodeIs
  <2>4. [b.i EXCEPT !.size = 0, !.links = 0] = [y EXCEPT !.links = 0]
    BY <2>2
  <2> QED
    BY <2>3, <2>4
<1>7. PICK c : c = FreeInode(WriteInode(b, i, last), i, TRUE) /\ Sane(c)
  <2>1. Sane(WriteInode(b, i, last))
    BY <1>5, <1>6, WriteInodeIs
  <2> QED
    BY <2>1, FreeInodeIs
<1>8. PICK d : d = [c EXCEPT !.i = s.i] /\ Sane(d)
  BY <1>1, <1>7, SetIs
<1>9. t = ParentLowered(d, dir)
  BY <1>2, <1>3, <1>4, <1>5, <1>6, <1>7, <1>8 DEF RemoveDirectory
<1> QED
  BY <1>8, <1>9, ParentRaisedIs

(* The node in memory an operation begins upon.                            *)
LEMMA BeginIs ==
    ASSUME VolumeTypeOK, \A z \in maybe[Super] : ~z.valid, NEW inode \in InodeRecord
    PROVE  Sane(Begin(inode)) /\ Begin(inode).ok /\ Begin(inode).i = inode /\ Begin(inode).v = view
  BY DEF VolumeTypeOK, Begin, Sane, Carried

(* What the node in memory, or else the volume, says of an inode.          *)
LEMMA NodeOfIs ==
    ASSUME VolumeTypeOK, NEW i \in Inode
    PROVE  NodeOf(i) \in InodeRecord /\ InodeIn(view, i) \in InodeRecord
<1>1. MayHold(Table(i), view[Table(i)])
  BY StructureIs DEF VolumeTypeOK
<1>2. view[Table(i)] \in [Beside(i) -> InodeRecord] /\ i \in Beside(i)
  BY <1>1, MayHoldIs DEF Beside
<1>3. InodeIn(view, i) \in InodeRecord
  BY <1>2 DEF InodeIn
<1> QED
  BY <1>3 DEF NodeOf, VolumeTypeOK

(* A step by which the cache has what an operation left in it.             *)
LEMMA CacheTyped ==
    ASSUME NEW s, Sane(s), view' = s.v, maybe' = s.w
    PROVE  /\ (DOMAIN view = Structure /\ DOMAIN maybe = Structure)'
           /\ (\A x \in Structure : view[x] \in maybe[x] /\ \A z \in maybe[x] : MayHold(x, z))'
           /\ \A z \in maybe'[Super] : ~z.valid
<1>1. /\ DOMAIN view' = Structure /\ DOMAIN maybe' = Structure
      /\ \A x \in Structure : view'[x] \in maybe'[x] /\ \A z \in maybe'[x] : MayHold(x, z)
      /\ \A z \in maybe'[Super] : ~z.valid
  BY DEF Sane
<1> QED
  BY <1>1

(* While the volume is mounted no version of its superblock bears the mark.*)
Unmarked ==
    /\ phase \in {"on", "syncing"} => \A z \in maybe[Super] : ~z.valid
    /\ phase = "mounting" => ~view[Super].valid

VolumeInv == VolumeTypeOK /\ Unmarked

(* What a call that altered the cache has to leave besides.                *)
LEMMA CallKeeps ==
    ASSUME VolumeTypeOK, NEW s, Sane(s), view' = s.v, maybe' = s.w,
           nodes' \in [Inode -> InodeRecord], files' \in [Descriptor -> 0 .. Inodes],
           phase' \in {"on", "syncing"}, full' = (full \/ ~s.ok)
    PROVE  VolumeInv'
<1>1. s.ok \in BOOLEAN /\ full \in BOOLEAN
  BY DEF Sane, VolumeTypeOK
<1>2. full' \in BOOLEAN
  BY <1>1
<1>3. VolumeTypeOK'
  BY <1>2, CacheTyped DEF VolumeTypeOK
<1>4. Unmarked'
  BY CacheTyped DEF Unmarked
<1> QED
  BY <1>3, <1>4 DEF VolumeInv

(* Where a call upon names leaves the volume.                              *)
LEMMA AfterNamesIs ==
    ASSUME NEW s
    PROVE  AfterNames(s) \in {"on", "syncing"}
  BY DEF AfterNames

(* The calls of the filesystem, one by one.                                *)
LEMMA MkdirKeeps ==
    ASSUME VolumeAssumption, VolumeInv, NEW dir \in Inode, NEW n \in Name, Mkdir(dir, n)
    PROVE  VolumeInv'
<1>1. VolumeTypeOK /\ \A z \in maybe[Super] : ~z.valid
  BY DEF VolumeInv, Unmarked, Mkdir
<1>2. NodeOf(dir) \in InodeRecord
  BY <1>1, NodeOfIs
<1>3. PICK s : /\ s = CreateDirectory(Begin(NodeOf(dir)), dir, n)
               /\ Finish(s, dir) /\ phase' = AfterNames(s) /\ UNCHANGED files
  BY DEF Mkdir
<1>4. Sane(s)
  BY <1>1, <1>2, <1>3, BeginIs, CreateDirectoryIs
<1>5. s.i \in InodeRecord
  BY <1>4 DEF Sane
<1>6. nodes' \in [Inode -> InodeRecord] /\ files' \in [Descriptor -> 0 .. Inodes]
  BY <1>1, <1>3, <1>5 DEF Finish, VolumeTypeOK
<1> QED
  BY <1>1, <1>3, <1>4, <1>6, CallKeeps, AfterNamesIs DEF Finish

LEMMA UnlinkKeeps ==
    ASSUME VolumeAssumption, VolumeInv, NEW dir \in Inode, NEW n \in Name, Unlink(dir, n)
    PROVE  VolumeInv'
<1>1. VolumeTypeOK /\ \A z \in maybe[Super] : ~z.valid
  BY DEF VolumeInv, Unmarked, Unlink
<1>2. NodeOf(dir) \in InodeRecord
  BY <1>1, NodeOfIs
<1>3. PICK s : /\ s = UnlinkName(Begin(NodeOf(dir)), n)
               /\ Finish([s EXCEPT !.i = NodeOf(dir)], dir) /\ phase' = AfterNames(s) /\ UNCHANGED files
               /\ Lookup(view, NodeOf(dir), n) # 0
  BY DEF Unlink
<1>4. Sane(s)
  BY <1>1, <1>2, <1>3, BeginIs, UnlinkNameIs
<1>5. PICK t : t = [s EXCEPT !.i = NodeOf(dir)] /\ Sane(t) /\ t.i = NodeOf(dir)
  <2>1. PICK inode \in InodeRecord : inode = NodeOf(dir)
    BY <1>2
  <2>2. Sane([s EXCEPT !.i = inode]) /\ [s EXCEPT !.i = inode].i = inode
    BY <1>4, FieldsIs
  <2> QED
    BY <2>1, <2>2
<1>6. nodes' \in [Inode -> InodeRecord] /\ files' \in [Descriptor -> 0 .. Inodes]
  BY <1>1, <1>2, <1>3, <1>5 DEF Finish, VolumeTypeOK
<1> QED
  BY <1>1, <1>3, <1>5, <1>6, CallKeeps, AfterNamesIs DEF Finish

LEMMA RmdirKeeps ==
    ASSUME VolumeAssumption, VolumeInv, NEW dir \in Inode, NEW n \in Name, Rmdir(dir, n)
    PROVE  VolumeInv'
<1>1. VolumeTypeOK /\ \A z \in maybe[Super] : ~z.valid
  BY DEF VolumeInv, Unmarked, Rmdir
<1>2. NodeOf(dir) \in InodeRecord
  BY <1>1, NodeOfIs
<1>3. PICK s : /\ s = RemoveDirectory(Begin(NodeOf(dir)), dir, n)
               /\ Finish(s, dir) /\ phase' = AfterNames(s) /\ UNCHANGED files
               /\ Lookup(view, NodeOf(dir), n) # 0
  BY DEF Rmdir
<1>4. Sane(s)
  BY <1>1, <1>2, <1>3, BeginIs, RemoveDirectoryIs
<1>5. s.i \in InodeRecord
  BY <1>4 DEF Sane
<1>6. nodes' \in [Inode -> InodeRecord] /\ files' \in [Descriptor -> 0 .. Inodes]
  BY <1>1, <1>3, <1>5 DEF Finish, VolumeTypeOK
<1> QED
  BY <1>1, <1>3, <1>4, <1>6, CallKeeps, AfterNamesIs DEF Finish

LEMMA LinkKeeps ==
    ASSUME VolumeAssumption, VolumeInv, NEW i \in Inode, NEW dir \in Inode, NEW n \in Name, Link(i, dir, n)
    PROVE  VolumeInv'
<1>1. VolumeTypeOK /\ \A z \in maybe[Super] : ~z.valid
  BY DEF VolumeInv, Unmarked, Link
<1>2. NodeOf(dir) \in InodeRecord /\ NodeOf(i) \in InodeRecord
  BY <1>1, NodeOfIs
<1>3. PICK s : /\ s = LinkTo(Begin(NodeOf(dir)), dir, n, i, NodeOf(i))
               /\ view' = s.v /\ maybe' = s.w /\ full' = (full \/ ~s.ok)
               /\ nodes' = [j \in Inode |-> CASE j = dir /\ Held(j) -> s.i
                                              [] j = i /\ Held(j) /\ s.ok -> [nodes[j] EXCEPT !.links = @ + 1]
                                              [] OTHER -> nodes[j]]
               /\ phase' = AfterNames(s) /\ UNCHANGED files
  BY DEF Link
<1>4. Sane(s)
  BY <1>1, <1>2, <1>3, BeginIs, LinkToIs
<1>5. s.i \in InodeRecord
  BY <1>4 DEF Sane
<1>6. \A j \in Inode : nodes[j] \in InodeRecord /\ [nodes[j] EXCEPT !.links = nodes[j].links + 1] \in InodeRecord
  <2> TAKE j \in Inode
  <2>1. nodes[j] \in InodeRecord
    BY <1>1 DEF VolumeTypeOK
  <2>2. nodes[j].links + 1 \in Int
    BY <2>1, InodeIs
  <2> QED
    BY <2>1, <2>2, InodeIs
<1>7. \A j \in Inode : nodes'[j] \in InodeRecord
  BY <1>3, <1>5, <1>6
<1>8. nodes' \in [Inode -> InodeRecord] /\ files' \in [Descriptor -> 0 .. Inodes]
  BY <1>1, <1>3, <1>7 DEF VolumeTypeOK
<1> QED
  BY <1>1, <1>3, <1>4, <1>8, CallKeeps, AfterNamesIs

LEMMA OpenKeeps ==
    ASSUME VolumeAssumption, VolumeInv, NEW d \in Descriptor, NEW dir \in Inode, NEW n \in Name,
           NEW truncate \in BOOLEAN, Open(d, dir, n, truncate)
    PROVE  VolumeInv'
<1>1. VolumeTypeOK /\ phase = "on" /\ \A z \in maybe[Super] : ~z.valid
  BY DEF VolumeInv, Unmarked, Open
<1>2. NodeOf(dir) \in InodeRecord
  BY <1>1, NodeOfIs
<1>3. PICK i \in Inode : i = Lookup(view, NodeOf(dir), n)
  <2>1. Sane(Begin(NodeOf(dir))) /\ Begin(NodeOf(dir)).v = view
    BY <1>1, <1>2, BeginIs
  <2>2. Lookup(view, NodeOf(dir), n) \in Inode \cup {0}
    BY <1>2, <2>1, LookupIs
  <2> QED
    BY <2>2 DEF Open
<1>4. NodeOf(i) \in InodeRecord
  BY <1>1, NodeOfIs
<1>5. PICK s : s = TruncateToNothing(Begin(NodeOf(i)), i) /\ Sane(s) /\ s.i \in InodeRecord
  <2>1. Sane(TruncateToNothing(Begin(NodeOf(i)), i))
    BY <1>1, <1>4, BeginIs, TruncateIs
  <2> QED
    BY <2>1 DEF Sane
<1>6. /\ files' = [files EXCEPT ![d] = i] /\ UNCHANGED <<phase, full>>
      /\ \/ view' = s.v /\ maybe' = s.w /\ nodes' = [nodes EXCEPT ![i] = s.i]
         \/ UNCHANGED <<view, maybe>> /\ nodes' = [nodes EXCEPT ![i] = NodeOf(i)]
  BY <1>3, <1>5 DEF Open
<1>7. nodes' \in [Inode -> InodeRecord] /\ files' \in [Descriptor -> 0 .. Inodes]
  <2>1. i \in 0 .. Inodes
    BY DEF Inode, VolumeAssumption
  <2> QED
    BY <1>1, <1>4, <1>5, <1>6, <2>1 DEF VolumeTypeOK
<1>8. CASE view' = s.v /\ maybe' = s.w
  <2>1. VolumeTypeOK'
    BY <1>1, <1>5, <1>6, <1>7, <1>8, CacheTyped DEF VolumeTypeOK
  <2>2. Unmarked'
    BY <1>1, <1>5, <1>6, <1>8, CacheTyped DEF Unmarked
  <2> QED
    BY <2>1, <2>2 DEF VolumeInv
<1>9. CASE UNCHANGED <<view, maybe>>
  BY <1>1, <1>6, <1>7, <1>9 DEF VolumeInv, VolumeTypeOK, Unmarked
<1> QED
  BY <1>6, <1>8, <1>9

LEMMA OpenNewKeeps ==
    ASSUME VolumeAssumption, VolumeInv, NEW d \in Descriptor, NEW dir \in Inode, NEW n \in Name,
           OpenNew(d, dir, n)
    PROVE  VolumeInv'
<1>1. VolumeTypeOK /\ phase = "on" /\ \A z \in maybe[Super] : ~z.valid
  BY DEF VolumeInv, Unmarked, OpenNew
<1>2. NodeOf(dir) \in InodeRecord
  BY <1>1, NodeOfIs
<1>3. PICK s \in {CreateFile(Begin(NodeOf(dir)), dir, n)} :
         /\ view' = s.v /\ maybe' = s.w /\ full' = (full \/ ~s.ok)
         /\ nodes' = [i \in Inode |-> CASE i = dir /\ Held(i) -> s.i
                                        [] s.ok /\ i = s.got -> InodeIn(s.v, i)
                                        [] OTHER -> nodes[i]]
         /\ files' = IF s.ok THEN [files EXCEPT ![d] = s.got] ELSE files
  BY Zenon DEF OpenNew
<1>4. Sane(s) /\ (s.ok => s.got \in Inode)
  BY <1>1, <1>2, <1>3, BeginIs, CreateFileIs
<1>5. s.i \in InodeRecord /\ \A i \in Inode : InodeIn(s.v, i) \in InodeRecord
  BY <1>4, ViewIs DEF Sane
<1>6. \A i \in Inode : nodes'[i] \in InodeRecord
  BY <1>1, <1>3, <1>5 DEF VolumeTypeOK
<1>7. files' \in [Descriptor -> 0 .. Inodes]
  <2>1. s.ok => s.got \in 0 .. Inodes
    BY <1>4 DEF Inode, VolumeAssumption
  <2> QED
    BY <1>1, <1>3, <2>1 DEF VolumeTypeOK
<1>8. nodes' \in [Inode -> InodeRecord]
  BY <1>3, <1>6
<1> QED
  BY <1>1, <1>3, <1>4, <1>7, <1>8, CallKeeps DEF OpenNew

LEMMA WriteKeeps ==
    ASSUME VolumeAssumption, VolumeInv, NEW d \in Descriptor, NEW index \in 0 .. PerTable,
           NEW count \in 1 .. 2, Write(d, index, count)
    PROVE  VolumeInv'
<1>1. VolumeTypeOK /\ phase = "on" /\ \A z \in maybe[Super] : ~z.valid
  BY DEF VolumeInv, Unmarked, Write
<1>2. PICK i \in Inode : i = files[d]
  <2>1. files[d] \in 0 .. Inodes /\ files[d] # 0
    BY <1>1 DEF Write, VolumeTypeOK
  <2> QED
    BY <2>1 DEF Inode, VolumeAssumption
<1>3. nodes[i] \in InodeRecord
  BY <1>1 DEF VolumeTypeOK
<1>4. PICK s : /\ s = WriteBlocks(Begin(nodes[i]), i, index, count)
               /\ view' = s.v /\ maybe' = s.w /\ full' = (full \/ ~s.ok)
               /\ nodes' = [nodes EXCEPT ![i] = s.i]
               /\ UNCHANGED <<files, phase>>
  BY <1>2 DEF Write
<1>5. Sane(s)
  <2>1. index \in Indices /\ index + count <= PerTable + 1
    BY DEF Indices, Write
  <2> QED
    BY <1>1, <1>3, <1>4, <2>1, BeginIs, WriteBlocksIs
<1>6. nodes' \in [Inode -> InodeRecord] /\ files' \in [Descriptor -> 0 .. Inodes]
  BY <1>1, <1>4, <1>5 DEF VolumeTypeOK, Sane
<1> QED
  BY <1>1, <1>4, <1>5, <1>6, CallKeeps

LEMMA CloseKeeps ==
    ASSUME VolumeAssumption, VolumeInv, NEW d \in Descriptor, Close(d)
    PROVE  VolumeInv'
<1>1. VolumeTypeOK /\ \A z \in maybe[Super] : ~z.valid
  BY DEF VolumeInv, Unmarked, Close
<1>2. NoInode \in InodeRecord /\ 0 \in 0 .. Inodes
  BY EmptyIs DEF VolumeAssumption
<1>3. nodes' \in [Inode -> InodeRecord]
  BY <1>1, <1>2 DEF Close, VolumeTypeOK
<1>4. files' \in [Descriptor -> 0 .. Inodes]
  BY <1>1, <1>2 DEF Close, VolumeTypeOK
<1>5. VolumeTypeOK'
  BY <1>1, <1>3, <1>4 DEF Close, AfterClose, VolumeTypeOK
<1>6. Unmarked'
  BY <1>1 DEF Close, AfterClose, Unmarked
<1> QED
  BY <1>5, <1>6 DEF VolumeInv

(* What one write leaves, buffer by buffer.                                *)
Holds(s) == Carried(s) /\ s.ok /\ DOMAIN s.v = Structure /\ DOMAIN s.w = Structure
HasMade(s, t, x, value) ==
    /\ Holds(t)
    /\ \A y \in Structure : /\ t.v[y] = IF y = x THEN value ELSE s.v[y]
                            /\ t.w[y] = IF y = x THEN s.w[x] \cup {value} ELSE s.w[y]
LEMMA PutMakes ==
    ASSUME NEW s, Holds(s), NEW x \in Structure, NEW value, NEW t, t = Put(s, x, value)
    PROVE  HasMade(s, t, x, value)
<1>1. PICK v, w, i, got, okay : s = [v |-> v, w |-> w, i |-> i, got |-> got, ok |-> okay]
  BY DEF Holds, Carried
<1>2. s.ok
  BY DEF Holds
<1>3. PICK after, made : /\ after = [v EXCEPT ![x] = value] /\ made = [w EXCEPT ![x] = w[x] \cup {value}]
                         /\ t = [v |-> after, w |-> made, i |-> i, got |-> got, ok |-> okay]
  BY <1>1, <1>2 DEF Put
<1>4. t.v = after /\ t.w = made /\ t.ok = s.ok /\ Carried(t) /\ s.v = v /\ s.w = w
  <2>1. s.v = v /\ s.w = w /\ s.ok = okay
    BY <1>1
  <2>2. t.v = after /\ t.w = made /\ t.ok = okay
    BY <1>3
  <2>3. Carried(t)
    BY <1>3 DEF Carried
  <2> QED
    BY <2>1, <2>2, <2>3
<1>5. DOMAIN t.v = Structure /\ DOMAIN t.w = Structure
  BY <1>3, <1>4 DEF Holds
<1>6. \A y \in Structure : /\ t.v[y] = IF y = x THEN value ELSE s.v[y]
                           /\ t.w[y] = IF y = x THEN s.w[x] \cup {value} ELSE s.w[y]
  BY <1>3, <1>4 DEF Holds
<1> QED
  BY <1>2, <1>4, <1>5, <1>6 DEF Holds, HasMade

(* The mark set, or cleared, in the cache.                                 *)
Bears(super, valid) == [super EXCEPT !.valid = valid]
LEMMA BearsIs ==
    ASSUME NEW super \in SuperRecord, NEW valid \in BOOLEAN
    PROVE  /\ Bears(super, valid) \in SuperRecord /\ (Bears(super, valid).valid <=> valid)
           /\ Bears(super, valid).freeBlocks = super.freeBlocks
           /\ Bears(super, valid).freeInodes = super.freeInodes
           /\ \A other : Bears(Bears(super, valid), other) = Bears(super, other)
  BY DEF SuperRecord, Bears

(* What a mount and an unmount leave in the cache.                         *)
HasMounted(v, w) ==
    /\ DOMAIN v = Structure /\ DOMAIN w = Structure
    /\ v[Super] = Bears(view[Super], FALSE)
    /\ w[Super] = maybe[Super] \cup {Bears(view[Super], TRUE), Bears(view[Super], FALSE)}
    /\ \A x \in Structure \ {Super} : v[x] = view[x] /\ w[x] = maybe[x]
LEMMA MountWrites ==
    ASSUME VolumeTypeOK
    PROVE  HasMounted(MarkOpen(MarkClean(Begin(NoInode))).v, MarkOpen(MarkClean(Begin(NoInode))).w)
<1>1. Super \in Structure /\ view[Super] \in SuperRecord
  BY StructureIs, MayHoldIs DEF VolumeTypeOK
<1>2. PICK a : a = Begin(NoInode) /\ Holds(a) /\ a.v = view /\ a.w = maybe
  <2>1. PICK a : a = [v |-> view, w |-> maybe, i |-> NoInode, got |-> 0, ok |-> TRUE]
    OBVIOUS
  <2>2. a = Begin(NoInode)
    BY <2>1 DEF Begin
  <2>3. a.v = view /\ a.w = maybe /\ a.ok /\ Carried(a)
    BY <2>1 DEF Carried
  <2> QED
    BY <2>2, <2>3 DEF Holds, VolumeTypeOK
<1>3. PICK b : b = MarkClean(a) /\ HasMade(a, b, Super, Bears(a.v[Super], TRUE))
  BY <1>1, <1>2, PutMakes DEF MarkClean, Bears
<1>4. Holds(b) /\ b.v[Super] = Bears(view[Super], TRUE)
  BY <1>1, <1>2, <1>3 DEF HasMade
<1>5. PICK c : c = MarkOpen(b) /\ HasMade(b, c, Super, Bears(b.v[Super], FALSE))
  BY <1>1, <1>4, PutMakes DEF MarkOpen, Bears
<1>6. Bears(b.v[Super], FALSE) = Bears(view[Super], FALSE)
  <2>1. Bears(Bears(view[Super], TRUE), FALSE) = Bears(view[Super], FALSE)
    BY <1>1, BearsIs
  <2> QED
    BY <1>4, <2>1
<1>7. DOMAIN c.v = Structure /\ DOMAIN c.w = Structure
  BY <1>5 DEF HasMade, Holds
<1>8. c.v[Super] = Bears(view[Super], FALSE)
  BY <1>1, <1>5, <1>6 DEF HasMade
<1>9. c.w[Super] = maybe[Super] \cup {Bears(view[Super], TRUE), Bears(view[Super], FALSE)}
  <2>1. c.w[Super] = b.w[Super] \cup {Bears(view[Super], FALSE)}
    BY <1>1, <1>5, <1>6 DEF HasMade
  <2>2. b.w[Super] = maybe[Super] \cup {Bears(view[Super], TRUE)}
    BY <1>1, <1>2, <1>3 DEF HasMade
  <2> QED
    BY <2>1, <2>2
<1>10. \A x \in Structure \ {Super} : c.v[x] = view[x] /\ c.w[x] = maybe[x]
  <2> TAKE x \in Structure \ {Super}
  <2>1. c.v[x] = b.v[x] /\ c.w[x] = b.w[x]
    BY <1>5 DEF HasMade
  <2>2. b.v[x] = view[x] /\ b.w[x] = maybe[x]
    BY <1>2, <1>3 DEF HasMade
  <2> QED
    BY <2>1, <2>2
<1>11. HasMounted(c.v, c.w)
  BY <1>7, <1>8, <1>9, <1>10 DEF HasMounted
<1> QED
  BY <1>2, <1>3, <1>5, <1>11

HasUnmounted(v, w) ==
    /\ DOMAIN v = Structure /\ DOMAIN w = Structure
    /\ v[Super] = Bears(view[Super], TRUE)
    /\ w[Super] = {view[Super], Bears(view[Super], TRUE)}
    /\ \A x \in Structure \ {Super} : v[x] = view[x] /\ w[x] = {view[x]}
LEMMA UnmountWrites ==
    ASSUME VolumeTypeOK
    PROVE  HasUnmounted(MarkClean([Begin(NoInode) EXCEPT !.w = AllWritten]).v,
                        MarkClean([Begin(NoInode) EXCEPT !.w = AllWritten]).w)
<1>1. Super \in Structure
  BY StructureIs
<1>2. PICK all : all = AllWritten /\ DOMAIN all = Structure /\ \A x \in Structure : all[x] = {view[x]}
  <2>1. PICK all : all = [x \in Structure |-> {view[x]}]
    OBVIOUS
  <2> QED
    BY <2>1 DEF AllWritten
<1>3. PICK a : a = [Begin(NoInode) EXCEPT !.w = all] /\ Holds(a) /\ a.v = view /\ a.w = all
  <2>1. [Begin(NoInode) EXCEPT !.w = all] = [v |-> view, w |-> all, i |-> NoInode, got |-> 0, ok |-> TRUE]
    <3>1. PICK v, w, i, got, okay : v = view /\ w = maybe /\ i = NoInode /\ got = 0 /\ okay = TRUE
      OBVIOUS
    <3>2. PICK b : b = [v |-> v, w |-> w, i |-> i, got |-> got, ok |-> okay]
      OBVIOUS
    <3>3. [b EXCEPT !.w = all] = [v |-> v, w |-> all, i |-> i, got |-> got, ok |-> okay]
      BY <3>2
    <3> QED
      BY <3>1, <3>2, <3>3 DEF Begin
  <2>2. PICK a : a = [v |-> view, w |-> all, i |-> NoInode, got |-> 0, ok |-> TRUE]
    OBVIOUS
  <2>3. a.v = view /\ a.w = all /\ a.ok /\ Carried(a)
    BY <2>2 DEF Carried
  <2>4. Holds(a)
    BY <1>2, <2>3 DEF Holds, VolumeTypeOK
  <2> QED
    BY <2>1, <2>2, <2>3, <2>4
<1>4. PICK b : b = MarkClean(a) /\ HasMade(a, b, Super, Bears(a.v[Super], TRUE))
  BY <1>1, <1>3, PutMakes DEF MarkClean, Bears
<1>5. DOMAIN b.v = Structure /\ DOMAIN b.w = Structure
  BY <1>4 DEF HasMade, Holds
<1>6. b.v[Super] = Bears(view[Super], TRUE)
  BY <1>1, <1>3, <1>4 DEF HasMade
<1>7. b.w[Super] = {view[Super], Bears(view[Super], TRUE)}
  <2>1. b.w[Super] = all[Super] \cup {Bears(view[Super], TRUE)}
    BY <1>1, <1>3, <1>4 DEF HasMade
  <2> QED
    BY <1>1, <1>2, <2>1
<1>8. \A x \in Structure \ {Super} : b.v[x] = view[x] /\ b.w[x] = {view[x]}
  <2> TAKE x \in Structure \ {Super}
  <2>1. b.v[x] = a.v[x] /\ b.w[x] = a.w[x]
    BY <1>4 DEF HasMade
  <2> QED
    BY <1>2, <1>3, <2>1
<1>9. HasUnmounted(b.v, b.w)
  BY <1>5, <1>6, <1>7, <1>8 DEF HasUnmounted
<1> QED
  BY <1>2, <1>3, <1>4, <1>9

(* A volume newly made, and one found left open, are of the right type.    *)
LEMMA MadeIs ==
    ASSUME VolumeAssumption
    PROVE  /\ DOMAIN Made = Structure /\ DOMAIN LeftOpen = Structure
           /\ \A x \in Structure : MayHold(x, Made[x]) /\ MayHold(x, LeftOpen[x])
           /\ \A x \in Structure \ {Super} : LeftOpen[x] = Made[x]
           /\ ~LeftOpen[Super].valid
<1>1. DOMAIN Made = Structure
  BY DEF Made
<1>11. \A x \in {Super, Group, BlockMap, InodeMap} : x \in Structure /\ x[1] # "inodes" /\ x # Area(1)
  BY StructureIs, BuffersApart DEF Super, Group, BlockMap, InodeMap
<1>2. DiskBlocks - 1 \in Int /\ Inodes - 1 \in Int
  BY DEF VolumeAssumption
<1>3. PICK super \in SuperRecord : super = Made[Super]
  <2>1. Made[Super] = [valid |-> TRUE, freeBlocks |-> DiskBlocks - 1, freeInodes |-> Inodes - 1]
    BY <1>11, BuffersApart DEF Made
  <2>2. \A b, c \in Int : [valid |-> TRUE, freeBlocks |-> b, freeInodes |-> c] \in SuperRecord
    BY DEF SuperRecord
  <2> QED
    BY <1>2, <2>1, <2>2
<1>4. Made[Group] \in GroupRecord
  <2>1. Made[Group] = [freeBlocks |-> DiskBlocks - 1, freeInodes |-> Inodes - 1, directories |-> 1]
    BY <1>11, BuffersApart DEF Made
  <2>2. \A b, c \in Int : [freeBlocks |-> b, freeInodes |-> c, directories |-> 1] \in GroupRecord
    BY DEF GroupRecord
  <2> QED
    BY <1>2, <2>1, <2>2
<1>41. Made[BlockMap] = {1} /\ Made[InodeMap] = {Root}
  <2>1. Made[BlockMap] = {1}
    BY <1>11, BuffersApart DEF Made
  <2>2. Made[InodeMap] = {Root}
    BY <1>11, BuffersApart DEF Made
  <2> QED
    BY <2>1, <2>2
<1>5. 1 \in DiskBlock /\ Root \in Inode
  BY DEF VolumeAssumption, DiskBlock, Inode, Root
<1>6. ASSUME NEW i \in Inode
      PROVE  Made[Table(i)] \in [Beside(i) -> InodeRecord]
  <2>1. Made[Table(i)] = [j \in Beside(i) |->
                            IF j = Root THEN [NewInode("dir", 2) EXCEPT !.size = 1, !.direct = 1] ELSE NoInode]
    <3>1. Table(i) \in Structure /\ Table(i)[1] = "inodes"
      BY StructureIs DEF Table
    <3> QED
      BY <3>1, BuffersApart DEF Made, Beside
  <2>2. [NewInode("dir", 2) EXCEPT !.size = 1, !.direct = 1] \in InodeRecord
    <3>1. PICK inode \in InodeRecord : inode = NewInode("dir", 2)
      BY EmptyIs
    <3>2. 1 \in 0 .. PerTable + 1 /\ 1 \in DiskBlock \cup {0}
      BY DEF VolumeAssumption, DiskBlock
    <3>3. PICK sized \in InodeRecord : sized = [inode EXCEPT !.size = 1]
      BY <3>2, InodeIs
    <3>4. [sized EXCEPT !.direct = 1] \in InodeRecord
      BY <3>2, InodeIs
    <3>5. [inode EXCEPT !.size = 1, !.direct = 1] = [sized EXCEPT !.direct = 1]
      BY <3>3
    <3> QED
      BY <3>1, <3>4, <3>5
  <2> QED
    BY <2>1, <2>2, EmptyIs
<1>7. ASSUME NEW b \in DiskBlock
      PROVE  Made[Area(b)] \in Content
  <2>1. Area(b) \in Structure /\ Area(b)[1] # "inodes"
    BY StructureIs DEF Area
  <2>2. Made[Area(b)] \in {Names(NoNames), Zeroed}
    BY <2>1, BuffersApart DEF Made
  <2> QED
    BY <2>2, EmptyIs, ContentIs
<1>8. \A x \in Structure : MayHold(x, Made[x])
  <2> TAKE x \in Structure
  <2>1. CASE x = Super
    BY <1>3, <2>1, VersionHeld
  <2>2. CASE x \in {Group, BlockMap, InodeMap}
    BY <1>4, <1>41, <1>5, <2>2, VersionHeld
  <2>3. CASE \E i \in Inode : x = Table(i)
    BY <1>6, <2>3, VersionHeld
  <2>4. CASE \E b \in DiskBlock : x = Area(b)
    BY <1>7, <2>4, VersionHeld
  <2> QED
    BY <2>1, <2>2, <2>3, <2>4 DEF Structure
<1>9. LeftOpen = [Made EXCEPT ![Super] = Bears(super, FALSE)]
  BY <1>3 DEF LeftOpen, Bears
<1>10. DOMAIN LeftOpen = Structure /\ LeftOpen[Super] = Bears(super, FALSE)
       /\ \A x \in Structure \ {Super} : LeftOpen[x] = Made[x]
  BY <1>1, <1>9, StructureIs
<1>12. MayHold(Super, LeftOpen[Super]) /\ ~LeftOpen[Super].valid
  <2>1. Bears(super, FALSE) \in SuperRecord /\ ~Bears(super, FALSE).valid
    BY <1>3, BearsIs
  <2> QED
    BY <1>10, <2>1, VersionHeld
<1> QED
  BY <1>1, <1>8, <1>10, <1>12

(* A step by which each buffer's versions are those it might hold, and one *)
(* of them is what it holds now.                                           *)
LEMMA CacheStands ==
    ASSUME NEW v, NEW w, DOMAIN v = Structure, DOMAIN w = Structure,
           \A x \in Structure : v[x] \in w[x] /\ \A z \in w[x] : MayHold(x, z),
           view' = v, maybe' = w
    PROVE  /\ (DOMAIN view = Structure /\ DOMAIN maybe = Structure)'
           /\ (\A x \in Structure : view[x] \in maybe[x] /\ \A z \in maybe[x] : MayHold(x, z))'
<1>1. /\ DOMAIN view' = Structure /\ DOMAIN maybe' = Structure
      /\ \A x \in Structure : view'[x] \in maybe'[x] /\ \A z \in maybe'[x] : MayHold(x, z)
  OBVIOUS
<1> QED
  BY <1>1

(* The mount, the end of a synchronisation, and the unmount.               *)
LEMMA MountKeeps ==
    ASSUME VolumeAssumption, VolumeInv, Mount
    PROVE  VolumeInv'
<1>1. VolumeTypeOK
  BY DEF VolumeInv
<1>2. nodes' \in [Inode -> InodeRecord]
  <2>1. Root \in Inode
    BY DEF VolumeAssumption, Inode, Root
  <2> QED
    BY <1>1, <2>1, NodeOfIs DEF Mount, VolumeTypeOK
<1>3. files' \in [Descriptor -> 0 .. Inodes] /\ full' \in BOOLEAN
  BY <1>1 DEF Mount, VolumeTypeOK
<1>4. CASE view[Super].valid \/ PersistAdopts
  <2>1. PICK v, w : view' = v /\ maybe' = w /\ HasMounted(v, w) /\ phase' = "mounting"
    BY <1>1, <1>4, MountWrites DEF Mount
  <2>2. view[Super] \in SuperRecord
    BY <1>1, StructureIs, MayHoldIs DEF VolumeTypeOK
  <2>3. MayHold(Super, Bears(view[Super], TRUE)) /\ MayHold(Super, Bears(view[Super], FALSE))
    BY <2>2, BearsIs, VersionHeld
  <2>4. ~v[Super].valid
    BY <2>1, <2>2, BearsIs DEF HasMounted
  <2>5. \A x \in Structure : v[x] \in w[x] /\ \A z \in w[x] : MayHold(x, z)
    <3> TAKE x \in Structure
    <3>1. CASE x = Super
      BY <1>1, <2>1, <2>3, <3>1, StructureIs DEF HasMounted, VolumeTypeOK
    <3>2. CASE x # Super
      BY <1>1, <2>1, <3>2 DEF HasMounted, VolumeTypeOK
    <3> QED
      BY <3>1, <3>2
  <2>6. DOMAIN v = Structure /\ DOMAIN w = Structure
    BY <2>1 DEF HasMounted
  <2>7. VolumeTypeOK'
    BY <1>2, <1>3, <2>1, <2>5, <2>6, CacheStands DEF VolumeTypeOK
  <2>8. Unmarked'
    BY <2>1, <2>4 DEF Unmarked
  <2> QED
    BY <2>7, <2>8 DEF VolumeInv
<1>5. CASE ~(view[Super].valid \/ PersistAdopts)
  <2>1. UNCHANGED <<view, maybe>> /\ phase' = "readonly"
    BY <1>5 DEF Mount
  <2>2. VolumeTypeOK'
    BY <1>1, <1>2, <1>3, <2>1 DEF VolumeTypeOK
  <2> QED
    BY <2>1, <2>2 DEF VolumeInv, Unmarked
<1> QED
  BY <1>4, <1>5

LEMMA SyncDoneKeeps ==
    ASSUME VolumeInv, SyncDone
    PROVE  VolumeInv'
<1>1. VolumeTypeOK
  BY DEF VolumeInv
<1>2. PICK w : maybe' = w /\ DOMAIN w = Structure /\ \A x \in Structure : w[x] = {view[x]}
  BY DEF SyncDone, AllWritten
<1>3. \A x \in Structure : view[x] \in w[x] /\ \A z \in w[x] : MayHold(x, z)
  BY <1>1, <1>2 DEF VolumeTypeOK
<1>4. view' = view /\ DOMAIN view = Structure
  BY <1>1 DEF SyncDone, VolumeTypeOK
<1>5. phase' \in {"on", "off"} /\ (phase' = "on" => phase \in {"mounting", "syncing"})
      /\ UNCHANGED <<nodes, files, full>>
  BY DEF SyncDone
<1>6. VolumeTypeOK'
  BY <1>1, <1>2, <1>3, <1>4, <1>5, CacheStands DEF VolumeTypeOK
<1>7. phase' = "on" => \A z \in maybe'[Super] : ~z.valid
  <2>1. view[Super] \in maybe[Super] /\ maybe'[Super] = {view[Super]}
    BY <1>1, <1>2, StructureIs DEF VolumeTypeOK
  <2> QED
    BY <1>5, <2>1 DEF VolumeInv, Unmarked
<1>8. Unmarked'
  BY <1>5, <1>7 DEF Unmarked
<1> QED
  BY <1>6, <1>8 DEF VolumeInv

LEMMA UnmountKeeps ==
    ASSUME VolumeAssumption, VolumeInv, Unmount \/ UnmountReadOnly
    PROVE  VolumeInv'
<1>1. VolumeTypeOK
  BY DEF VolumeInv
<1>2. nodes' \in [Inode -> InodeRecord] /\ UNCHANGED <<files, full>>
  <2>1. NoInode \in InodeRecord
    BY EmptyIs
  <2> QED
    BY <1>1, <2>1 DEF Unmount, UnmountReadOnly, VolumeTypeOK
<1>3. CASE Unmount
  <2>1. PICK v, w : view' = v /\ maybe' = w /\ HasUnmounted(v, w) /\ phase' = "releasing"
    BY <1>1, <1>3, UnmountWrites DEF Unmount, WrittenFirst
  <2>2. view[Super] \in SuperRecord
    BY <1>1, StructureIs, MayHoldIs DEF VolumeTypeOK
  <2>3. MayHold(Super, Bears(view[Super], TRUE)) /\ MayHold(Super, view[Super])
    BY <2>2, BearsIs, VersionHeld
  <2>4. \A x \in Structure : v[x] \in w[x] /\ \A z \in w[x] : MayHold(x, z)
    <3> TAKE x \in Structure
    <3>1. CASE x = Super
      BY <2>1, <2>3, <3>1 DEF HasUnmounted
    <3>2. CASE x # Super
      BY <1>1, <2>1, <3>2 DEF HasUnmounted, VolumeTypeOK
    <3> QED
      BY <3>1, <3>2
  <2>5. DOMAIN v = Structure /\ DOMAIN w = Structure
    BY <2>1 DEF HasUnmounted
  <2>6. VolumeTypeOK'
    BY <1>1, <1>2, <2>1, <2>4, <2>5, CacheStands DEF VolumeTypeOK
  <2> QED
    BY <2>1, <2>6 DEF VolumeInv, Unmarked
<1>4. CASE UnmountReadOnly
  <2>1. UNCHANGED <<view, maybe>> /\ phase' = "off"
    BY <1>4 DEF UnmountReadOnly
  <2>2. VolumeTypeOK'
    BY <1>1, <1>2, <2>1 DEF VolumeTypeOK
  <2> QED
    BY <2>1, <2>2 DEF VolumeInv, Unmarked
<1> QED
  BY <1>3, <1>4

(* The machine stops.                                                      *)
LEMMA StopKeeps ==
    ASSUME VolumeAssumption, VolumeInv, Stop
    PROVE  VolumeInv'
<1>1. VolumeTypeOK
  BY DEF VolumeInv
<1>2. NoInode \in InodeRecord /\ 0 \in 0 .. Inodes
  BY EmptyIs DEF VolumeAssumption
<1>3. /\ nodes' \in [Inode -> InodeRecord] /\ files' \in [Descriptor -> 0 .. Inodes]
      /\ full' \in BOOLEAN /\ phase' = "stopped"
  BY <1>1, <1>2 DEF Stop, VolumeTypeOK
<1>4. PICK v, w : /\ view' = v /\ maybe' = w /\ DOMAIN v = Structure /\ DOMAIN w = Structure
                  /\ \A x \in Structure : v[x] \in w[x] /\ \A z \in w[x] : MayHold(x, z)
  <2>1. PICK s \in maybe[Super] :
           \/ view' = [view EXCEPT ![Super] = s] /\ maybe' = [maybe EXCEPT ![Super] = {s}]
           \/ view' = LeftOpen /\ maybe' = [x \in Structure |-> {LeftOpen[x]}]
    BY DEF Stop
  <2>2. CASE view' = [view EXCEPT ![Super] = s] /\ maybe' = [maybe EXCEPT ![Super] = {s}]
    <3>1. PICK v, w : v = [view EXCEPT ![Super] = s] /\ w = [maybe EXCEPT ![Super] = {s}]
      OBVIOUS
    <3>2. MayHold(Super, s)
      BY <1>1, StructureIs DEF VolumeTypeOK
    <3>3. \A x \in Structure : /\ v[x] = IF x = Super THEN s ELSE view[x]
                               /\ w[x] = IF x = Super THEN {s} ELSE maybe[x]
      BY <1>1, <3>1 DEF VolumeTypeOK
    <3>4. \A x \in Structure : v[x] \in w[x] /\ \A z \in w[x] : MayHold(x, z)
      BY <1>1, <3>2, <3>3 DEF VolumeTypeOK
    <3>5. DOMAIN v = Structure /\ DOMAIN w = Structure
      BY <1>1, <3>1 DEF VolumeTypeOK
    <3> QED
      BY <2>2, <3>1, <3>4, <3>5
  <2>3. CASE view' = LeftOpen /\ maybe' = [x \in Structure |-> {LeftOpen[x]}]
    <3>1. PICK w : w = [x \in Structure |-> {LeftOpen[x]}]
      OBVIOUS
    <3>2. DOMAIN w = Structure /\ \A x \in Structure : w[x] = {LeftOpen[x]}
      BY <3>1
    <3>3. \A x \in Structure : LeftOpen[x] \in w[x] /\ \A z \in w[x] : MayHold(x, z)
      BY <3>2, MadeIs
    <3> QED
      BY <2>3, <3>1, <3>2, <3>3, MadeIs
  <2> QED
    BY <2>1, <2>2, <2>3
<1>5. VolumeTypeOK'
  BY <1>3, <1>4, CacheStands DEF VolumeTypeOK
<1> QED
  BY <1>3, <1>5 DEF VolumeInv, Unmarked

(* A version of one buffer is found on the medium.                         *)
LEMMA SettleKeeps ==
    ASSUME VolumeInv, Settle
    PROVE  VolumeInv'
<1>1. VolumeTypeOK
  BY DEF VolumeInv
<1>2. UNCHANGED <<nodes, files, full>> /\ phase = "stopped"
  BY DEF Settle
<1>3. CASE Unsettled = {}
  <2>1. UNCHANGED <<view, maybe>> /\ phase' = "off"
    BY <1>3 DEF Settle
  <2>2. VolumeTypeOK'
    BY <1>1, <1>2, <2>1 DEF VolumeTypeOK
  <2> QED
    BY <2>1, <2>2 DEF VolumeInv, Unmarked
<1>4. CASE Unsettled # {}
  <2>1. PICK x : x = (CHOOSE y \in Unsettled : TRUE) /\ x \in Unsettled
    BY <1>4
  <2>2. x \in Structure
    BY <2>1 DEF Unsettled
  <2>3. PICK version \in maybe[x] :
           view' = [view EXCEPT ![x] = version] /\ maybe' = [maybe EXCEPT ![x] = {version}] /\ UNCHANGED phase
    BY <1>4, <2>1 DEF Settle
  <2>4. PICK v, w : v = [view EXCEPT ![x] = version] /\ w = [maybe EXCEPT ![x] = {version}]
    OBVIOUS
  <2>5. \A y \in Structure : /\ v[y] = IF y = x THEN version ELSE view[y]
                             /\ w[y] = IF y = x THEN {version} ELSE maybe[y]
    BY <1>1, <2>4 DEF VolumeTypeOK
  <2>6. \A y \in Structure : v[y] \in w[y] /\ \A z \in w[y] : MayHold(y, z)
    BY <1>1, <2>2, <2>3, <2>5 DEF VolumeTypeOK
  <2>7. DOMAIN v = Structure /\ DOMAIN w = Structure
    BY <1>1, <2>4 DEF VolumeTypeOK
  <2>8. VolumeTypeOK'
    BY <1>1, <1>2, <2>3, <2>4, <2>6, <2>7, CacheStands DEF VolumeTypeOK
  <2> QED
    BY <1>2, <2>3, <2>8 DEF VolumeInv, Unmarked
<1> QED
  BY <1>3, <1>4

(* Two volumes that differ in the superblock alone, and in it not in what  *)
(* the two counts say.                                                     *)
Agree(u, v) == \A x \in Structure \ {Super} : u[x] = v[x]
SameCounts(a, b) == a.freeBlocks = b.freeBlocks /\ a.freeInodes = b.freeInodes

(* The invariant holds of a volume newly made, and every step keeps it.    *)
LEMMA VolumeStarts ==
    ASSUME VolumeAssumption, VolumeInit
    PROVE  VolumeInv
<1>1. NoInode \in InodeRecord /\ 0 \in 0 .. Inodes
  BY EmptyIs DEF VolumeAssumption
<1>2. view = Made /\ DOMAIN view = Structure /\ \A x \in Structure : MayHold(x, view[x])
  BY MadeIs DEF VolumeInit
<1>3. DOMAIN maybe = Structure /\ \A x \in Structure : maybe[x] = {view[x]}
  BY DEF VolumeInit
<1>4. nodes \in [Inode -> InodeRecord] /\ files \in [Descriptor -> 0 .. Inodes]
  BY <1>1 DEF VolumeInit
<1>5. phase = "off" /\ full = FALSE
  BY DEF VolumeInit
<1> QED
  BY <1>2, <1>3, <1>4, <1>5 DEF VolumeInv, VolumeTypeOK, Unmarked

LEMMA VolumeStepKeeps ==
    ASSUME VolumeAssumption, VolumeInv, [VolumeNext]_volumeVars
    PROVE  VolumeInv'
<1>1. CASE UNCHANGED volumeVars
  BY <1>1 DEF volumeVars, VolumeInv, VolumeTypeOK, Unmarked
<1>2. ASSUME NEW dir \in Inode, NEW n \in Name, Mkdir(dir, n)
      PROVE  VolumeInv'
  BY <1>2, MkdirKeeps
<1>3. ASSUME NEW dir \in Inode, NEW n \in Name, Rmdir(dir, n)
      PROVE  VolumeInv'
  BY <1>3, RmdirKeeps
<1>4. ASSUME NEW dir \in Inode, NEW n \in Name, Unlink(dir, n)
      PROVE  VolumeInv'
  BY <1>4, UnlinkKeeps
<1>5. ASSUME NEW i \in Inode, NEW dir \in Inode, NEW n \in Name, Link(i, dir, n)
      PROVE  VolumeInv'
  BY <1>5, LinkKeeps
<1>6. ASSUME NEW d \in Descriptor, NEW dir \in Inode, NEW n \in Name, OpenNew(d, dir, n)
      PROVE  VolumeInv'
  BY <1>6, OpenNewKeeps
<1>7. ASSUME NEW d \in Descriptor, NEW dir \in Inode, NEW n \in Name, NEW truncate \in BOOLEAN,
             Open(d, dir, n, truncate)
      PROVE  VolumeInv'
  BY <1>7, OpenKeeps
<1>8. ASSUME NEW d \in Descriptor, NEW index \in 0 .. PerTable, NEW count \in 1 .. 2, Write(d, index, count)
      PROVE  VolumeInv'
  BY <1>8, WriteKeeps
<1>9. ASSUME NEW d \in Descriptor, Close(d)
      PROVE  VolumeInv'
  BY <1>9, CloseKeeps
<1>10. CASE Mount
  BY <1>10, MountKeeps
<1>11. CASE SyncDone
  BY <1>11, SyncDoneKeeps
<1>12. CASE Unmount \/ UnmountReadOnly
  BY <1>12, UnmountKeeps
<1>13. CASE Stop
  BY <1>13, StopKeeps
<1>14. CASE Settle
  BY <1>14, SettleKeeps
<1> QED
  BY <1>1, <1>2, <1>3, <1>4, <1>5, <1>6, <1>7, <1>8, <1>9, <1>10, <1>11, <1>12, <1>13, <1>14
  DEF VolumeNext

(* Every version of every buffer of the volume, the one that is read and   *)
(* those the medium may hold, is one that buffer may hold, whatever calls, *)
(* refusals and stops went before: pointers lead to blocks of the volume,  *)
(* names to inodes or nowhere.                                             *)
THEOREM VolumeTypeCorrect == VolumeSpec => []VolumeTypeOK
<1>1. VolumeInit => VolumeInv
  BY VolumeAssumption, VolumeStarts
<1>2. VolumeInv /\ [VolumeNext]_volumeVars => VolumeInv'
  BY VolumeAssumption, VolumeStepKeeps
<1>3. VolumeInv => VolumeTypeOK
  BY DEF VolumeInv
<1> QED
  BY <1>1, <1>2, <1>3, PTL DEF VolumeSpec

-----------------------------------------------------------------------------
(* The mark of a clean unmount.  Away from calls and synchronisations      *)
(* every buffer but the superblock's is on the medium as it is read; and   *)
(* of the superblock only the mark may be in doubt, while a mount or an    *)
(* unmount has not come to its end.                                        *)
Clean == \A x \in Structure \ {Super} : maybe[x] = {view[x]}
MarkKnown ==
    /\ phase \in {"off", "readonly", "stopped"} => maybe[Super] = {view[Super]}
    /\ phase \in {"mounting", "releasing"} => \A z \in maybe[Super] : SameCounts(z, view[Super])
    /\ phase = "readonly" => ~view[Super].valid
CleanInv ==
    /\ VolumeInv
    /\ phase \notin {"on", "syncing"} => Clean
    /\ MarkKnown

(* A call ends with the volume mounted still.                              *)
LEMMA CallsStayMounted ==
    ASSUME VolumeNext, ~Mount, ~SyncDone, ~Unmount, ~UnmountReadOnly, ~Stop, ~Settle
    PROVE  phase' \in {"on", "syncing"}
<1>1. ASSUME NEW dir \in Inode, NEW n \in Name,
              \/ Mkdir(dir, n) \/ Rmdir(dir, n) \/ Unlink(dir, n)
              \/ \E i \in Inode : Link(i, dir, n)
              \/ \E d \in Descriptor : OpenNew(d, dir, n)
              \/ \E d \in Descriptor, truncate \in BOOLEAN : Open(d, dir, n, truncate)
       PROVE  phase' \in {"on", "syncing"}
  <2>1. CASE Mkdir(dir, n) \/ Rmdir(dir, n) \/ Unlink(dir, n) \/ \E i \in Inode : Link(i, dir, n)
    BY <2>1, AfterNamesIs DEF Mkdir, Rmdir, Unlink, Link
  <2>2. CASE \/ \E d \in Descriptor : OpenNew(d, dir, n)
             \/ \E d \in Descriptor, truncate \in BOOLEAN : Open(d, dir, n, truncate)
    BY <2>2 DEF OpenNew, Open
  <2> QED
    BY <1>1, <2>1, <2>2
<1>2. ASSUME NEW d \in Descriptor,
              Close(d) \/ \E index \in 0 .. PerTable, count \in 1 .. 2 : Write(d, index, count)
       PROVE  phase' \in {"on", "syncing"}
  BY <1>2 DEF Write, Close, AfterClose
<1> QED
  BY <1>1, <1>2 DEF VolumeNext

(* No step leaves a buffer in doubt beneath a mark.                        *)
LEMMA CleanSteps ==
    ASSUME VolumeAssumption, PersistAdopts = FALSE, CleanInv, [VolumeNext]_volumeVars
    PROVE  CleanInv'
<1>1. VolumeInv' /\ VolumeTypeOK
  BY VolumeStepKeeps DEF CleanInv, VolumeInv
<1>2. CASE UNCHANGED volumeVars
  BY <1>1, <1>2 DEF volumeVars, CleanInv, Clean, MarkKnown
<1>3. CASE phase' \in {"on", "syncing"}
  BY <1>1, <1>3 DEF CleanInv, MarkKnown
<1>4. CASE Mount
  <2>1. phase = "off" /\ Clean /\ maybe[Super] = {view[Super]}
    BY <1>4 DEF Mount, CleanInv, MarkKnown
  <2>2. CASE view[Super].valid
    <3>1. PICK v, w : view' = v /\ maybe' = w /\ HasMounted(v, w) /\ phase' = "mounting"
      BY <1>1, <1>4, <2>2, MountWrites DEF Mount
    <3>2. view[Super] \in SuperRecord
      BY <1>1, StructureIs, MayHoldIs DEF VolumeTypeOK
    <3>3. \A z \in {view[Super], Bears(view[Super], TRUE), Bears(view[Super], FALSE)} :
             SameCounts(z, Bears(view[Super], FALSE))
      <4>1. SameCounts(view[Super], Bears(view[Super], FALSE))
        BY <3>2, BearsIs DEF SameCounts
      <4>2. SameCounts(Bears(view[Super], TRUE), view[Super])
        BY <3>2, BearsIs DEF SameCounts
      <4> QED
        BY <4>1, <4>2 DEF SameCounts
    <3>4. v[Super] = Bears(view[Super], FALSE)
          /\ w[Super] = {view[Super], Bears(view[Super], TRUE), Bears(view[Super], FALSE)}
      BY <2>1, <3>1 DEF HasMounted
    <3>5. \A x \in Structure \ {Super} : w[x] = {v[x]}
      BY <2>1, <3>1 DEF HasMounted, Clean
    <3> QED
      BY <1>1, <3>1, <3>3, <3>4, <3>5 DEF CleanInv, Clean, MarkKnown
  <2>3. CASE ~view[Super].valid
    BY <1>1, <1>4, <2>1, <2>3 DEF Mount, CleanInv, Clean, MarkKnown
  <2> QED
    BY <2>2, <2>3
<1>5. CASE SyncDone
  <2>1. view' = view /\ maybe' = AllWritten /\ phase' \in {"on", "off"}
    BY <1>5 DEF SyncDone
  <2>2. \A x \in Structure : maybe'[x] = {view'[x]}
    BY <2>1 DEF AllWritten
  <2> QED
    BY <1>1, <2>1, <2>2, StructureIs DEF CleanInv, Clean, MarkKnown
<1>6. CASE Unmount
  <2>1. PICK v, w : view' = v /\ maybe' = w /\ HasUnmounted(v, w) /\ phase' = "releasing"
    BY <1>1, <1>6, UnmountWrites DEF Unmount, WrittenFirst
  <2>2. view[Super] \in SuperRecord
    BY <1>1, StructureIs, MayHoldIs DEF VolumeTypeOK
  <2>3. \A z \in {view[Super], Bears(view[Super], TRUE)} : SameCounts(z, Bears(view[Super], TRUE))
    <3>1. SameCounts(view[Super], Bears(view[Super], TRUE))
      BY <2>2, BearsIs DEF SameCounts
    <3> QED
      BY <3>1 DEF SameCounts
  <2>4. v[Super] = Bears(view[Super], TRUE) /\ w[Super] = {view[Super], Bears(view[Super], TRUE)}
    BY <2>1 DEF HasUnmounted
  <2>5. \A x \in Structure \ {Super} : w[x] = {v[x]}
    BY <2>1 DEF HasUnmounted
  <2> QED
    BY <1>1, <2>1, <2>3, <2>4, <2>5 DEF CleanInv, Clean, MarkKnown
<1>7. CASE UnmountReadOnly
  BY <1>1, <1>7 DEF UnmountReadOnly, CleanInv, Clean, MarkKnown
<1>8. CASE Stop
  <2>1. phase' = "stopped"
    BY <1>8 DEF Stop
  <2>2. PICK s \in maybe[Super] :
           IF s.valid THEN view' = [view EXCEPT ![Super] = s] /\ maybe' = [maybe EXCEPT ![Super] = {s}]
                      ELSE view' = LeftOpen /\ maybe' = [x \in Structure |-> {LeftOpen[x]}]
    BY <1>8 DEF Stop
  <2>3. \A x \in Structure : maybe'[x] = {view'[x]}
    <3>1. CASE s.valid
      <4>1. phase \notin {"on", "syncing"}
        BY <3>1 DEF CleanInv, VolumeInv, Unmarked
      <4>2. \A x \in Structure : /\ view'[x] = IF x = Super THEN s ELSE view[x]
                                 /\ maybe'[x] = IF x = Super THEN {s} ELSE maybe[x]
        BY <1>1, <2>2, <3>1 DEF VolumeTypeOK
      <4> QED
        BY <4>1, <4>2 DEF CleanInv, Clean
    <3>2. CASE ~s.valid
      BY <2>2, <3>2
    <3> QED
      BY <3>1, <3>2
  <2> QED
    BY <1>1, <2>1, <2>3, StructureIs DEF CleanInv, Clean, MarkKnown
<1>9. CASE Settle
  <2>1. phase = "stopped" /\ \A x \in Structure : maybe[x] = {view[x]}
    BY <1>9 DEF Settle, CleanInv, Clean, MarkKnown
  <2>2. Unsettled = {}
    <3>1. \A z : Cardinality({z}) = 1
      BY FS_Singleton
    <3>2. \A x \in Structure : ~(Cardinality(maybe[x]) > 1)
      <4> TAKE x \in Structure
      <4>1. Cardinality(maybe[x]) = 1
        BY <2>1, <3>1
      <4> QED
        BY <4>1
    <3> QED
      BY <3>2 DEF Unsettled
  <2>3. UNCHANGED <<view, maybe>> /\ phase' = "off"
    BY <1>9, <2>2 DEF Settle
  <2> QED
    BY <1>1, <2>1, <2>3, StructureIs DEF CleanInv, Clean, MarkKnown
<1> QED
  BY <1>2, <1>3, <1>4, <1>5, <1>6, <1>7, <1>8, <1>9, CallsStayMounted DEF VolumeNext

LEMMA CleanStarts ==
    ASSUME VolumeAssumption, VolumeInit
    PROVE  CleanInv
<1>1. \A x \in Structure : maybe[x] = {view[x]}
  BY DEF VolumeInit
<1>2. phase = "off"
  BY DEF VolumeInit
<1> QED
  BY <1>1, <1>2, VolumeStarts, StructureIs DEF CleanInv, Clean, MarkKnown

(* Whenever the medium may bear the mark of a clean unmount, every other   *)
(* buffer is on it as the kernel reads it: Ext2VfsUnmount writes the mark  *)
(* after the rest, and Ext2VfsMount takes it away before anything else is  *)
(* written.  So what a crash finds marked is what the kernel last read.    *)
MarkedIsSettled == (\E z \in maybe[Super] : z.valid) => Clean
THEOREM MarkedMediumIsSettled ==
    ASSUME PersistAdopts = FALSE
    PROVE  VolumeSpec => []MarkedIsSettled
<1>1. VolumeInit => CleanInv
  BY VolumeAssumption, CleanStarts
<1>2. CleanInv /\ [VolumeNext]_volumeVars => CleanInv'
  BY VolumeAssumption, CleanSteps
<1>3. CleanInv => MarkedIsSettled
  BY DEF CleanInv, VolumeInv, Unmarked, MarkedIsSettled
<1> QED
  BY <1>1, <1>2, <1>3, PTL DEF VolumeSpec

(* A volume newly made is sound.                                           *)
LEMMA MadeIsSound ==
    ASSUME VolumeAssumption
    PROVE  Sound(Made)
<1>1. PerTable \in Nat \ {0} /\ Root = 1 /\ Root \in Inode /\ 1 \in DiskBlock
  BY DEF VolumeAssumption, Inode, DiskBlock, Root
<1>2. \A x \in {Super, Group, BlockMap, InodeMap} : x \in Structure /\ x[1] # "inodes" /\ x # Area(1)
  BY StructureIs, BuffersApart DEF Super, Group, BlockMap, InodeMap
<1>3. /\ Made[Super] = [valid |-> TRUE, freeBlocks |-> DiskBlocks - 1, freeInodes |-> Inodes - 1]
      /\ Made[Group] = [freeBlocks |-> DiskBlocks - 1, freeInodes |-> Inodes - 1, directories |-> 1]
      /\ Made[BlockMap] = {1} /\ Made[InodeMap] = {Root}
  <2>1. Made[Super] = [valid |-> TRUE, freeBlocks |-> DiskBlocks - 1, freeInodes |-> Inodes - 1]
    BY <1>2, BuffersApart DEF Made
  <2>2. Made[Group] = [freeBlocks |-> DiskBlocks - 1, freeInodes |-> Inodes - 1, directories |-> 1]
    BY <1>2, BuffersApart DEF Made
  <2>3. Made[BlockMap] = {1}
    BY <1>2, BuffersApart DEF Made
  <2>4. Made[InodeMap] = {Root}
    BY <1>2, BuffersApart DEF Made
  <2> QED
    BY <2>1, <2>2, <2>3, <2>4
<1>4. PICK root : /\ root = InodeIn(Made, Root)
                  /\ root = [kind |-> "dir", links |-> 2, size |-> 1, direct |-> 1, table |-> 0]
  <2>1. Table(Root) \in Structure /\ Table(Root)[1] = "inodes"
    BY <1>1, StructureIs DEF Table
  <2>2. Made[Table(Root)] = [j \in {j \in Inode : Table(j) = Table(Root)} |->
                               IF j = Root THEN [NewInode("dir", 2) EXCEPT !.size = 1, !.direct = 1] ELSE NoInode]
    BY <2>1, BuffersApart DEF Made
  <2>3. InodeIn(Made, Root) = [NewInode("dir", 2) EXCEPT !.size = 1, !.direct = 1]
    BY <1>1, <2>2 DEF InodeIn
  <2> QED
    BY <2>3 DEF NewInode
<1>5. Made[Area(1)] = Names(NoNames)
  <2>1. Area(1) \in Structure /\ Area(1)[1] # "inodes"
    BY <1>1, StructureIs DEF Area
  <2> QED
    BY <2>1, BuffersApart DEF Made
<1>6. Directories(Made) = {Root}
  <2>1. InodeIn(Made, Root).kind = "dir"
    BY <1>4
  <2> QED
    BY <1>3, <2>1 DEF Directories
<1>7. \A n \in Name : Lookup(Made, root, n) = 0
  <2> TAKE n \in Name
  <2>1. \A k \in 0 .. root.size - 1 : k = 0
    BY <1>4
  <2>2. BlockAt(Made, root, 0) = 1
    BY <1>4 DEF BlockAt
  <2>3. EntriesAt(Made, root, 0).names[n] = 0
    BY <1>5, <2>2 DEF EntriesAt, Names, NoNames
  <2>4. {k \in 0 .. root.size - 1 : IsNames(Made, root, k) /\ EntriesAt(Made, root, k).names[n] # 0} = {}
    BY <2>1, <2>3
  <2> QED
    BY <2>4 DEF Lookup
<1>71. \A dir \in Directories(Made), n \in Name : dir = Root /\ Lookup(Made, InodeIn(Made, dir), n) = 0
  <2>1. \A n \in Name : Lookup(Made, InodeIn(Made, Root), n) = 0
    BY <1>4, <1>7
  <2> QED
    BY <1>6, <2>1
<1>8. Named(Made) = {} /\ InUse(Made) = {Root}
  BY <1>71 DEF Named, InUse
<1>9. \A e \in NamesOf(Made) : e[3] = 0
  BY <1>71 DEF NamesOf
<1>10. Reach(Made, Root) = {<<0, 1>>}
  BY <1>4 DEF Reach
<1>11. NamesLeadToFiles(Made)
  BY <1>8 DEF NamesLeadToFiles
<1>12. LinksAreNames(Made)
  <2>1. {e \in NamesOf(Made) : e[1] = Root /\ e[3] \in Directories(Made)} = {}
    <3>1. 0 # Root
      BY <1>1
    <3> QED
      BY <1>6, <1>9, <3>1
  <2>2. Cardinality({}) = 0
    BY FS_EmptySet
  <2>3. InodeIn(Made, Root).links = 2
    BY <1>4
  <2> QED
    <3>1. 2 + Cardinality({e \in NamesOf(Made) : e[1] = Root /\ e[3] \in Directories(Made)}) = 2
      BY <2>1, <2>2
    <3>2. Root \in Directories(Made) /\ \A i \in InUse(Made) : i = Root
      BY <1>6, <1>8
    <3> QED
      BY <2>3, <3>1, <3>2 DEF LinksAreNames
<1>13. BlocksAreUsed(Made)
  BY <1>3, <1>8, <1>10 DEF BlocksAreUsed
<1>14. BlocksAreOwnedOnce(Made)
  <2>1. UNION {{<<i, p[1], p[2]>> : p \in Reach(Made, i)} : i \in InUse(Made)} = {<<Root, 0, 1>>}
    <3>1. {<<Root, p[1], p[2]>> : p \in Reach(Made, Root)} = {<<Root, 0, 1>>}
      BY <1>10
    <3>2. {{<<i, p[1], p[2]>> : p \in Reach(Made, i)} : i \in InUse(Made)}
            = {{<<Root, p[1], p[2]>> : p \in Reach(Made, Root)}}
      BY <1>8
    <3> QED
      BY <3>1, <3>2
  <2> QED
    BY <2>1 DEF BlocksAreOwnedOnce
<1>15. CountsAreRight(Made)
  <2>1. Cardinality({1}) = 1 /\ Cardinality({Root}) = 1
    BY FS_Singleton
  <2> QED
    BY <1>3, <2>1 DEF CountsAreRight
<1> QED
  BY <1>11, <1>12, <1>13, <1>14, <1>15 DEF Sound
-----------------------------------------------------------------------------
(***************************************************************************)
(* Names and the counts of links.                                          *)
(***************************************************************************)

(* The names T of the inodes A in use, of which D are directories, and the *)
(* counts L of their links.  A name is of a directory and leads to an      *)
(* inode, one at most to a directory and none to the root.                 *)
Reached(T) == {Root} \cup {t[3] : t \in T}
NamesWithin(T, A, D) == \A t \in T : t[1] \in D /\ t[2] \in Name /\ t[3] \in A /\ t = <<t[1], t[2], t[3]>>
ChildDirectories(T, D, i) == {t \in T : t[1] = i /\ t[3] \in D}
NamesFor(T, i) == {t \in T : t[3] = i}
NamesStand(T, A, D) ==
    /\ A \subseteq Inode /\ D \subseteq A /\ Root \in D
    /\ NamesWithin(T, A, D)
    /\ \A t, u \in T : t[1] = u[1] /\ t[2] = u[2] => t = u
    /\ \A t, u \in T : t[3] = u[3] /\ t[3] \in D => t = u
    /\ \A t \in T : t[3] # Root
LinksStand(T, D, L) ==
    \A i \in Reached(T) : L[i] = IF i \in D THEN 2 + Cardinality(ChildDirectories(T, D, i))
                                ELSE Cardinality(NamesFor(T, i))

(* There are finitely many.                                                *)
LEMMA NamesFinite ==
    ASSUME VolumeAssumption, NEW T, NEW A, NEW D, NamesStand(T, A, D)
    PROVE  /\ IsFiniteSet(T)
           /\ \A i : IsFiniteSet(NamesFor(T, i)) /\ IsFiniteSet(ChildDirectories(T, D, i))
<1>1. IsFiniteSet(D \X Name)
  <2>1. IsFiniteSet(Inode)
    BY FS_Interval DEF Inode, VolumeAssumption
  <2>2. IsFiniteSet(D)
    BY <2>1, FS_Subset DEF NamesStand
  <2> QED
    BY <2>2, FS_Product DEF VolumeAssumption
<1>2. IsFiniteSet(T)
  <2>1. PICK f : f = [t \in T |-> <<t[1], t[2]>>]
    OBVIOUS
  <2>2. f \in [T -> D \X Name]
    BY <2>1 DEF NamesStand, NamesWithin
  <2>3. \A t, u \in T : f[t] = f[u] => t = u
    BY <2>1 DEF NamesStand
  <2>4. f \in Injection(T, D \X Name)
    BY <2>2, <2>3 DEF Injection, IsInjective
  <2> QED
    BY <1>1, <2>4, FS_Injection
<1>3. \A i : NamesFor(T, i) \in SUBSET T /\ ChildDirectories(T, D, i) \in SUBSET T
  BY DEF NamesFor, ChildDirectories
<1> QED
  BY <1>2, <1>3, FS_Subset

(* A name more, or less, in the sets that are counted.                     *)
NameMore(T, U, D, dir, n, i) ==
    /\ Reached(U) = Reached(T) \cup {i}
    /\ NamesFor(U, i) = NamesFor(T, i) \cup {<<dir, n, i>>}
    /\ \A j : j # i => NamesFor(U, j) = NamesFor(T, j)
    /\ i \notin D => \A j : ChildDirectories(U, D, j) = ChildDirectories(T, D, j)
    /\ i \in D => ChildDirectories(U, D, dir) = ChildDirectories(T, D, dir) \cup {<<dir, n, i>>}
    /\ \A j : j # dir => ChildDirectories(U, D, j) = ChildDirectories(T, D, j)
NameLess(T, U, D, dir, n, i) ==
    /\ Reached(T) = Reached(U) \cup {i}
    /\ NamesFor(U, i) = NamesFor(T, i) \ {<<dir, n, i>>}
    /\ \A j : j # i => NamesFor(U, j) = NamesFor(T, j)
    /\ i \notin D => \A j : ChildDirectories(U, D, j) = ChildDirectories(T, D, j)
    /\ i \in D => ChildDirectories(U, D, dir) = ChildDirectories(T, D, dir) \ {<<dir, n, i>>}
    /\ \A j : j # dir => ChildDirectories(U, D, j) = ChildDirectories(T, D, j)
LEMMA NamesWith ==
    ASSUME NEW T, NEW D, NEW dir, NEW n, NEW i, NEW U, U = T \cup {<<dir, n, i>>}
    PROVE  NameMore(T, U, D, dir, n, i)
<1>1. \A t : t \in U <=> t \in T \/ t = <<dir, n, i>>
  OBVIOUS
<1>2. <<dir, n, i>>[1] = dir /\ <<dir, n, i>>[3] = i
  OBVIOUS
<1>3. Reached(U) = Reached(T) \cup {i}
  BY <1>1, <1>2 DEF Reached
<1>4. NamesFor(U, i) = NamesFor(T, i) \cup {<<dir, n, i>>} /\ \A j : j # i => NamesFor(U, j) = NamesFor(T, j)
  BY <1>1, <1>2 DEF NamesFor
<1>5. /\ i \notin D => \A j : ChildDirectories(U, D, j) = ChildDirectories(T, D, j)
      /\ i \in D => ChildDirectories(U, D, dir) = ChildDirectories(T, D, dir) \cup {<<dir, n, i>>}
      /\ \A j : j # dir => ChildDirectories(U, D, j) = ChildDirectories(T, D, j)
  BY <1>1, <1>2 DEF ChildDirectories
<1> QED
  BY <1>3, <1>4, <1>5 DEF NameMore

LEMMA NamesWithout ==
    ASSUME NEW T, NEW D, NEW dir, NEW n, NEW i, <<dir, n, i>> \in T, NEW U, U = T \ {<<dir, n, i>>}
    PROVE  NameLess(T, U, D, dir, n, i)
<1>1. \A t : t \in U <=> t \in T /\ t # <<dir, n, i>>
  OBVIOUS
<1>2. <<dir, n, i>>[1] = dir /\ <<dir, n, i>>[3] = i
  OBVIOUS
<1>3. Reached(T) = Reached(U) \cup {i}
  BY <1>1, <1>2 DEF Reached
<1>4. NamesFor(U, i) = NamesFor(T, i) \ {<<dir, n, i>>} /\ \A j : j # i => NamesFor(U, j) = NamesFor(T, j)
  BY <1>1, <1>2 DEF NamesFor
<1>5. /\ i \notin D => \A j : ChildDirectories(U, D, j) = ChildDirectories(T, D, j)
      /\ i \in D => ChildDirectories(U, D, dir) = ChildDirectories(T, D, dir) \ {<<dir, n, i>>}
      /\ \A j : j # dir => ChildDirectories(U, D, j) = ChildDirectories(T, D, j)
  BY <1>1, <1>2 DEF ChildDirectories
<1> QED
  BY <1>3, <1>4, <1>5 DEF NameLess

(* An element less is one less.                                            *)
LEMMA OneFewer ==
    ASSUME NEW S, IsFiniteSet(S), NEW x \in S
    PROVE  IsFiniteSet(S \ {x}) /\ Cardinality(S \ {x}) = Cardinality(S) - 1
  BY FS_RemoveElement

(* Nothing is in use that no name leads to, if so it was.                  *)
StillReached(T, A, U, B) == A = Reached(T) => B = Reached(U)

(* A file made and named, or given a name more.                            *)
NamesAnother(T, D, dir, n, i, U) ==
    dir \in D /\ n \in Name /\ (\A t \in T : ~(t[1] = dir /\ t[2] = n)) /\ U = T \cup {<<dir, n, i>>}
NamesAFile(T, A, D, L, dir, n, i, K, U) ==
    /\ NamesAnother(T, D, dir, n, i, U)
    /\ i \in Inode \ D /\ (i \in A => i \in Reached(T))
    /\ \A j \in Reached(T) \ {i} : K[j] = L[j]
    /\ K[i] = IF i \in A THEN L[i] + 1 ELSE 1
LEMMA FileNamed ==
    ASSUME VolumeAssumption, NEW T, NEW A, NEW D, NEW L, NamesStand(T, A, D), LinksStand(T, D, L),
           NEW dir, NEW n, NEW i, NEW K, NEW U, NamesAFile(T, A, D, L, dir, n, i, K, U)
    PROVE  /\ NamesStand(U, A \cup {i}, D) /\ LinksStand(U, D, K)
           /\ StillReached(T, A, U, A \cup {i})
<1> SUFFICES ASSUME dir \in D, n \in Name, \A t \in T : ~(t[1] = dir /\ t[2] = n),
                    i \in Inode \ D, i \in A => i \in Reached(T),
                    \A j \in Reached(T) \ {i} : K[j] = L[j], K[i] = IF i \in A THEN L[i] + 1 ELSE 1,
                    U = T \cup {<<dir, n, i>>}
             PROVE  /\ NamesStand(U, A \cup {i}, D) /\ LinksStand(U, D, K)
                    /\ A = Reached(T) => A \cup {i} = Reached(U)
  BY DEF NamesAFile, NamesAnother, StillReached
<1>1. \A t : t \in U <=> t \in T \/ t = <<dir, n, i>>
  OBVIOUS
<1>2. <<dir, n, i>>[1] = dir /\ <<dir, n, i>>[2] = n /\ <<dir, n, i>>[3] = i
  OBVIOUS
<1>3. i # Root
  BY DEF NamesStand
<1> NameMore(T, U, D, dir, n, i)
  BY NamesWith
<1>4. /\ Reached(U) = Reached(T) \cup {i} /\ NamesFor(U, i) = NamesFor(T, i) \cup {<<dir, n, i>>}
      /\ \A j : j # i => NamesFor(U, j) = NamesFor(T, j)
  BY DEF NameMore
<1>5. \A j : ChildDirectories(U, D, j) = ChildDirectories(T, D, j)
  BY DEF NameMore
<1>6. NamesStand(U, A \cup {i}, D)
  <2>1. NamesWithin(U, A \cup {i}, D)
    BY <1>1, <1>2 DEF NamesStand, NamesWithin
  <2>2. \A t, u \in U : t[1] = u[1] /\ t[2] = u[2] => t = u
    BY <1>1, <1>2 DEF NamesStand
  <2>3. \A t, u \in U : t[3] = u[3] /\ t[3] \in D => t = u
    BY <1>1, <1>2 DEF NamesStand
  <2>4. \A t \in U : t[3] # Root
    BY <1>1, <1>2, <1>3 DEF NamesStand
  <2> QED
    BY <2>1, <2>2, <2>3, <2>4 DEF NamesStand
<1>7. K[i] = Cardinality(NamesFor(U, i))
  <2>1. IsFiniteSet(NamesFor(T, i)) /\ <<dir, n, i>> \notin NamesFor(T, i)
    <3>1. IsFiniteSet(NamesFor(T, i))
      BY NamesFinite
    <3>2. <<dir, n, i>> \notin NamesFor(T, i)
      BY <1>2 DEF NamesFor
    <3> QED
      BY <3>1, <3>2
  <2>2. Cardinality(NamesFor(U, i)) = Cardinality(NamesFor(T, i)) + 1
    BY <1>4, <2>1, FS_AddElement
  <2>3. CASE i \in A
    <3>1. L[i] = Cardinality(NamesFor(T, i))
      BY <2>3 DEF LinksStand
    <3> QED
      BY <2>2, <2>3, <3>1
  <2>4. CASE i \notin A
    <3>1. NamesFor(T, i) = {}
      BY <2>4 DEF NamesFor, NamesStand, NamesWithin
    <3> QED
      BY <2>2, <2>4, <3>1, FS_EmptySet
  <2> QED
    BY <2>3, <2>4
<1>8. ASSUME NEW j \in Reached(U)
      PROVE  K[j] = IF j \in D THEN 2 + Cardinality(ChildDirectories(U, D, j)) ELSE Cardinality(NamesFor(U, j))
  <2>1. CASE j = i
    BY <1>7, <2>1
  <2>2. CASE j # i
    <3>1. j \in Reached(T) \ {i}
      BY <1>4, <2>2
    <3>2. L[j] = IF j \in D THEN 2 + Cardinality(ChildDirectories(T, D, j)) ELSE Cardinality(NamesFor(T, j))
      BY <3>1 DEF LinksStand
    <3> QED
      BY <1>4, <1>5, <2>2, <3>1, <3>2
  <2> QED
    BY <2>1, <2>2
<1> QED
  BY <1>4, <1>6, <1>8 DEF LinksStand

(* A directory made and named, and its parent's count raised.              *)
NamesADirectory(T, A, D, L, dir, n, i, K, U) ==
    /\ NamesAnother(T, D, dir, n, i, U)
    /\ i \in Inode \ A /\ dir \in Reached(T)
    /\ \A j \in Reached(T) \ {dir, i} : K[j] = L[j]
    /\ K[i] = 2 /\ K[dir] = L[dir] + 1
LEMMA DirectoryNamed ==
    ASSUME VolumeAssumption, NEW T, NEW A, NEW D, NEW L, NamesStand(T, A, D), LinksStand(T, D, L),
           NEW dir, NEW n, NEW i, NEW K, NEW U, NamesADirectory(T, A, D, L, dir, n, i, K, U)
    PROVE  /\ NamesStand(U, A \cup {i}, D \cup {i}) /\ LinksStand(U, D \cup {i}, K)
           /\ StillReached(T, A, U, A \cup {i})
<1> SUFFICES ASSUME dir \in D, n \in Name, \A t \in T : ~(t[1] = dir /\ t[2] = n),
                    i \in Inode \ A, dir \in Reached(T),
                    \A j \in Reached(T) \ {dir, i} : K[j] = L[j], K[i] = 2, K[dir] = L[dir] + 1,
                    U = T \cup {<<dir, n, i>>}
             PROVE  /\ NamesStand(U, A \cup {i}, D \cup {i}) /\ LinksStand(U, D \cup {i}, K)
                    /\ A = Reached(T) => A \cup {i} = Reached(U)
  BY DEF NamesADirectory, NamesAnother, StillReached
<1> DEFINE E == D \cup {i}
<1>1. \A t : t \in U <=> t \in T \/ t = <<dir, n, i>>
  OBVIOUS
<1>2. <<dir, n, i>>[1] = dir /\ <<dir, n, i>>[2] = n /\ <<dir, n, i>>[3] = i
  OBVIOUS
<1>3. i # Root /\ dir # i /\ i \notin D
  BY DEF NamesStand
<1>4. \A t \in T : t[1] # i /\ t[3] # i
  BY DEF NamesStand, NamesWithin
<1>5. \A j : ChildDirectories(T, E, j) = ChildDirectories(T, D, j)
  BY <1>4 DEF ChildDirectories
<1>6. /\ Reached(U) = Reached(T) \cup {i}
      /\ \A j : j # i => NamesFor(U, j) = NamesFor(T, j)
      /\ ChildDirectories(U, E, dir) = ChildDirectories(T, E, dir) \cup {<<dir, n, i>>}
      /\ \A j : j # dir => ChildDirectories(U, E, j) = ChildDirectories(T, E, j)
  <2>1. NameMore(T, U, E, dir, n, i)
    BY NamesWith
  <2> QED
    BY <2>1 DEF NameMore
<1>7. NamesStand(U, A \cup {i}, E)
  <2>1. NamesWithin(U, A \cup {i}, E)
    BY <1>1, <1>2 DEF NamesStand, NamesWithin
  <2>2. \A t, u \in U : t[1] = u[1] /\ t[2] = u[2] => t = u
    BY <1>1, <1>2 DEF NamesStand
  <2>3. \A t, u \in U : t[3] = u[3] /\ t[3] \in E => t = u
    BY <1>1, <1>2, <1>4 DEF NamesStand
  <2>4. \A t \in U : t[3] # Root
    BY <1>1, <1>2, <1>3 DEF NamesStand
  <2> QED
    BY <2>1, <2>2, <2>3, <2>4 DEF NamesStand
<1>8. K[i] = 2 + Cardinality(ChildDirectories(U, E, i))
  <2>1. ChildDirectories(U, E, i) = {}
    BY <1>3, <1>4, <1>6 DEF ChildDirectories
  <2>2. Cardinality(ChildDirectories(U, E, i)) = 0
    BY <2>1, FS_EmptySet
  <2>3. K[i] = 2
    OBVIOUS
  <2> QED
    BY <2>2, <2>3
<1>9. K[dir] = 2 + Cardinality(ChildDirectories(U, E, dir))
  <2>1. IsFiniteSet(ChildDirectories(T, D, dir)) /\ <<dir, n, i>> \notin ChildDirectories(T, D, dir)
    BY <1>2, <1>4, NamesFinite DEF ChildDirectories
  <2>2. Cardinality(ChildDirectories(U, E, dir)) = Cardinality(ChildDirectories(T, D, dir)) + 1
    <3>1. ChildDirectories(U, E, dir) = ChildDirectories(T, D, dir) \cup {<<dir, n, i>>}
      BY <1>5, <1>6
    <3> QED
      BY <2>1, <3>1, FS_AddElement
  <2>3. L[dir] = 2 + Cardinality(ChildDirectories(T, D, dir))
    BY DEF LinksStand
  <2>4. Cardinality(ChildDirectories(T, D, dir)) \in Nat
    BY <2>1, FS_CardinalityType
  <2> QED
    BY <2>2, <2>3, <2>4
<1>10. ASSUME NEW j \in Reached(U)
       PROVE  K[j] = IF j \in E THEN 2 + Cardinality(ChildDirectories(U, E, j)) ELSE Cardinality(NamesFor(U, j))
  <2>1. CASE j \in {i, dir}
    BY <1>8, <1>9, <2>1
  <2>2. CASE j \notin {i, dir}
    <3>1. j \in Reached(T) \ {dir, i}
      BY <1>6, <2>2
    <3>2. L[j] = IF j \in D THEN 2 + Cardinality(ChildDirectories(T, D, j)) ELSE Cardinality(NamesFor(T, j))
      BY <3>1 DEF LinksStand
    <3> QED
      BY <1>5, <1>6, <2>2, <3>1, <3>2
  <2> QED
    BY <2>1, <2>2
<1> QED
  BY <1>6, <1>7, <1>10 DEF LinksStand

(* An inode marked used that nothing leads to.                             *)
LEMMA InodeLost ==
    ASSUME NEW T, NEW A, NEW D, NEW L, NamesStand(T, A, D), LinksStand(T, D, L),
           NEW i \in Inode \ A, NEW E, D \subseteq E, E \subseteq D \cup {i},
           NEW K, \A j \in Reached(T) : K[j] = L[j]
    PROVE  NamesStand(T, A \cup {i}, E) /\ LinksStand(T, E, K)
<1>1. \A t \in T : t[1] # i /\ t[3] # i
  BY DEF NamesStand, NamesWithin
<1>2. \A j : ChildDirectories(T, E, j) = ChildDirectories(T, D, j)
  BY <1>1 DEF ChildDirectories
<1>3. NamesStand(T, A \cup {i}, E)
  BY <1>1 DEF NamesStand, NamesWithin
<1>4. \A j \in Reached(T) : j # i
  BY <1>1 DEF Reached, NamesStand
<1>5. \A j \in Reached(T) : j \in E <=> j \in D
  BY <1>4
<1> QED
  BY <1>2, <1>3, <1>5 DEF LinksStand

(* One of several names of a file taken away.                              *)
DropsAName(T, D, L, dir, n, i, K, U) ==
    /\ <<dir, n, i>> \in T /\ i \notin D /\ U = T \ {<<dir, n, i>>}
    /\ \A j \in Reached(T) \ {i} : K[j] = L[j]
    /\ K[i] = L[i] - 1 /\ K[i] > 0
LEMMA NameDropped ==
    ASSUME VolumeAssumption, NEW T, NEW A, NEW D, NEW L, NamesStand(T, A, D), LinksStand(T, D, L),
           NEW dir, NEW n, NEW i, NEW K, NEW U, DropsAName(T, D, L, dir, n, i, K, U)
    PROVE  /\ NamesStand(U, A, D) /\ LinksStand(U, D, K)
           /\ StillReached(T, A, U, A)
<1> SUFFICES ASSUME <<dir, n, i>> \in T, i \notin D,
                    \A j \in Reached(T) \ {i} : K[j] = L[j], K[i] = L[i] - 1, K[i] > 0,
                    U = T \ {<<dir, n, i>>}
             PROVE  /\ NamesStand(U, A, D) /\ LinksStand(U, D, K)
                    /\ A = Reached(T) => A = Reached(U)
  BY DEF DropsAName, StillReached
<1>1. /\ Reached(T) = Reached(U) \cup {i} /\ NamesFor(U, i) = NamesFor(T, i) \ {<<dir, n, i>>}
      /\ \A j : j # i => NamesFor(U, j) = NamesFor(T, j)
      /\ \A j : ChildDirectories(U, D, j) = ChildDirectories(T, D, j)
  <2>1. NameLess(T, U, D, dir, n, i)
    BY NamesWithout
  <2> QED
    BY <2>1 DEF NameLess
<1>2. NamesStand(U, A, D)
  BY DEF NamesStand, NamesWithin
<1>3. i \in Reached(T) /\ <<dir, n, i>> \in NamesFor(T, i)
  BY <1>1 DEF NamesFor
<1>4. K[i] = Cardinality(NamesFor(U, i))
  <2>3. IsFiniteSet(NamesFor(T, i))
    BY NamesFinite
  <2>1. Cardinality(NamesFor(U, i)) = Cardinality(NamesFor(T, i)) - 1
    BY <1>1, <1>3, <2>3, OneFewer
  <2>2. L[i] = Cardinality(NamesFor(T, i))
    BY <1>3 DEF LinksStand
  <2> QED
    BY <2>1, <2>2
<1>5. i \in Reached(U)
  <2>1. NamesFor(U, i) # {}
    <3>1. K[i] > 0
      OBVIOUS
    <3>2. K[i] # 0
      BY <3>1
    <3>3. Cardinality({}) = 0
      BY FS_EmptySet
    <3>4. NamesFor(U, i) = {} => K[i] = 0
      BY <1>4, <3>3
    <3> QED
      BY <3>2, <3>4
  <2> QED
    BY <2>1 DEF NamesFor, Reached
<1>6. LinksStand(U, D, K)
  <2> SUFFICES ASSUME NEW j \in Reached(U)
               PROVE  K[j] = IF j \in D THEN 2 + Cardinality(ChildDirectories(U, D, j)) ELSE Cardinality(NamesFor(U, j))
    BY DEF LinksStand
  <2>1. CASE j = i
    BY <1>4, <2>1
  <2>2. CASE j # i
    BY <1>1, <2>2 DEF LinksStand
  <2> QED
    BY <2>1, <2>2
<1> QED
  BY <1>1, <1>2, <1>5, <1>6

(* The last name of a file taken away, and the file with it.               *)
DropsAFile(T, D, L, dir, n, i, K, U) ==
    /\ <<dir, n, i>> \in T /\ i \notin D /\ U = T \ {<<dir, n, i>>} /\ ~(L[i] - 1 > 0)
    /\ \A j \in Reached(T) \ {i} : K[j] = L[j]
LEMMA FileDropped ==
    ASSUME VolumeAssumption, NEW T, NEW A, NEW D, NEW L, NamesStand(T, A, D), LinksStand(T, D, L),
           NEW dir, NEW n, NEW i, NEW K, NEW U, DropsAFile(T, D, L, dir, n, i, K, U)
    PROVE  /\ NamesStand(U, A \ {i}, D) /\ LinksStand(U, D, K)
           /\ StillReached(T, A, U, A \ {i})
<1> SUFFICES ASSUME <<dir, n, i>> \in T, i \notin D, ~(L[i] - 1 > 0),
                    \A j \in Reached(T) \ {i} : K[j] = L[j],
                    U = T \ {<<dir, n, i>>}
             PROVE  /\ NamesStand(U, A \ {i}, D) /\ LinksStand(U, D, K)
                    /\ A = Reached(T) => A \ {i} = Reached(U)
  BY DEF DropsAFile, StillReached
<1>1. /\ Reached(T) = Reached(U) \cup {i} /\ NamesFor(U, i) = NamesFor(T, i) \ {<<dir, n, i>>}
      /\ \A j : j # i => NamesFor(U, j) = NamesFor(T, j)
      /\ \A j : ChildDirectories(U, D, j) = ChildDirectories(T, D, j)
  <2>1. NameLess(T, U, D, dir, n, i)
    BY NamesWithout
  <2> QED
    BY <2>1 DEF NameLess
<1>2. i \in Reached(T) /\ <<dir, n, i>> \in NamesFor(T, i) /\ i # Root
  BY <1>1 DEF NamesFor, NamesStand
<1>3. \A t \in U : t[3] # i
  <2>1. L[i] = Cardinality(NamesFor(T, i))
    BY <1>2 DEF LinksStand
  <2>2. IsFiniteSet(NamesFor(T, i)) /\ Cardinality(NamesFor(T, i)) \in Nat
    BY NamesFinite, FS_CardinalityType
  <2>3. IsFiniteSet(NamesFor(U, i)) /\ Cardinality(NamesFor(U, i)) = Cardinality(NamesFor(T, i)) - 1
    <3>1. <<dir, n, i>> \in NamesFor(T, i)
      BY <1>2
    <3>2. IsFiniteSet(NamesFor(T, i))
      BY <2>2
    <3>3. /\ IsFiniteSet(NamesFor(T, i) \ {<<dir, n, i>>})
          /\ Cardinality(NamesFor(T, i) \ {<<dir, n, i>>}) = Cardinality(NamesFor(T, i)) - 1
      BY <3>1, <3>2, OneFewer
    <3>4. NamesFor(U, i) = NamesFor(T, i) \ {<<dir, n, i>>}
      BY <1>1
    <3> QED
      BY <3>3, <3>4
  <2>4. Cardinality(NamesFor(U, i)) \in Nat
    BY <2>3, FS_CardinalityType
  <2>5. Cardinality(NamesFor(U, i)) = 0
    BY <2>1, <2>2, <2>3, <2>4
  <2>6. NamesFor(U, i) = {}
    BY <2>3, <2>5, FS_EmptySet
  <2> QED
    BY <2>6 DEF NamesFor
<1>4. \A t \in U : t[1] # i
  BY DEF NamesStand, NamesWithin
<1>5. NamesStand(U, A \ {i}, D)
  BY <1>3, <1>4 DEF NamesStand, NamesWithin
<1>6. i \notin Reached(U)
  BY <1>2, <1>3 DEF Reached
<1>7. LinksStand(U, D, K)
  <2> SUFFICES ASSUME NEW j \in Reached(U)
               PROVE  K[j] = IF j \in D THEN 2 + Cardinality(ChildDirectories(U, D, j)) ELSE Cardinality(NamesFor(U, j))
    BY DEF LinksStand
  <2>1. j # i /\ j \in Reached(T)
    BY <1>1, <1>6
  <2> QED
    BY <1>1, <2>1 DEF LinksStand
<1> QED
  BY <1>1, <1>5, <1>6, <1>7

(* The name of an empty directory taken away, the directory with it, and   *)
(* its parent's count lowered.                                             *)
DropsADirectory(T, D, L, dir, n, i, K, U) ==
    /\ <<dir, n, i>> \in T /\ i \in D /\ U = T \ {<<dir, n, i>>}
    /\ (\A t \in T : t[1] # i) /\ dir \in Reached(T)
    /\ \A j \in Reached(T) \ {dir, i} : K[j] = L[j]
    /\ K[dir] = L[dir] - 1
LEMMA DirectoryDropped ==
    ASSUME VolumeAssumption, NEW T, NEW A, NEW D, NEW L, NamesStand(T, A, D), LinksStand(T, D, L),
           NEW dir, NEW n, NEW i, NEW K, NEW U, DropsADirectory(T, D, L, dir, n, i, K, U)
    PROVE  /\ NamesStand(U, A \ {i}, D \ {i}) /\ LinksStand(U, D \ {i}, K)
           /\ StillReached(T, A, U, A \ {i})
<1> SUFFICES ASSUME <<dir, n, i>> \in T, i \in D, \A t \in T : t[1] # i, dir \in Reached(T),
                    \A j \in Reached(T) \ {dir, i} : K[j] = L[j], K[dir] = L[dir] - 1,
                    U = T \ {<<dir, n, i>>}
             PROVE  /\ NamesStand(U, A \ {i}, D \ {i}) /\ LinksStand(U, D \ {i}, K)
                    /\ A = Reached(T) => A \ {i} = Reached(U)
  BY DEF DropsADirectory, StillReached
<1> DEFINE E == D \ {i}
<1>1. <<dir, n, i>>[1] = dir /\ <<dir, n, i>>[3] = i
  OBVIOUS
<1>2. dir # i /\ dir \in D /\ i # Root
  BY <1>1 DEF NamesStand, NamesWithin
<1>3. /\ Reached(T) = Reached(U) \cup {i}
      /\ \A j : j # i => NamesFor(U, j) = NamesFor(T, j)
      /\ ChildDirectories(U, D, dir) = ChildDirectories(T, D, dir) \ {<<dir, n, i>>}
      /\ \A j : j # dir => ChildDirectories(U, D, j) = ChildDirectories(T, D, j)
  <2>1. NameLess(T, U, D, dir, n, i)
    BY NamesWithout
  <2> QED
    BY <2>1 DEF NameLess
<1>4. \A t \in U : t[1] # i /\ t[3] # i
  BY <1>1 DEF NamesStand
<1>5. \A j : ChildDirectories(U, E, j) = ChildDirectories(U, D, j)
  BY <1>4 DEF ChildDirectories
<1>6. NamesStand(U, A \ {i}, E)
  <2>1. NamesWithin(U, A \ {i}, E)
    BY <1>4 DEF NamesStand, NamesWithin
  <2> QED
    BY <1>2, <2>1 DEF NamesStand
<1>7. i \notin Reached(U)
  BY <1>2, <1>4 DEF Reached
<1>8. K[dir] = 2 + Cardinality(ChildDirectories(U, E, dir))
  <2>1. <<dir, n, i>> \in ChildDirectories(T, D, dir)
    BY <1>1 DEF ChildDirectories
  <2>2. IsFiniteSet(ChildDirectories(T, D, dir)) /\ Cardinality(ChildDirectories(T, D, dir)) \in Nat
    BY NamesFinite, FS_CardinalityType
  <2>3. Cardinality(ChildDirectories(U, E, dir)) = Cardinality(ChildDirectories(T, D, dir)) - 1
    <3>1. ChildDirectories(U, E, dir) = ChildDirectories(T, D, dir) \ {<<dir, n, i>>}
      BY <1>3, <1>5
    <3> QED
      BY <2>1, <2>2, <3>1, OneFewer
  <2>4. L[dir] = 2 + Cardinality(ChildDirectories(T, D, dir))
    BY <1>2 DEF LinksStand
  <2> QED
    BY <2>2, <2>3, <2>4
<1>9. LinksStand(U, E, K)
  <2> SUFFICES ASSUME NEW j \in Reached(U)
               PROVE  K[j] = IF j \in E THEN 2 + Cardinality(ChildDirectories(U, E, j)) ELSE Cardinality(NamesFor(U, j))
    BY DEF LinksStand
  <2>1. CASE j = dir
    BY <1>2, <1>8, <2>1
  <2>2. CASE j # dir
    <3>1. j # i /\ j \in Reached(T)
      BY <1>3, <1>7
    <3> QED
      BY <1>3, <1>5, <2>2, <3>1 DEF LinksStand
  <2> QED
    BY <2>1, <2>2
<1> QED
  BY <1>3, <1>6, <1>7, <1>9

(***************************************************************************)
(* The pointers of inodes and the map of blocks.                           *)
(***************************************************************************)

(* The places of an inode's pointers, its table's own before those in the  *)
(* table, and the pointer in each.                                         *)
Place == 0 .. PerTable + 1
PlaceOf(index) == IF index = 0 THEN 0 ELSE index + 1
PointerAt(v, r, p) ==
    CASE p = 0 -> r.direct
      [] p = 1 -> r.table
      [] OTHER -> IF r.table = 0 THEN 0 ELSE TableOf(v, r.table)[p - 2]

(* A volume whose buffers hold what they may.                              *)
Formed(v) ==
    /\ DOMAIN v = Structure
    /\ v[Super] \in SuperRecord /\ v[Group] \in GroupRecord
    /\ v[BlockMap] \subseteq DiskBlock /\ v[InodeMap] \subseteq Inode
    /\ \A i \in Inode : v[Table(i)] \in [Beside(i) -> InodeRecord] /\ InodeIn(v, i) \in InodeRecord
    /\ \A b \in DiskBlock : v[Area(b)] \in Content
LEMMA SaneIsFormed ==
    ASSUME NEW s, Sane(s)
    PROVE  Formed(s.v)
  BY ViewIs DEF Formed, Sane

LEMMA TableFormed ==
    ASSUME VolumeAssumption, NEW v, Formed(v), NEW b \in DiskBlock
    PROVE  TableOf(v, b) \in Rows
<1>1. v[Area(b)] \in Content /\ NoPointers \in Rows
  BY EmptyIs DEF Formed
<1> QED
  BY <1>1, ContentIs DEF TableOf

LEMMA PointerIs ==
    ASSUME VolumeAssumption, NEW v, Formed(v), NEW r \in InodeRecord
    PROVE  /\ \A p \in Place : PointerAt(v, r, p) \in DiskBlock \cup {0}
           /\ \A k \in Indices : PlaceOf(k) \in Place \ {1} /\ BlockAt(v, r, k) = PointerAt(v, r, PlaceOf(k))
           /\ 0 \in Place /\ 1 \in Place
           /\ PointerAt(v, r, 0) = r.direct /\ PointerAt(v, r, 1) = r.table
           /\ r.table = 0 => \A p \in Place \ {0, 1} : PointerAt(v, r, p) = 0
<1>1. PerTable \in Nat \ {0}
  BY DEF VolumeAssumption
<1>2. r.direct \in DiskBlock \cup {0} /\ r.table \in DiskBlock \cup {0}
  BY InodeIs
<1>3. ASSUME NEW p \in Place
      PROVE  PointerAt(v, r, p) \in DiskBlock \cup {0}
  <2>1. CASE p \in {0, 1} \/ r.table = 0
    BY <1>2, <2>1 DEF PointerAt
  <2>2. CASE p \notin {0, 1} /\ r.table # 0
    <3>1. TableOf(v, r.table) \in Rows
      BY <1>2, <2>2, TableFormed
    <3>2. p - 2 \in 0 .. PerTable - 1
      BY <1>1, <2>2 DEF Place
    <3>3. TableOf(v, r.table)[p - 2] \in 0 .. DiskBlocks
      BY <3>1, <3>2 DEF Rows
    <3>4. DiskBlocks \in Nat
      BY DEF VolumeAssumption
    <3>5. TableOf(v, r.table)[p - 2] \in DiskBlock \cup {0}
      BY <3>3, <3>4 DEF DiskBlock
    <3> QED
      BY <2>2, <3>5 DEF PointerAt
  <2> QED
    BY <2>1, <2>2
<1>4. ASSUME NEW k \in Indices
      PROVE  PlaceOf(k) \in Place \ {1} /\ BlockAt(v, r, k) = PointerAt(v, r, PlaceOf(k))
  <2>1. CASE k = 0
    BY <1>1, <2>1 DEF PlaceOf, Place, BlockAt, PointerAt
  <2>2. CASE k # 0
    <3>1. k \in Int /\ k > 0 /\ k <= PerTable /\ PlaceOf(k) = k + 1
      BY <1>1, <2>2 DEF Indices, PlaceOf
    <3>2. k + 1 \in Place /\ k + 1 # 0 /\ k + 1 # 1 /\ (k + 1) - 2 = k - 1
      BY <1>1, <3>1 DEF Place
    <3> QED
      BY <2>2, <3>1, <3>2 DEF BlockAt, PointerAt
  <2> QED
    BY <2>1, <2>2
<1>5. 0 \in Place /\ 1 \in Place
  BY <1>1 DEF Place
<1>6. /\ PointerAt(v, r, 0) = r.direct /\ PointerAt(v, r, 1) = r.table
      /\ r.table = 0 => \A p \in Place \ {0, 1} : PointerAt(v, r, p) = 0
  BY DEF PointerAt
<1> QED
  BY <1>3, <1>4, <1>5, <1>6

LEMMA PlaceOfIs ==
    ASSUME VolumeAssumption
    PROVE  /\ \A k \in Indices : PlaceOf(k) \in Place \ {1} /\ (k # 0 => PlaceOf(k) \notin {0, 1})
           /\ \A k, l \in Indices : PlaceOf(k) = PlaceOf(l) => k = l
           /\ \A p \in Place \ {1} : \E k \in Indices : p = PlaceOf(k)
           /\ \A k \in Indices \ {0} : k - 1 \in 0 .. PerTable - 1 /\ PlaceOf(k) - 2 = k - 1
<1>1. PerTable \in Nat \ {0}
  BY DEF VolumeAssumption
<1>2. \A k \in Indices : PlaceOf(k) \in Place \ {1} /\ (k # 0 => PlaceOf(k) \notin {0, 1})
  BY <1>1 DEF Indices, PlaceOf, Place
<1>3. \A k, l \in Indices : PlaceOf(k) = PlaceOf(l) => k = l
  BY <1>1 DEF Indices, PlaceOf
<1>4. ASSUME NEW p \in Place \ {1}
      PROVE  \E k \in Indices : p = PlaceOf(k)
  <2>1. CASE p = 0
    <3>1. 0 \in Indices
      BY <1>1 DEF Indices
    <3> QED
      BY <2>1, <3>1 DEF PlaceOf
  <2>2. CASE p # 0
    <3>1. p - 1 \in Indices /\ p - 1 # 0 /\ (p - 1) + 1 = p
      BY <1>1, <2>2 DEF Place, Indices
    <3> QED
      BY <3>1 DEF PlaceOf
  <2> QED
    BY <2>1, <2>2
<1>5. \A k \in Indices \ {0} : k - 1 \in 0 .. PerTable - 1 /\ PlaceOf(k) - 2 = k - 1
  BY <1>1 DEF Indices, PlaceOf
<1> QED
  BY <1>2, <1>3, <1>4, <1>5

(* Every block pointed at is marked used and has one pointer; every block  *)
(* marked used has one.                                                    *)
Pointing(v, N) == [i \in Inode |-> [p \in Place |-> PointerAt(v, N[i], p)]]
Owned(F, U) ==
    /\ \A i \in Inode : \A p \in Place : F[i][p] # 0 => F[i][p] \in U
    /\ \A i, j \in Inode : \A p, q \in Place : F[i][p] # 0 /\ F[i][p] = F[j][q] => i = j /\ p = q
Spent(F, U) == \A b \in U : \E i \in Inode : \E p \in Place : F[i][p] = b
OnePointer(F, G, x, p, b) ==
    /\ G[x][p] = b
    /\ \A i \in Inode : \A q \in Place : ~(i = x /\ q = p) => G[i][q] = F[i][q]

LEMMA PointerGained ==
    ASSUME NEW F, NEW U, Owned(F, U), NEW x \in Inode, NEW p \in Place, F[x][p] = 0,
           NEW b, b \notin U, b # 0, 0 \notin U, NEW G, OnePointer(F, G, x, p, b)
    PROVE  Owned(G, U \cup {b}) /\ (Spent(F, U) => Spent(G, U \cup {b}))
<1>1. Owned(G, U \cup {b})
  BY DEF Owned, OnePointer
<1>2. ASSUME Spent(F, U)
      PROVE  Spent(G, U \cup {b})
  <2>1. ASSUME NEW c \in U
        PROVE  \E i \in Inode : \E q \in Place : G[i][q] = c
    <3>1. PICK i \in Inode : \E q \in Place : F[i][q] = c
      BY <1>2 DEF Spent
    <3>2. PICK q \in Place : F[i][q] = c
      BY <3>1
    <3>3. G[i][q] = c
      BY <3>2 DEF OnePointer
    <3> QED
      BY <3>3
  <2>2. \E i \in Inode : \E q \in Place : G[i][q] = b
    BY DEF OnePointer
  <2> QED
    BY <2>1, <2>2 DEF Spent
<1> QED
  BY <1>1, <1>2

LEMMA PointerLost ==
    ASSUME NEW F, NEW U, Owned(F, U), NEW x \in Inode, NEW p \in Place, F[x][p] # 0,
           NEW G, OnePointer(F, G, x, p, 0)
    PROVE  Owned(G, U \ {F[x][p]}) /\ (Spent(F, U) => Spent(G, U \ {F[x][p]}))
<1>1. Owned(G, U \ {F[x][p]})
  BY DEF Owned, OnePointer
<1>2. ASSUME Spent(F, U), NEW c \in U \ {F[x][p]}
      PROVE  \E i \in Inode : \E q \in Place : G[i][q] = c
  <2>1. PICK i \in Inode : \E q \in Place : F[i][q] = c
    BY <1>2 DEF Spent
  <2>2. PICK q \in Place : F[i][q] = c
    BY <2>1
  <2>3. G[i][q] = c
    BY <1>2, <2>2 DEF OnePointer
  <2> QED
    BY <2>3
<1> QED
  BY <1>1, <1>2 DEF Spent

(* Pointers forgotten leave the others as they were.                       *)
LEMMA PointersForgotten ==
    ASSUME NEW F, NEW U, Owned(F, U), NEW W, U \subseteq W,
           NEW G, \A i \in Inode : \A p \in Place : G[i][p] = F[i][p] \/ G[i][p] = 0
    PROVE  Owned(G, W)
<1>1. \A i \in Inode : \A p \in Place : G[i][p] # 0 => G[i][p] = F[i][p]
  OBVIOUS
<1> QED
  BY <1>1 DEF Owned

(* The counts of the free.                                                 *)
BlockCount(v) ==
    /\ v[Super].freeBlocks = DiskBlocks - Cardinality(v[BlockMap])
    /\ v[Group].freeBlocks = v[Super].freeBlocks
InodeCount(v) ==
    /\ v[Super].freeInodes = Inodes - Cardinality(v[InodeMap])
    /\ v[Group].freeInodes = v[Super].freeInodes
InodesKept(v, u) ==
    /\ u[InodeMap] = v[InodeMap] /\ u[Super].freeInodes = v[Super].freeInodes
    /\ u[Group].freeInodes = v[Group].freeInodes /\ u[Group].directories = v[Group].directories
BlocksKept(v, u) ==
    /\ u[BlockMap] = v[BlockMap] /\ u[Super].freeBlocks = v[Super].freeBlocks
    /\ u[Group].freeBlocks = v[Group].freeBlocks
AllBut(v, u, X) == \A y \in Structure \ X : u[y] = v[y]

(* The ledger of the blocks, for the inodes N: of a volume where nothing   *)
(* is lost when `tight`.                                                   *)
Books(v, N, tight) ==
    /\ Owned(Pointing(v, N), v[BlockMap]) /\ BlockCount(v)
    /\ tight => Spent(Pointing(v, N), v[BlockMap])
LEMMA PointingIs ==
    ASSUME NEW v, NEW N
    PROVE  \A i \in Inode : \A p \in Place : Pointing(v, N)[i][p] = PointerAt(v, N[i], p)
  BY DEF Pointing
LEMMA BooksSay ==
    ASSUME NEW v, NEW N, NEW tight, Books(v, N, tight)
    PROVE  /\ \A i \in Inode : \A p \in Place : PointerAt(v, N[i], p) # 0 => PointerAt(v, N[i], p) \in v[BlockMap]
           /\ \A i, j \in Inode : \A p, q \in Place :
                 PointerAt(v, N[i], p) # 0 /\ PointerAt(v, N[i], p) = PointerAt(v, N[j], q) => i = j /\ p = q
           /\ tight => \A b \in v[BlockMap] : \E i \in Inode : \E p \in Place : PointerAt(v, N[i], p) = b
<1>1. PICK F : F = Pointing(v, N)
  OBVIOUS
<1>2. \A i \in Inode : \A p \in Place : F[i][p] = PointerAt(v, N[i], p)
  BY <1>1, PointingIs
<1>3. Owned(F, v[BlockMap]) /\ (tight => Spent(F, v[BlockMap]))
  BY <1>1 DEF Books
<1>4. \A i \in Inode : \A p \in Place : F[i][p] # 0 => F[i][p] \in v[BlockMap]
  BY <1>3 DEF Owned
<1>5. \A i, j \in Inode : \A p, q \in Place : F[i][p] # 0 /\ F[i][p] = F[j][q] => i = j /\ p = q
  BY <1>3 DEF Owned
<1>6. tight => \A b \in v[BlockMap] : \E i \in Inode : \E p \in Place : F[i][p] = b
  BY <1>3 DEF Spent
<1> QED
  BY <1>2, <1>4, <1>5, <1>6

(* What an inode's pointers lead to is as it was.                          *)
Untouched(v, u, r) ==
    \A p \in Place : PointerAt(v, r, p) # 0 => u[Area(PointerAt(v, r, p))] = v[Area(PointerAt(v, r, p))]
SamePointers(v, r, u, q) == \A p \in Place : PointerAt(u, q, p) = PointerAt(v, r, p)
LEMMA UntouchedIs ==
    ASSUME VolumeAssumption, NEW v, NEW u, NEW r, Untouched(v, u, r)
    PROVE  SamePointers(v, r, u, r)
<1>1. 1 \in Place /\ PointerAt(v, r, 1) = r.table
  BY DEF Place, PointerAt, VolumeAssumption
<1>2. r.table # 0 => u[Area(r.table)] = v[Area(r.table)]
  BY <1>1 DEF Untouched
<1>3. r.table # 0 => TableOf(u, r.table) = TableOf(v, r.table)
  BY <1>2 DEF TableOf
<1> QED
  BY <1>3 DEF PointerAt, SamePointers

LEMMA UntouchedOn ==
    ASSUME VolumeAssumption, NEW v, NEW u, NEW w, NEW r, Untouched(v, u, r), Untouched(u, w, r)
    PROVE  Untouched(v, w, r)
<1>1. SamePointers(v, r, u, r)
  BY UntouchedIs
<1> QED
  BY <1>1 DEF Untouched, SamePointers

(* Nothing but the inode x, and what it points at, is touched.             *)
Spares(v, u, x, N) ==
    /\ InodesKept(v, u)
    /\ \A j \in Inode \ {x} : InodeIn(u, j) = InodeIn(v, j) /\ Untouched(v, u, N[j])
LEMMA SparesOn ==
    ASSUME VolumeAssumption, NEW v, NEW u, NEW w, NEW x, NEW N, Spares(v, u, x, N), Spares(u, w, x, N)
    PROVE  Spares(v, w, x, N)
<1>1. InodesKept(v, w)
  BY DEF Spares, InodesKept
<1>2. \A j \in Inode \ {x} : InodeIn(w, j) = InodeIn(v, j) /\ Untouched(v, w, N[j])
  BY UntouchedOn DEF Spares
<1> QED
  BY <1>1, <1>2 DEF Spares

LEMMA SparesAll ==
    ASSUME NEW v, NEW x, NEW N
    PROVE  Spares(v, v, x, N)
  BY DEF Spares, InodesKept, Untouched

(* Buffers that are not inodes' nor blocks of theirs.                      *)
LEMMA OthersSpared ==
    ASSUME VolumeAssumption, NEW v, NEW u, NEW N, NEW x, N \in [Inode -> InodeRecord], Formed(v),
           NEW b, \A j \in Inode \ {x} : \A p \in Place : PointerAt(v, N[j], p) # b,
           AllBut(v, u, {Super, Group, BlockMap, Area(b)}), InodesKept(v, u)
    PROVE  Spares(v, u, x, N)
<1>1. ASSUME NEW j \in Inode \ {x}
      PROVE  InodeIn(u, j) = InodeIn(v, j) /\ Untouched(v, u, N[j])
  <2>1. Table(j) \in Structure \ {Super, Group, BlockMap, Area(b)}
    BY StructureIs, BuffersApart
  <2>2. InodeIn(u, j) = InodeIn(v, j)
    BY <2>1 DEF AllBut, InodeIn
  <2>3. ASSUME NEW p \in Place, PointerAt(v, N[j], p) # 0
        PROVE  u[Area(PointerAt(v, N[j], p))] = v[Area(PointerAt(v, N[j], p))]
    <3>1. PICK c : c = PointerAt(v, N[j], p)
      OBVIOUS
    <3>2. c \in DiskBlock /\ c # b
      BY <2>3, <3>1, PointerIs
    <3>3. Area(c) \in Structure \ {Super, Group, BlockMap, Area(b)}
      BY <3>2, StructureIs, BuffersApart
    <3> QED
      BY <3>1, <3>3 DEF AllBut
  <2> QED
    BY <2>2, <2>3 DEF Untouched
<1> QED
  BY <1>1 DEF Spares

(***************************************************************************)
(* What allocations change.                                                *)
(***************************************************************************)
(* One field of an operation's record.                                     *)
Gets(s, b) == [s EXCEPT !.got = b]
HasInHand(s, r) == [s EXCEPT !.i = r]
Gotten(s, t, b) == Sane(t) /\ t.v = s.v /\ t.i = s.i /\ t.ok = s.ok /\ t.got = b
LEMMA GotIs ==
    ASSUME NEW s, Sane(s), NEW b, NEW t, t = Gets(s, b)
    PROVE  Gotten(s, t, b)
<1>1. Sane([s EXCEPT !.got = b])
  BY FieldsIs
<1>2. [s EXCEPT !.got = b].v = s.v /\ [s EXCEPT !.got = b].i = s.i
  BY FieldsIs
<1>3. [s EXCEPT !.got = b].got = b /\ [s EXCEPT !.got = b].ok = s.ok
  BY FieldsIs
<1> QED
  BY <1>1, <1>2, <1>3 DEF Gets, Gotten

LEMMA InHandIs ==
    ASSUME NEW s, Sane(s), NEW r \in InodeRecord, NEW t, t = HasInHand(s, r)
    PROVE  Sane(t) /\ t.v = s.v /\ t.i = r /\ t.ok = s.ok /\ t.got = s.got
<1>1. Sane([s EXCEPT !.i = r])
  BY FieldsIs
<1>2. [s EXCEPT !.i = r].v = s.v /\ [s EXCEPT !.i = r].i = r
  BY FieldsIs
<1>3. [s EXCEPT !.i = r].got = s.got /\ [s EXCEPT !.i = r].ok = s.ok
  BY FieldsIs
<1> QED
  BY <1>1, <1>2, <1>3 DEF HasInHand

LEMMA OkIs ==
    ASSUME NEW s, Sane(s), NEW ok \in BOOLEAN, NEW t, t = [s EXCEPT !.ok = ok]
    PROVE  Sane(t) /\ t.v = s.v /\ t.i = s.i /\ t.ok = ok /\ t.got = s.got
<1>1. Sane([s EXCEPT !.ok = ok])
  BY FieldsIs
<1>2. [s EXCEPT !.ok = ok].v = s.v /\ [s EXCEPT !.ok = ok].i = s.i
  BY FieldsIs
<1>3. [s EXCEPT !.ok = ok].got = s.got /\ [s EXCEPT !.ok = ok].ok = ok
  BY FieldsIs
<1> QED
  BY <1>1, <1>2, <1>3

LEMMA PutAnArea ==
    ASSUME VolumeAssumption, NEW s, Sane(s), NEW b \in DiskBlock, NEW z \in Content, NEW t, t = Put(s, Area(b), z)
    PROVE  /\ Sane(t) /\ Same(s, t)
           /\ s.ok => HasPut(s, t, Area(b), z)
           /\ ~s.ok => t = s
<1>1. Sane(t) /\ Same(s, t)
  BY PutAreaIs
<1>2. Area(b) \in Structure
  BY StructureIs
<1>3. s.ok => HasPut(s, t, Area(b), z)
  BY <1>2, PutShows
<1> QED
  BY <1>1, <1>3, PutRefused

Adjusted(v, u, x, field, by) ==
    /\ u[x][field] = v[x][field] + by
    /\ field # "freeBlocks" => u[x].freeBlocks = v[x].freeBlocks
    /\ field # "freeInodes" => u[x].freeInodes = v[x].freeInodes
    /\ x = Group => u[x].directories = v[x].directories
    /\ AllBut(v, u, {x})
LEMMA AdjustShows ==
    ASSUME NEW s, Sane(s), s.ok, NEW by \in Int, NEW x \in {Super, Group},
           NEW field \in {"freeBlocks", "freeInodes"}, NEW t, t = Adjust(s, x, field, by)
    PROVE  Adjusted(s.v, t.v, x, field, by)
<1>1. s.v[Super] \in SuperRecord /\ s.v[Group] \in GroupRecord /\ Super \in Structure /\ Group \in Structure
  BY ViewIs, StructureIs
<1>2. PICK y : y = [s.v[x] EXCEPT ![field] = s.v[x][field] + by]
  OBVIOUS
<1>3. t = Put(s, x, y)
  BY <1>2 DEF Adjust
<1>4. HasPut(s, t, x, y)
  BY <1>1, <1>3, PutShows
<1>5. t.v[x] = y /\ AllBut(s.v, t.v, {x})
  BY <1>4 DEF HasPut, AllBut
<1>6. CASE x = Super
  <2>1. PICK z : z = s.v[Super] /\ z \in SuperRecord
    BY <1>1
  <2>2. y = [z EXCEPT ![field] = z[field] + by]
    BY <1>2, <1>6, <2>1
  <2>3. CASE field = "freeBlocks"
    BY <1>5, <1>6, <2>1, <2>2, <2>3, BuffersApart DEF SuperRecord, Adjusted
  <2>4. CASE field = "freeInodes"
    BY <1>5, <1>6, <2>1, <2>2, <2>4, BuffersApart DEF SuperRecord, Adjusted
  <2> QED
    BY <2>3, <2>4
<1>7. CASE x = Group
  <2>1. PICK z : z = s.v[Group] /\ z \in GroupRecord
    BY <1>1
  <2>2. y = [z EXCEPT ![field] = z[field] + by]
    BY <1>2, <1>7, <2>1
  <2>3. CASE field = "freeBlocks"
    BY <1>5, <1>7, <2>1, <2>2, <2>3 DEF GroupRecord, Adjusted
  <2>4. CASE field = "freeInodes"
    BY <1>5, <1>7, <2>1, <2>2, <2>4 DEF GroupRecord, Adjusted
  <2> QED
    BY <2>3, <2>4
<1> QED
  BY <1>6, <1>7

LEMMA InodesFinite ==
    ASSUME VolumeAssumption
    PROVE  IsFiniteSet(Inode) /\ IsFiniteSet(DiskBlock)
  BY FS_Interval DEF Inode, DiskBlock, VolumeAssumption

(* A map of bits and the counts beside it.                                 *)
LEMMA OneMoreUsed ==
    ASSUME NEW S, IsFiniteSet(S), NEW b, b \notin S
    PROVE  Cardinality(S \cup {b}) = Cardinality(S) + 1 /\ Cardinality(S) \in Nat
  BY FS_AddElement, FS_CardinalityType
LEMMA OneFewerUsed ==
    ASSUME NEW S, IsFiniteSet(S), NEW b \in S
    PROVE  Cardinality(S \ {b}) = Cardinality(S) - 1 /\ Cardinality(S) \in Nat
  BY FS_RemoveElement, FS_CardinalityType

BlockTaken(v, u, b) ==
    /\ b \in DiskBlock \ v[BlockMap] /\ u[BlockMap] = v[BlockMap] \cup {b}
    /\ AllBut(v, u, {Super, Group, BlockMap}) /\ InodesKept(v, u)
    /\ BlockCount(v) => BlockCount(u)
BlockGiven(v, u, b) ==
    /\ u[BlockMap] = v[BlockMap] \ {b}
    /\ AllBut(v, u, {Super, Group, BlockMap}) /\ InodesKept(v, u)
    /\ BlockCount(v) => BlockCount(u)

(* The two counts of free blocks follow the map of them.                   *)
MapCounted(v, u, map) ==
    /\ u[BlockMap] = map /\ AllBut(v, u, {Super, Group, BlockMap}) /\ InodesKept(v, u)
    /\ BlockCount(v) => BlockCount(u)
LEMMA BlockCounted ==
    ASSUME VolumeAssumption, NEW s, Sane(s), s.ok, NEW map \in SUBSET DiskBlock,
           NEW by \in Int, Cardinality(map) = Cardinality(s.v[BlockMap]) - by,
           Cardinality(s.v[BlockMap]) \in Nat,
           NEW t, t = Adjust(Adjust(Put(s, BlockMap, map), Group, "freeBlocks", by), Super, "freeBlocks", by)
    PROVE  Sane(t) /\ Same(s, t) /\ MapCounted(s.v, t.v, map)
<1>1. PICK a : a = Put(s, BlockMap, map)
  OBVIOUS
<1>2. Sane(a) /\ Same(s, a) /\ HasPut(s, a, BlockMap, map)
  <2>1. MayHold(BlockMap, map)
    BY VersionHeld
  <2> QED
    BY <1>1, <2>1, PutKeeps, PutShows, OtherBuffers, StructureIs
<1>3. PICK c : c = Adjust(a, Group, "freeBlocks", by) /\ Sane(c) /\ Same(a, c)
  BY <1>2, AdjustGroup
<1>4. t = Adjust(c, Super, "freeBlocks", by)
  BY <1>1, <1>3
<1>5. Sane(t) /\ Same(c, t)
  BY <1>3, <1>4, AdjustSuper
<1>6. a.ok /\ c.ok
  BY <1>2, <1>3 DEF Same
<1>7. /\ c.v[Group].freeBlocks = a.v[Group].freeBlocks + by /\ c.v[Group].freeInodes = a.v[Group].freeInodes
      /\ c.v[Group].directories = a.v[Group].directories /\ AllBut(a.v, c.v, {Group})
  <2>1. Group \in {Super, Group} /\ "freeBlocks" \in {"freeBlocks", "freeInodes"} /\ by \in Int
    OBVIOUS
  <2>2. Adjusted(a.v, c.v, Group, "freeBlocks", by)
    BY <1>2, <1>3, <1>6, <2>1, AdjustShows
  <2> QED
    BY <2>2 DEF Adjusted
<1>8. /\ t.v[Super].freeBlocks = c.v[Super].freeBlocks + by /\ t.v[Super].freeInodes = c.v[Super].freeInodes
      /\ AllBut(c.v, t.v, {Super})
  <2>1. Super \in {Super, Group} /\ "freeBlocks" \in {"freeBlocks", "freeInodes"} /\ by \in Int
    OBVIOUS
  <2>2. Adjusted(c.v, t.v, Super, "freeBlocks", by)
    BY <1>3, <1>4, <1>6, <2>1, AdjustShows
  <2> QED
    BY <2>2 DEF Adjusted
<1>9. \A y \in Structure \ {BlockMap} : a.v[y] = s.v[y]
  BY <1>2 DEF HasPut
<1>10. /\ a.v[Super] = s.v[Super] /\ a.v[Group] = s.v[Group] /\ a.v[InodeMap] = s.v[InodeMap]
       /\ c.v[Super] = a.v[Super] /\ t.v[Group] = c.v[Group]
       /\ c.v[InodeMap] = a.v[InodeMap] /\ t.v[InodeMap] = c.v[InodeMap]
       /\ c.v[BlockMap] = a.v[BlockMap] /\ t.v[BlockMap] = c.v[BlockMap]
  BY <1>7, <1>8, <1>9, StructureIs, BuffersApart DEF AllBut
<1>11. t.v[BlockMap] = map
  BY <1>2, <1>10 DEF HasPut
<1>12. AllBut(s.v, t.v, {Super, Group, BlockMap})
  BY <1>7, <1>8, <1>9 DEF AllBut
<1>13. InodesKept(s.v, t.v)
  BY <1>7, <1>8, <1>10 DEF InodesKept
<1>14. BlockCount(s.v) => BlockCount(t.v)
  <2>1. /\ t.v[Super].freeBlocks = s.v[Super].freeBlocks + by
        /\ t.v[Group].freeBlocks = s.v[Group].freeBlocks + by
    BY <1>7, <1>8, <1>10
  <2>2. DiskBlocks \in Int /\ Cardinality(s.v[BlockMap]) \in Int
    BY DEF VolumeAssumption
  <2> QED
    BY <1>11, <2>1, <2>2 DEF BlockCount
<1>15. Same(s, t)
  BY <1>2, <1>3, <1>5, KeptOn
<1> QED
  BY <1>5, <1>11, <1>12, <1>13, <1>14, <1>15 DEF MapCounted

LEMMA BlockIsTaken ==
    ASSUME VolumeAssumption, NEW s, Sane(s), NEW t, t = AllocateBlock(s)
    PROVE  /\ Sane(t) /\ t.i = s.i
           /\ t.ok => s.ok /\ BlockTaken(s.v, t.v, t.got)
           /\ ~t.ok => t.v = s.v
<1>1. CASE ~s.ok \/ s.v[Super].freeBlocks = 0 \/ s.v[Group].freeBlocks = 0 \/ FreeBits(s) = {}
  <2>1. t = Refuse(s)
    BY <1>1 DEF AllocateBlock
  <2>2. t.v = s.v
    BY <2>1, FieldsIs DEF Refuse
  <2> QED
    BY <2>1, <2>2, RefuseIs DEF Kept
<1>2. CASE ~(~s.ok \/ s.v[Super].freeBlocks = 0 \/ s.v[Group].freeBlocks = 0 \/ FreeBits(s) = {})
  <2>1. PICK b : b = Min(FreeBits(s)) /\ b \in FreeBits(s)
    <3>1. FreeBits(s) \subseteq Nat
      BY DEF FreeBits, DiskBlock
    <3> QED
      BY <1>2, <3>1, LeastMember
  <2>2. PICK map : map = s.v[BlockMap] \cup {b}
    OBVIOUS
  <2>3. b \in DiskBlock /\ b \notin s.v[BlockMap] /\ s.v[BlockMap] \subseteq DiskBlock
    BY <2>1, ViewIs DEF FreeBits
  <2>4. Cardinality(map) = Cardinality(s.v[BlockMap]) + 1 /\ Cardinality(s.v[BlockMap]) \in Nat
    BY <2>2, <2>3, InodesFinite, FS_Subset, OneMoreUsed
  <2>5. PICK d : d = Adjust(Adjust(Put(s, BlockMap, map), Group, "freeBlocks", -1), Super, "freeBlocks", -1)
    OBVIOUS
  <2>6. Sane(d) /\ Same(s, d) /\ MapCounted(s.v, d.v, map)
    <3>1. map \in SUBSET DiskBlock /\ Cardinality(map) = Cardinality(s.v[BlockMap]) - (-1) /\ -1 \in Int /\ s.ok
      BY <1>2, <2>2, <2>3, <2>4
    <3> QED
      BY <2>4, <2>5, <3>1, BlockCounted
  <2>7. t = [d EXCEPT !.got = b]
    BY <1>2, <2>1, <2>2, <2>5 DEF AllocateBlock
  <2>8. Sane(t) /\ t.v = d.v /\ t.i = d.i /\ t.got = b /\ t.ok = d.ok
    BY <2>6, <2>7, FieldsIs
  <2>9. BlockTaken(s.v, t.v, t.got)
    BY <2>2, <2>3, <2>6, <2>8 DEF BlockTaken, MapCounted
  <2> QED
    BY <1>2, <2>6, <2>8, <2>9, ViewIs DEF Same, Sane
<1> QED
  BY <1>1, <1>2

LEMMA BlockIsGiven ==
    ASSUME VolumeAssumption, NEW s, Sane(s), s.ok, NEW b \in s.v[BlockMap], NEW t, t = FreeBlock(s, b)
    PROVE  Sane(t) /\ Same(s, t) /\ BlockGiven(s.v, t.v, b)
<1>1. PICK map : map = s.v[BlockMap] \ {b}
  OBVIOUS
<1>2. s.v[BlockMap] \subseteq DiskBlock
  BY ViewIs
<1>3. Cardinality(map) = Cardinality(s.v[BlockMap]) - 1 /\ Cardinality(s.v[BlockMap]) \in Nat
  BY <1>1, <1>2, InodesFinite, FS_Subset, OneFewerUsed
<1>4. t = Adjust(Adjust(Put(s, BlockMap, map), Group, "freeBlocks", 1), Super, "freeBlocks", 1)
  BY <1>1 DEF FreeBlock
<1>5. Sane(t) /\ Same(s, t) /\ MapCounted(s.v, t.v, map)
  <2>1. map \in SUBSET DiskBlock /\ 1 \in Int
    BY <1>1, <1>2
  <2> QED
    BY <1>3, <1>4, <2>1, BlockCounted
<1> QED
  BY <1>1, <1>5 DEF BlockGiven, MapCounted

(***************************************************************************)
(* The ledger while an operation works upon one inode.                     *)
(***************************************************************************)
With(N, x, r) == [N EXCEPT ![x] = r]
LEMMA WithIs ==
    ASSUME NEW N \in [Inode -> InodeRecord], NEW x \in Inode, NEW r \in InodeRecord
    PROVE  /\ With(N, x, r) \in [Inode -> InodeRecord] /\ With(N, x, r)[x] = r
           /\ \A j \in Inode \ {x} : With(N, x, r)[j] = N[j]
           /\ \A q : With(With(N, x, r), x, q) = With(N, x, q)
  BY DEF With

(* How one pointer of an inode, and the map, change together.              *)
OthersPoint(v, u, x, N) ==
    \A j \in Inode \ {x} : \A q \in Place : PointerAt(u, N[j], q) = PointerAt(v, N[j], q)
LEMMA SparedPoint ==
    ASSUME VolumeAssumption, NEW v, NEW u, NEW x, NEW N, Spares(v, u, x, N)
    PROVE  OthersPoint(v, u, x, N)
  BY UntouchedIs DEF Spares, OthersPoint, SamePointers

LEMMA BooksChange ==
    ASSUME VolumeAssumption, NEW v, NEW u, NEW N \in [Inode -> InodeRecord], NEW x \in Inode,
           NEW r \in InodeRecord, NEW q \in InodeRecord, OthersPoint(v, u, x, N),
           NEW p \in Place, \A o \in Place \ {p} : PointerAt(u, q, o) = PointerAt(v, r, o)
    PROVE  /\ OnePointer(Pointing(v, With(N, x, r)), Pointing(u, With(N, x, q)), x, p, PointerAt(u, q, p))
           /\ Pointing(v, With(N, x, r))[x][p] = PointerAt(v, r, p)
<1>1. PICK F, G : F = Pointing(v, With(N, x, r)) /\ G = Pointing(u, With(N, x, q))
  OBVIOUS
<1>2. /\ \A i \in Inode : \A o \in Place : F[i][o] = PointerAt(v, With(N, x, r)[i], o)
      /\ \A i \in Inode : \A o \in Place : G[i][o] = PointerAt(u, With(N, x, q)[i], o)
  BY <1>1, PointingIs
<1>3. /\ \A o \in Place : F[x][o] = PointerAt(v, r, o) /\ G[x][o] = PointerAt(u, q, o)
      /\ \A j \in Inode \ {x} : \A o \in Place : F[j][o] = PointerAt(v, N[j], o) /\ G[j][o] = PointerAt(u, N[j], o)
  BY <1>2, WithIs
<1>4. \A j \in Inode \ {x} : \A o \in Place : G[j][o] = F[j][o]
  BY <1>3 DEF OthersPoint
<1>5. \A o \in Place \ {p} : G[x][o] = F[x][o]
  BY <1>3
<1>6. OnePointer(F, G, x, p, PointerAt(u, q, p))
  BY <1>3, <1>4, <1>5 DEF OnePointer
<1> QED
  BY <1>1, <1>3, <1>6

LEMMA BooksGain ==
    ASSUME VolumeAssumption, NEW v, NEW u, NEW N \in [Inode -> InodeRecord], NEW x \in Inode,
           NEW r \in InodeRecord, NEW q \in InodeRecord, OthersPoint(v, u, x, N), Formed(v),
           NEW p \in Place, \A o \in Place \ {p} : PointerAt(u, q, o) = PointerAt(v, r, o),
           NEW tight, Books(v, With(N, x, r), tight), PointerAt(v, r, p) = 0,
           PointerAt(u, q, p) \in DiskBlock \ v[BlockMap],
           u[BlockMap] = v[BlockMap] \cup {PointerAt(u, q, p)}, BlockCount(u)
    PROVE  Books(u, With(N, x, q), tight)
<1>1. PICK F, G, U, b : /\ F = Pointing(v, With(N, x, r)) /\ G = Pointing(u, With(N, x, q))
                        /\ U = v[BlockMap] /\ b = PointerAt(u, q, p)
  OBVIOUS
<1>2. OnePointer(F, G, x, p, b) /\ F[x][p] = 0
  BY <1>1, BooksChange
<1>3. Owned(F, U) /\ (tight => Spent(F, U)) /\ b \notin U /\ b # 0 /\ 0 \notin U
  BY <1>1 DEF Books, Formed, DiskBlock
<1>4. Owned(G, U \cup {b}) /\ (Spent(F, U) => Spent(G, U \cup {b}))
  BY <1>2, <1>3, PointerGained
<1> QED
  BY <1>1, <1>3, <1>4 DEF Books

LEMMA BooksLose ==
    ASSUME VolumeAssumption, NEW v, NEW u, NEW N \in [Inode -> InodeRecord], NEW x \in Inode,
           NEW r \in InodeRecord, NEW q \in InodeRecord, OthersPoint(v, u, x, N),
           NEW p \in Place, \A o \in Place \ {p} : PointerAt(u, q, o) = PointerAt(v, r, o),
           NEW tight, Books(v, With(N, x, r), tight), PointerAt(v, r, p) # 0,
           PointerAt(u, q, p) = 0, u[BlockMap] = v[BlockMap] \ {PointerAt(v, r, p)}, BlockCount(u)
    PROVE  Books(u, With(N, x, q), tight)
<1>1. PICK F, G, U : /\ F = Pointing(v, With(N, x, r)) /\ G = Pointing(u, With(N, x, q))
                     /\ U = v[BlockMap]
  OBVIOUS
<1>2. OnePointer(F, G, x, p, 0) /\ F[x][p] = PointerAt(v, r, p)
  BY <1>1, BooksChange
<1>3. Owned(F, U) /\ (tight => Spent(F, U))
  BY <1>1 DEF Books
<1>4. Owned(G, U \ {F[x][p]}) /\ (Spent(F, U) => Spent(G, U \ {F[x][p]}))
  BY <1>2, <1>3, PointerLost
<1> QED
  BY <1>1, <1>2, <1>3, <1>4 DEF Books

LEMMA BooksStay ==
    ASSUME VolumeAssumption, NEW v, NEW u, NEW N \in [Inode -> InodeRecord], NEW x \in Inode,
           NEW r \in InodeRecord, NEW q \in InodeRecord, OthersPoint(v, u, x, N),
           SamePointers(v, r, u, q), NEW tight, Books(v, With(N, x, r), tight),
           u[BlockMap] = v[BlockMap], BlockCount(u)
    PROVE  Books(u, With(N, x, q), tight)
<1>1. PICK F, G : F = Pointing(v, With(N, x, r)) /\ G = Pointing(u, With(N, x, q))
  OBVIOUS
<1>2. /\ \A i \in Inode : \A o \in Place : F[i][o] = PointerAt(v, With(N, x, r)[i], o)
      /\ \A i \in Inode : \A o \in Place : G[i][o] = PointerAt(u, With(N, x, q)[i], o)
  BY <1>1, PointingIs
<1>3. /\ \A o \in Place : F[x][o] = PointerAt(v, r, o) /\ G[x][o] = PointerAt(u, q, o)
      /\ \A j \in Inode \ {x} : \A o \in Place : F[j][o] = PointerAt(v, N[j], o) /\ G[j][o] = PointerAt(u, N[j], o)
  BY <1>2, WithIs
<1>4. \A j \in Inode : \A o \in Place : G[j][o] = F[j][o]
  BY <1>3 DEF OthersPoint, SamePointers
<1>5. Owned(F, v[BlockMap]) /\ (tight => Spent(F, v[BlockMap]))
  BY <1>1 DEF Books
<1>6. Owned(G, v[BlockMap])
  BY <1>4, <1>5, PointersForgotten
<1>7. ASSUME tight, NEW b \in v[BlockMap]
      PROVE  \E i \in Inode : \E o \in Place : G[i][o] = b
  <2>1. PICK i \in Inode : \E o \in Place : F[i][o] = b
    BY <1>5, <1>7 DEF Spent
  <2>2. PICK o \in Place : F[i][o] = b
    BY <2>1
  <2>3. G[i][o] = b
    BY <1>4, <2>2
  <2> QED
    BY <2>3
<1>8. tight => Spent(G, v[BlockMap])
  BY <1>7 DEF Spent
<1> QED
  BY <1>1, <1>6, <1>8 DEF Books

LEMMA BooksForget ==
    ASSUME VolumeAssumption, NEW v, NEW u, NEW N \in [Inode -> InodeRecord], NEW x \in Inode,
           NEW r \in InodeRecord, NEW q \in InodeRecord, OthersPoint(v, u, x, N),
           \A p \in Place : PointerAt(u, q, p) = PointerAt(v, r, p) \/ PointerAt(u, q, p) = 0,
           NEW tight, Books(v, With(N, x, r), tight),
           u[BlockMap] = v[BlockMap], BlockCount(u)
    PROVE  Books(u, With(N, x, q), FALSE)
<1>1. PICK F, G : F = Pointing(v, With(N, x, r)) /\ G = Pointing(u, With(N, x, q))
  OBVIOUS
<1>2. /\ \A i \in Inode : \A o \in Place : F[i][o] = PointerAt(v, With(N, x, r)[i], o)
      /\ \A i \in Inode : \A o \in Place : G[i][o] = PointerAt(u, With(N, x, q)[i], o)
  BY <1>1, PointingIs
<1>3. /\ \A o \in Place : F[x][o] = PointerAt(v, r, o) /\ G[x][o] = PointerAt(u, q, o)
      /\ \A j \in Inode \ {x} : \A o \in Place : F[j][o] = PointerAt(v, N[j], o) /\ G[j][o] = PointerAt(u, N[j], o)
  BY <1>2, WithIs
<1>4. \A j \in Inode : \A o \in Place : G[j][o] = F[j][o] \/ G[j][o] = 0
  BY <1>3 DEF OthersPoint
<1>5. Owned(F, v[BlockMap])
  BY <1>1 DEF Books
<1>6. Owned(G, v[BlockMap])
  BY <1>4, <1>5, PointersForgotten
<1> QED
  BY <1>1, <1>6 DEF Books

(* An operation under way.                                                 *)
Under(s, x, N, tight) == Sane(s) /\ N \in [Inode -> InodeRecord] /\ x \in Inode /\ Books(s.v, With(N, x, s.i), tight)

(* A block newly taken is nobody's, and one that an inode points at is no  *)
(* other's.                                                                *)
NotOthers(v, x, N, b) == \A j \in Inode \ {x} : \A p \in Place : PointerAt(v, N[j], p) # b
LEMMA NobodyElse ==
    ASSUME VolumeAssumption, NEW s, NEW x, NEW N, NEW tight, Under(s, x, N, tight)
    PROVE  /\ \A b \in DiskBlock \ s.v[BlockMap] : /\ NotOthers(s.v, x, N, b)
                                                   /\ \A p \in Place : PointerAt(s.v, s.i, p) # b
           /\ \A p \in Place : PointerAt(s.v, s.i, p) # 0 =>
                 /\ PointerAt(s.v, s.i, p) \in s.v[BlockMap] /\ PointerAt(s.v, s.i, p) \in DiskBlock
                 /\ NotOthers(s.v, x, N, PointerAt(s.v, s.i, p))
                 /\ \A q \in Place \ {p} : PointerAt(s.v, s.i, q) # PointerAt(s.v, s.i, p)
<1>1. s.i \in InodeRecord /\ N \in [Inode -> InodeRecord] /\ x \in Inode
  BY DEF Under, Sane
<1>2. PICK M : M = With(N, x, s.i) /\ M[x] = s.i /\ \A j \in Inode \ {x} : M[j] = N[j]
  BY <1>1, WithIs
<1>3. /\ \A i \in Inode : \A p \in Place : PointerAt(s.v, M[i], p) # 0 => PointerAt(s.v, M[i], p) \in s.v[BlockMap]
      /\ \A i, j \in Inode : \A p, q \in Place :
            PointerAt(s.v, M[i], p) # 0 /\ PointerAt(s.v, M[i], p) = PointerAt(s.v, M[j], q) => i = j /\ p = q
  BY <1>2, BooksSay DEF Under
<1>4. /\ \A j \in Inode \ {x} : \A p \in Place : PointerAt(s.v, N[j], p) # 0 => PointerAt(s.v, N[j], p) \in s.v[BlockMap]
      /\ \A p \in Place : PointerAt(s.v, s.i, p) # 0 => PointerAt(s.v, s.i, p) \in s.v[BlockMap]
  BY <1>1, <1>2, <1>3
<1>5. /\ \A j \in Inode \ {x} : \A p, q \in Place :
            PointerAt(s.v, s.i, p) # 0 => PointerAt(s.v, s.i, p) # PointerAt(s.v, N[j], q)
      /\ \A p, q \in Place :
            PointerAt(s.v, s.i, p) # 0 /\ PointerAt(s.v, s.i, p) = PointerAt(s.v, s.i, q) => p = q
  BY <1>1, <1>2, <1>3
<1>6. 0 \notin DiskBlock /\ s.v[BlockMap] \subseteq DiskBlock
  BY ViewIs DEF DiskBlock, Under
<1>7. \A b \in DiskBlock \ s.v[BlockMap] : NotOthers(s.v, x, N, b) /\ \A p \in Place : PointerAt(s.v, s.i, p) # b
  BY <1>4, <1>6 DEF NotOthers
<1>8. ASSUME NEW p \in Place, PointerAt(s.v, s.i, p) # 0
      PROVE  /\ PointerAt(s.v, s.i, p) \in s.v[BlockMap] /\ PointerAt(s.v, s.i, p) \in DiskBlock
             /\ NotOthers(s.v, x, N, PointerAt(s.v, s.i, p))
             /\ \A q \in Place \ {p} : PointerAt(s.v, s.i, q) # PointerAt(s.v, s.i, p)
  BY <1>4, <1>5, <1>6, <1>8 DEF NotOthers
<1> QED
  BY <1>7, <1>8

SameShape(r, q) == q.kind = r.kind /\ q.links = r.links /\ q.size = r.size
InodesAside(v, u) == \A j \in Inode : u[Table(j)] = v[Table(j)]
BodyBut(v, r, u, q, X) ==
    \A k \in Indices \ X :
        /\ BlockAt(u, q, k) = BlockAt(v, r, k)
        /\ BlockAt(v, r, k) # 0 => u[Area(BlockAt(v, r, k))] = v[Area(BlockAt(v, r, k))]
Stepped(s, t, x, N, tight) ==
    /\ Under(t, x, N, tight) /\ Spares(s.v, t.v, x, N)
    /\ InodesAside(s.v, t.v) /\ SameShape(s.i, t.i)
LEMMA SteppedOn ==
    ASSUME VolumeAssumption, NEW s, NEW t, NEW u, NEW x, NEW N, NEW tight,
           Stepped(s, t, x, N, tight), Stepped(t, u, x, N, tight)
    PROVE  Stepped(s, u, x, N, tight)
<1>1. Spares(s.v, u.v, x, N)
  BY SparesOn DEF Stepped
<1>2. InodesAside(s.v, u.v) /\ SameShape(s.i, u.i)
  BY DEF Stepped, InodesAside, SameShape
<1> QED
  BY <1>1, <1>2 DEF Stepped

LEMMA BodyOn ==
    ASSUME NEW v, NEW r, NEW u, NEW q, NEW w, NEW o, NEW X, BodyBut(v, r, u, q, {}), BodyBut(u, q, w, o, X)
    PROVE  BodyBut(v, r, w, o, X)
  BY DEF BodyBut

(* A block taken, and pointed at from a place that had no pointer.         *)
PointerGiven(s, t, p, b, c) ==
    /\ p \in Place /\ PointerAt(s.v, s.i, p) = 0 /\ PointerAt(t.v, t.i, p) = b
    /\ \A q \in Place \ {p} : PointerAt(t.v, t.i, q) = PointerAt(s.v, s.i, q)
    /\ b \in DiskBlock \ s.v[BlockMap] /\ t.v[BlockMap] = s.v[BlockMap] \cup {b} /\ BlockCount(t.v)
    /\ AllBut(s.v, t.v, {Super, Group, BlockMap, Area(c)}) /\ InodesKept(s.v, t.v) /\ SameShape(s.i, t.i)
LEMMA BlockPointed ==
    ASSUME VolumeAssumption, NEW s, NEW x, NEW N, NEW tight, Under(s, x, N, tight),
           NEW c \in DiskBlock, NotOthers(s.v, x, N, c), NEW t, Sane(t),
           NEW p, NEW b, PointerGiven(s, t, p, b, c)
    PROVE  Stepped(s, t, x, N, tight)
<1>0. /\ p \in Place /\ PointerAt(s.v, s.i, p) = 0 /\ PointerAt(t.v, t.i, p) = b
      /\ \A q \in Place \ {p} : PointerAt(t.v, t.i, q) = PointerAt(s.v, s.i, q)
      /\ b \in DiskBlock \ s.v[BlockMap] /\ t.v[BlockMap] = s.v[BlockMap] \cup {b} /\ BlockCount(t.v)
      /\ AllBut(s.v, t.v, {Super, Group, BlockMap, Area(c)}) /\ InodesKept(s.v, t.v) /\ SameShape(s.i, t.i)
  BY DEF PointerGiven
<1>1. /\ s.i \in InodeRecord /\ t.i \in InodeRecord /\ N \in [Inode -> InodeRecord] /\ x \in Inode
      /\ Formed(s.v) /\ Books(s.v, With(N, x, s.i), tight)
  BY SaneIsFormed DEF Under, Sane
<1>2. Spares(s.v, t.v, x, N)
  BY <1>0, <1>1, OthersSpared DEF NotOthers
<1>3. OthersPoint(s.v, t.v, x, N)
  BY <1>2, SparedPoint
<1>4. Books(t.v, With(N, x, t.i), tight)
  BY <1>0, <1>1, <1>3, BooksGain
<1>5. InodesAside(s.v, t.v)
  <2>1. \A j \in Inode : Table(j) \in Structure \ {Super, Group, BlockMap, Area(c)}
    BY StructureIs, BuffersApart
  <2> QED
    BY <1>0, <2>1 DEF AllBut, InodesAside
<1> QED
  BY <1>0, <1>1, <1>2, <1>4, <1>5 DEF Stepped, Under

(* What the other places lead to.                                          *)
LEMMA BodyStays ==
    ASSUME VolumeAssumption, NEW s, NEW x, NEW N, NEW tight, Under(s, x, N, tight),
           NEW c \in DiskBlock, NEW t, NEW X,
           AllBut(s.v, t.v, {Super, Group, BlockMap, Area(c)}), t.i \in InodeRecord, Formed(t.v),
           \A k \in Indices \ X : /\ PointerAt(s.v, s.i, PlaceOf(k)) # c
                                  /\ PointerAt(t.v, t.i, PlaceOf(k)) = PointerAt(s.v, s.i, PlaceOf(k))
    PROVE  BodyBut(s.v, s.i, t.v, t.i, X)
<1>1. s.i \in InodeRecord /\ Formed(s.v)
  BY SaneIsFormed DEF Under, Sane
<1>2. ASSUME NEW k \in Indices \ X
      PROVE  /\ BlockAt(t.v, t.i, k) = BlockAt(s.v, s.i, k)
             /\ BlockAt(s.v, s.i, k) # 0 => t.v[Area(BlockAt(s.v, s.i, k))] = s.v[Area(BlockAt(s.v, s.i, k))]
  <2>1. BlockAt(t.v, t.i, k) = PointerAt(t.v, t.i, PlaceOf(k)) /\ BlockAt(s.v, s.i, k) = PointerAt(s.v, s.i, PlaceOf(k))
    BY <1>1, <1>2, PointerIs
  <2>2. PICK b : b = BlockAt(s.v, s.i, k)
    OBVIOUS
  <2>3. b # 0 => b \in DiskBlock /\ b # c
    BY <1>1, <1>2, <2>1, <2>2, PlaceOfIs, PointerIs
  <2>4. b # 0 => Area(b) \in Structure \ {Super, Group, BlockMap, Area(c)}
    BY <2>3, StructureIs, BuffersApart
  <2>5. b # 0 => t.v[Area(b)] = s.v[Area(b)]
    BY <2>4 DEF AllBut
  <2> QED
    BY <1>2, <2>1, <2>2, <2>5
<1> QED
  BY <1>2 DEF BodyBut

(* The table of an inode that has none.                                    *)
TableMade(s, t) ==
    /\ s.i.table = 0 /\ t.i.table \in DiskBlock /\ t.i = [s.i EXCEPT !.table = t.i.table]
    /\ \A p \in Place \ {0, 1} : PointerAt(t.v, t.i, p) = 0
LEMMA WithTableDoes ==
    ASSUME VolumeAssumption, NEW s, NEW x, NEW N, NEW tight, Under(s, x, N, tight), s.ok,
           NEW t, t = WithTable(s)
    PROVE  /\ Stepped(s, t, x, N, tight) /\ BodyBut(s.v, s.i, t.v, t.i, {})
           /\ t.ok => t.i.table # 0
           /\ (t.v = s.v /\ t.i = s.i) \/ (t.ok /\ TableMade(s, t))
           /\ s.v[BlockMap] \subseteq t.v[BlockMap]
<1>1. Sane(s) /\ s.i \in InodeRecord /\ Formed(s.v) /\ Books(s.v, With(N, x, s.i), tight)
  BY SaneIsFormed DEF Under, Sane
<1>2. Sane(t) /\ (t.ok => t.i.table # 0) /\ t.i \in InodeRecord /\ Formed(t.v)
  BY <1>1, WithTableIs, SaneIsFormed DEF Sane
<1>3. CASE t.v = s.v /\ t.i = s.i
  <2>1. Stepped(s, t, x, N, tight)
    BY <1>2, <1>3, SparesAll DEF Stepped, Under, InodesAside, SameShape
  <2> QED
    BY <1>2, <1>3, <2>1 DEF BodyBut
<1>4. CASE s.i.table # 0
  BY <1>3, <1>4 DEF WithTable
<1>5. CASE s.i.table = 0
  <2>1. PICK a : a = AllocateBlock(s)
    OBVIOUS
  <2>2. /\ Sane(a) /\ a.i = s.i /\ t = PutTable(a)
        /\ a.ok => BlockTaken(s.v, a.v, a.got)
        /\ ~a.ok => a.v = s.v
    BY <1>1, <1>5, <2>1, BlockIsTaken DEF WithTable
  <2>3. CASE ~a.ok
    BY <1>3, <2>2, <2>3 DEF PutTable
  <2>4. CASE a.ok
    <3>1. PICK b : b = a.got /\ b \in DiskBlock /\ b \notin s.v[BlockMap]
      BY <2>2, <2>4 DEF BlockTaken
    <3>2. PICK d : d = Put(a, Area(b), Pointers(NoPointers))
      OBVIOUS
    <3>3. Sane(d) /\ Same(a, d) /\ HasPut(a, d, Area(b), Pointers(NoPointers))
      <4>1. Pointers(NoPointers) \in Content
        BY EmptyIs, ContentIs
      <4>2. Area(b) \in Structure
        BY <3>1, StructureIs
      <4> QED
        BY <2>2, <2>4, <3>1, <3>2, <4>1, <4>2, PutAreaIs, PutShows
    <3>4. t = [d EXCEPT !.i.table = b]
      BY <2>2, <2>4, <3>1, <3>2 DEF PutTable
    <3>5. PICK q : q = [d.i EXCEPT !.table = b]
      OBVIOUS
    <3>6. q \in InodeRecord /\ q = [s.i EXCEPT !.table = b]
      BY <1>1, <2>2, <3>1, <3>3, <3>5, InodeIs DEF Same
    <3>7. t = [d EXCEPT !.i = q]
      BY <3>4, <3>5, <3>3 DEF Sane, Carried
    <3>8. t.v = d.v /\ t.i = q /\ t.ok
      <4>1. [d EXCEPT !.i = q].v = d.v /\ [d EXCEPT !.i = q].i = q /\ [d EXCEPT !.i = q].ok = d.ok
        BY <3>3, <3>6, FieldsIs
      <4>2. d.ok
        BY <2>4, <3>3 DEF Same
      <4> QED
        BY <3>7, <4>1, <4>2
    <3>9. /\ q.table = b /\ q.kind = s.i.kind /\ q.links = s.i.links /\ q.size = s.i.size /\ q.direct = s.i.direct
      BY <1>1, <3>6 DEF InodeRecord
    <3>10. AllBut(s.v, t.v, {Super, Group, BlockMap, Area(b)}) /\ t.v[Area(b)] = Pointers(NoPointers)
      BY <2>2, <2>4, <3>1, <3>3, <3>8 DEF BlockTaken, AllBut, HasPut
    <3>11. a.v[BlockMap] = t.v[BlockMap] /\ a.v[Super] = t.v[Super] /\ a.v[Group] = t.v[Group] /\ a.v[InodeMap] = t.v[InodeMap]
      BY <3>3, <3>8, StructureIs, BuffersApart DEF HasPut
    <3>12. /\ InodesKept(s.v, t.v) /\ BlockCount(t.v) /\ t.v[BlockMap] = s.v[BlockMap] \cup {b}
      BY <1>1, <2>2, <2>4, <3>1, <3>11 DEF BlockTaken, InodesKept, BlockCount, Books
    <3>13. \A p \in Place \ {0, 1} : PointerAt(t.v, t.i, p) = 0
      <4>1. TableOf(t.v, b) = NoPointers
        BY <3>10 DEF TableOf, Pointers
      <4>2. b # 0
        BY <3>1 DEF DiskBlock
      <4>3. \A p \in Place \ {0, 1} : p - 2 \in 0 .. PerTable - 1
        BY DEF Place, VolumeAssumption
      <4> QED
        BY <3>8, <3>9, <4>1, <4>2, <4>3 DEF PointerAt, NoPointers
    <3>14. \A p \in Place \ {1} : PointerAt(t.v, t.i, p) = PointerAt(s.v, s.i, p)
      BY <1>1, <1>2, <1>5, <3>8, <3>9, <3>13, PointerIs
    <3>15. PointerAt(s.v, s.i, 1) = 0 /\ PointerAt(t.v, t.i, 1) = b /\ 1 \in Place
      BY <1>1, <1>2, <1>5, <3>8, <3>9, PointerIs
    <3>16. NotOthers(s.v, x, N, b) /\ \A p \in Place : PointerAt(s.v, s.i, p) # b
      BY <3>1, NobodyElse
    <3>17. SameShape(s.i, t.i)
      BY <3>8, <3>9 DEF SameShape
    <3>18. Stepped(s, t, x, N, tight)
      <4>1. PointerGiven(s, t, 1, b, b)
        BY <3>1, <3>10, <3>12, <3>14, <3>15, <3>17 DEF PointerGiven
      <4> QED
        BY <1>2, <3>1, <3>16, <4>1, BlockPointed
    <3>19. BodyBut(s.v, s.i, t.v, t.i, {})
      <4>1. \A k \in Indices \ {} : /\ PointerAt(s.v, s.i, PlaceOf(k)) # b
                                  /\ PointerAt(t.v, t.i, PlaceOf(k)) = PointerAt(s.v, s.i, PlaceOf(k))
        BY <3>14, <3>16, PlaceOfIs
      <4> QED
        BY <1>2, <3>1, <3>10, <4>1, BodyStays
    <3>20. TableMade(s, t)
      BY <1>5, <3>1, <3>6, <3>8, <3>9, <3>13 DEF TableMade
    <3> QED
      BY <1>2, <3>8, <3>12, <3>18, <3>19, <3>20
  <2> QED
    BY <2>3, <2>4
<1> QED
  BY <1>4, <1>5

(* A block taken for a place of an inode that has what the place needs.    *)
NewAt(s, t, index) ==
    /\ t.got \in DiskBlock \ s.v[BlockMap] /\ BlockAt(t.v, t.i, index) = t.got
    /\ BodyBut(s.v, s.i, t.v, t.i, {index})
LEMMA PointerIsPut ==
    ASSUME VolumeAssumption, NEW s, NEW x, NEW N, NEW tight, Under(s, x, N, tight),
           NEW index \in Indices, BlockAt(s.v, s.i, index) = 0, index # 0 => s.i.table # 0,
           NEW a, a = AllocateBlock(s), NEW t, t = PutPointer(a, index)
    PROVE  /\ ~t.ok => t.v = s.v /\ t.i = s.i
           /\ t.ok => s.ok /\ Stepped(s, t, x, N, tight) /\ NewAt(s, t, index)
           /\ Sane(t)
<1>1. Sane(s) /\ s.i \in InodeRecord /\ Formed(s.v) /\ Books(s.v, With(N, x, s.i), tight)
  BY SaneIsFormed DEF Under, Sane
<1>2. /\ Sane(a) /\ a.i = s.i /\ (a.ok => s.ok /\ BlockTaken(s.v, a.v, a.got))
      /\ (~a.ok => a.v = s.v)
  BY <1>1, BlockIsTaken
<1>3. CASE ~a.ok
  <2>1. t = a
    BY <1>3 DEF PutPointer
  <2> QED
    BY <1>2, <1>3, <2>1
<1>4. CASE a.ok
  <2>1. PICK b : b = a.got /\ b \in DiskBlock /\ b \notin s.v[BlockMap] /\ b # 0
    BY <1>2, <1>4 DEF BlockTaken, DiskBlock
  <2>2. PICK p : p = PlaceOf(index) /\ p \in Place \ {1}
    BY PlaceOfIs
  <2>3. PointerAt(s.v, s.i, p) = 0
    BY <1>1, <2>2, PointerIs
  <2>4. AllBut(s.v, a.v, {Super, Group, BlockMap}) /\ a.v[BlockMap] = s.v[BlockMap] \cup {b}
        /\ InodesKept(s.v, a.v) /\ BlockCount(a.v)
    BY <1>1, <1>2, <1>4, <2>1 DEF BlockTaken, Books
  <2>5. NotOthers(s.v, x, N, b) /\ \A q \in Place : PointerAt(s.v, s.i, q) # b
    BY <2>1, NobodyElse
  <2>6. ASSUME Sane(t), t.got = b, t.ok, SameShape(s.i, t.i), NEW c \in DiskBlock, NotOthers(s.v, x, N, c),
               AllBut(a.v, t.v, {Area(c)}), \A k \in Indices \ {index} : PointerAt(s.v, s.i, PlaceOf(k)) # c,
               PointerAt(t.v, t.i, p) = b, \A q \in Place \ {p} : PointerAt(t.v, t.i, q) = PointerAt(s.v, s.i, q)
        PROVE  Stepped(s, t, x, N, tight) /\ NewAt(s, t, index)
    <3>1. AllBut(s.v, t.v, {Super, Group, BlockMap, Area(c)})
      BY <2>4, <2>6 DEF AllBut
    <3>2. t.v[BlockMap] = a.v[BlockMap] /\ t.v[Super] = a.v[Super] /\ t.v[Group] = a.v[Group] /\ t.v[InodeMap] = a.v[InodeMap]
      BY <2>6, StructureIs, BuffersApart DEF AllBut
    <3>3. t.v[BlockMap] = s.v[BlockMap] \cup {b} /\ InodesKept(s.v, t.v) /\ BlockCount(t.v)
      BY <2>4, <3>2 DEF InodesKept, BlockCount
    <3>4. Stepped(s, t, x, N, tight)
      <4>1. PointerGiven(s, t, p, b, c)
        BY <2>1, <2>2, <2>3, <2>6, <3>1, <3>3 DEF PointerGiven
      <4> QED
        BY <2>6, <4>1, BlockPointed
    <3>5. t.i \in InodeRecord /\ Formed(t.v)
      BY <2>6, SaneIsFormed DEF Sane
    <3>6. \A k \in Indices \ {index} : PlaceOf(k) \in Place \ {p}
      BY <2>2, PlaceOfIs
    <3>7. BodyBut(s.v, s.i, t.v, t.i, {index})
      BY <2>6, <3>1, <3>5, <3>6, BodyStays
    <3>8. BlockAt(t.v, t.i, index) = b
      BY <2>2, <2>6, <3>5, PointerIs
    <3> QED
      BY <2>1, <2>6, <3>4, <3>7, <3>8 DEF NewAt
  <2>7. CASE index = 0
    <3>1. t = [a EXCEPT !.i.direct = b] /\ p = 0
      BY <1>4, <2>1, <2>2, <2>7 DEF PutPointer, PlaceOf
    <3>2. PICK q : q = [a.i EXCEPT !.direct = b]
      OBVIOUS
    <3>3. q \in InodeRecord /\ q = [s.i EXCEPT !.direct = b]
      BY <1>1, <1>2, <2>1, <3>2, InodeIs
    <3>4. t = [a EXCEPT !.i = q]
      BY <1>2, <3>1, <3>2 DEF Sane, Carried
    <3>5. Sane(t) /\ t.v = a.v /\ t.i = q /\ t.ok /\ t.got = b
      <4>1. /\ Sane([a EXCEPT !.i = q]) /\ [a EXCEPT !.i = q].v = a.v /\ [a EXCEPT !.i = q].i = q
            /\ [a EXCEPT !.i = q].ok = a.ok /\ [a EXCEPT !.i = q].got = a.got
        BY <1>2, <3>3, FieldsIs
      <4> QED
        BY <1>4, <2>1, <3>4, <4>1
    <3>6. /\ q.direct = b /\ q.table = s.i.table /\ SameShape(s.i, q)
      BY <1>1, <3>3 DEF InodeRecord, SameShape
    <3>7. s.i.table # 0 => Area(s.i.table) \in Structure \ {Super, Group, BlockMap}
      BY <1>1, InodeIs, StructureIs, BuffersApart
    <3>8. s.i.table # 0 => TableOf(a.v, s.i.table) = TableOf(s.v, s.i.table)
      BY <2>4, <3>7 DEF TableOf, AllBut
    <3>9. \A o \in Place \ {p} : PointerAt(t.v, t.i, o) = PointerAt(s.v, s.i, o)
      BY <3>1, <3>5, <3>6, <3>8 DEF PointerAt
    <3>10. PointerAt(t.v, t.i, p) = b
      BY <3>1, <3>5, <3>6 DEF PointerAt
    <3>11. \A k \in Indices \ {index} : PointerAt(s.v, s.i, PlaceOf(k)) # b
      BY <2>5, PlaceOfIs
    <3>12. AllBut(a.v, t.v, {Area(b)})
      BY <3>5 DEF AllBut
    <3> QED
      BY <1>2, <1>4, <2>1, <2>5, <2>6, <3>5, <3>6, <3>9, <3>10, <3>11, <3>12
  <2>8. CASE index # 0
    <3>1. PICK c : c = s.i.table /\ c \in DiskBlock /\ c # 0
      BY <1>1, <2>8, InodeIs DEF DiskBlock
    <3>2. PICK row : row = [TableOf(a.v, c) EXCEPT ![index - 1] = b]
      OBVIOUS
    <3>3. t = Put(a, Area(c), Pointers(row))
      BY <1>2, <1>4, <2>1, <2>8, <3>1, <3>2 DEF PutPointer
    <3>7. TableOf(a.v, c) = TableOf(s.v, c) /\ TableOf(s.v, c) \in Rows
      <4>1. Area(c) \in Structure \ {Super, Group, BlockMap}
        BY <3>1, StructureIs, BuffersApart
      <4> QED
        BY <1>1, <2>4, <3>1, <4>1, TableFormed DEF TableOf, AllBut
    <3>4. Sane(t) /\ Same(a, t) /\ HasPut(a, t, Area(c), Pointers(row))
      <4>1. row \in Rows
        <5>1. b \in 0 .. DiskBlocks
          BY <2>1 DEF DiskBlock, VolumeAssumption
        <5>2. PICK f : f = TableOf(s.v, c) /\ f \in Rows
          BY <3>7
        <5>3. row = [f EXCEPT ![index - 1] = b]
          BY <3>2, <3>7, <5>2
        <5> QED
          BY <5>1, <5>2, <5>3 DEF Rows
      <4>2. Pointers(row) \in Content
        BY <4>1, ContentIs
      <4> QED
        BY <1>2, <1>4, <3>1, <3>3, <4>2, PutAnArea
    <3>5. AllBut(a.v, t.v, {Area(c)}) /\ t.v[Area(c)] = Pointers(row)
      BY <3>4 DEF AllBut, HasPut
    <3>6. t.i = s.i /\ t.ok /\ t.got = b
      BY <1>2, <1>4, <2>1, <3>4 DEF Same
    <3>8. index - 1 \in 0 .. PerTable - 1 /\ p - 2 = index - 1 /\ p \notin {0, 1}
      BY <2>2, <2>8, PlaceOfIs
    <3>9. TableOf(t.v, c) = row
      BY <3>5 DEF TableOf, Pointers
    <3>10. row[index - 1] = b /\ \A e \in 0 .. PerTable - 1 : e # index - 1 => row[e] = TableOf(s.v, c)[e]
      BY <3>2, <3>7, <3>8 DEF Rows
    <3>11. PointerAt(t.v, t.i, p) = b
      BY <3>1, <3>6, <3>8, <3>9, <3>10 DEF PointerAt
    <3>12. ASSUME NEW o \in Place \ {p}
           PROVE  PointerAt(t.v, t.i, o) = PointerAt(s.v, s.i, o)
      <4>1. CASE o \in {0, 1}
        BY <3>6, <4>1 DEF PointerAt
      <4>2. CASE o \notin {0, 1}
        <5>1. o - 2 \in 0 .. PerTable - 1 /\ o - 2 # index - 1
          BY <2>2, <3>8, <4>2 DEF Place, VolumeAssumption
        <5>2. row[o - 2] = TableOf(s.v, c)[o - 2]
          BY <3>10, <5>1
        <5> QED
          BY <3>1, <3>6, <3>9, <4>2, <5>2 DEF PointerAt
      <4> QED
        BY <4>1, <4>2
    <3>13. PointerAt(s.v, s.i, 1) = c /\ 1 \in Place
      BY <1>1, <3>1, PointerIs
    <3>14. NotOthers(s.v, x, N, c) /\ \A q \in Place \ {1} : PointerAt(s.v, s.i, q) # c
      BY <3>1, <3>13, NobodyElse
    <3>15. \A k \in Indices \ {index} : PointerAt(s.v, s.i, PlaceOf(k)) # c
      BY <3>14, PlaceOfIs
    <3>16. SameShape(s.i, t.i)
      BY <3>6 DEF SameShape
    <3> QED
      BY <1>2, <1>4, <2>6, <3>1, <3>4, <3>5, <3>6, <3>11, <3>12, <3>14, <3>15, <3>16
  <2> QED
    BY <2>7, <2>8
<1> QED
  BY <1>3, <1>4

(* Ext2InodeBlockAllocate.  Where it fails, at most an empty table is left *)
(* in memory.                                                              *)
LEMMA AllocateAtDoes ==
    ASSUME VolumeAssumption, NEW s, NEW x, NEW N, NEW tight, Under(s, x, N, tight), s.ok,
           NEW index \in Indices, NEW t, t = AllocateAt(s, index)
    PROVE  /\ Stepped(s, t, x, N, tight)
           /\ ~t.ok => /\ BlockAt(s.v, s.i, index) = 0 /\ BodyBut(s.v, s.i, t.v, t.i, {})
                       /\ (t.v = s.v /\ t.i = s.i) \/ TableMade(s, t)
           /\ t.ok /\ BlockAt(s.v, s.i, index) # 0 => t.v = s.v /\ t.i = s.i /\ t.got = BlockAt(s.v, s.i, index)
           /\ t.ok /\ BlockAt(s.v, s.i, index) = 0 => NewAt(s, t, index)
<1>1. Sane(s) /\ s.i \in InodeRecord /\ Formed(s.v)
  BY SaneIsFormed DEF Under, Sane
<1>2. ASSUME NEW u, Sane(u), u.v = s.v, u.i = s.i
      PROVE  Stepped(s, u, x, N, tight) /\ BodyBut(s.v, s.i, u.v, u.i, {})
  <2>1. Under(u, x, N, tight)
    BY <1>2 DEF Under
  <2> QED
    BY <1>2, <2>1, SparesAll DEF Stepped, InodesAside, SameShape, BodyBut
<1>3. CASE BlockAt(s.v, s.i, index) # 0
  <2>1. PICK k : k = BlockAt(s.v, s.i, index)
    OBVIOUS
  <2>3. t = Gets(s, k)
    BY <1>3, <2>1 DEF AllocateAt, Gets
  <2>2. Sane(t) /\ t.v = s.v /\ t.i = s.i /\ t.ok = s.ok /\ t.got = BlockAt(s.v, s.i, index)
    <3>1. Sane(t) /\ t.v = s.v /\ t.i = s.i /\ t.ok = s.ok /\ t.got = k
      <4>1. Gotten(s, t, k)
        BY <1>1, <2>3, GotIs
      <4> QED
        BY <4>1 DEF Gotten
    <3> QED
      BY <2>1, <3>1
  <2> QED
    BY <1>2, <1>3, <2>2
<1>4. CASE BlockAt(s.v, s.i, index) = 0
  <2>1. PICK a : a = IF index = 0 THEN s ELSE WithTable(s)
    OBVIOUS
  <2>2. t = PutPointer(AllocateBlock(a), index)
    BY <1>4, <2>1 DEF AllocateAt
  <2>3. /\ Stepped(s, a, x, N, tight) /\ BodyBut(s.v, s.i, a.v, a.i, {})
        /\ (a.v = s.v /\ a.i = s.i) \/ TableMade(s, a)
        /\ index # 0 /\ a.ok => a.i.table # 0
        /\ s.v[BlockMap] \subseteq a.v[BlockMap]
    BY <1>1, <1>2, <2>1, WithTableDoes
  <2>4. CASE ~a.ok
    <3>1. AllocateBlock(a) = Refuse(a)
      BY <2>4 DEF AllocateBlock
    <3>2. t = Refuse(a)
      BY <2>2, <2>4, <3>1, RefuseIs, <2>3 DEF PutPointer, Stepped, Under
    <3>3. Sane(t) /\ t.v = a.v /\ t.i = a.i /\ ~t.ok
      <4>1. Sane(a)
        BY <2>3 DEF Stepped, Under
      <4>2. t = [a EXCEPT !.ok = FALSE]
        BY <3>2 DEF Refuse
      <4> QED
        BY <4>1, <4>2, OkIs
    <3>4. Stepped(s, t, x, N, tight)
      BY <2>3, <3>3 DEF Stepped, Under
    <3>5. TableMade(s, a) => TableMade(s, t)
      BY <3>3 DEF TableMade
    <3> QED
      BY <1>4, <2>3, <3>3, <3>4, <3>5
  <2>5. CASE a.ok
    <3>1. Under(a, x, N, tight)
      BY <2>3 DEF Stepped
    <3>2. BlockAt(a.v, a.i, index) = 0
      BY <1>4, <2>3 DEF BodyBut
    <3>3. /\ ~t.ok => t.v = a.v /\ t.i = a.i
          /\ t.ok => Stepped(a, t, x, N, tight) /\ NewAt(a, t, index)
          /\ Sane(t)
      BY <2>2, <2>3, <2>5, <3>1, <3>2, PointerIsPut
    <3>4. CASE ~t.ok
      <4>1. Stepped(s, t, x, N, tight)
        BY <2>3, <3>3, <3>4 DEF Stepped, Under
      <4>2. TableMade(s, a) => TableMade(s, t)
        BY <3>3, <3>4 DEF TableMade
      <4> QED
        BY <1>4, <2>3, <3>3, <3>4, <4>1, <4>2
    <3>5. CASE t.ok
      <4>1. Stepped(s, t, x, N, tight)
        BY <2>3, <3>3, <3>5, SteppedOn
      <4>2. BodyBut(s.v, s.i, t.v, t.i, {index})
        BY <2>3, <3>3, <3>5, BodyOn DEF NewAt
      <4>3. s.v[BlockMap] \subseteq a.v[BlockMap]
        BY <2>3
      <4> QED
        BY <1>4, <3>3, <3>5, <4>1, <4>2, <4>3 DEF NewAt
    <3> QED
      BY <3>4, <3>5
  <2> QED
    BY <2>4, <2>5
<1> QED
  BY <1>3, <1>4

(* A block that the inode points at is put in.                             *)
LEMMA AreaRewritten ==
    ASSUME VolumeAssumption, NEW s, NEW x, NEW N, NEW tight, Under(s, x, N, tight), s.ok,
           NEW k \in Indices, NEW b, b = BlockAt(s.v, s.i, k), b # 0, NEW z \in Content, NEW t, t = Put(s, Area(b), z)
    PROVE  /\ Same(s, t) /\ HasPut(s, t, Area(b), z) /\ Stepped(s, t, x, N, tight)
           /\ BlockAt(t.v, t.i, k) = b /\ BodyBut(s.v, s.i, t.v, t.i, {k})
           /\ SamePointers(s.v, s.i, t.v, t.i)
<1>1. /\ Sane(s) /\ s.i \in InodeRecord /\ Formed(s.v) /\ Books(s.v, With(N, x, s.i), tight)
      /\ N \in [Inode -> InodeRecord] /\ x \in Inode
  BY SaneIsFormed DEF Under, Sane
<1>2. PICK p : p = PlaceOf(k) /\ p \in Place \ {1}
  BY PlaceOfIs
<1>3. PointerAt(s.v, s.i, p) = b
  BY <1>1, <1>2, PointerIs
<1>4. b \in DiskBlock /\ NotOthers(s.v, x, N, b) /\ \A q \in Place \ {p} : PointerAt(s.v, s.i, q) # b
  BY <1>2, <1>3, NobodyElse
<1>5. Sane(t) /\ Same(s, t) /\ HasPut(s, t, Area(b), z)
  BY <1>1, <1>4, PutAnArea
<1>6. t.i = s.i
  BY <1>5 DEF Same
<1>7. PointerAt(s.v, s.i, 1) = s.i.table /\ 1 \in Place
  BY <1>1, PointerIs
<1>8. s.i.table # 0 => Area(s.i.table) \in Structure \ {Area(b)}
  BY <1>1, <1>2, <1>4, <1>7, InodeIs, StructureIs, BuffersApart
<1>9. s.i.table # 0 => TableOf(t.v, s.i.table) = TableOf(s.v, s.i.table)
  BY <1>5, <1>8 DEF HasPut, TableOf
<1>10. SamePointers(s.v, s.i, t.v, t.i)
  BY <1>6, <1>9 DEF SamePointers, PointerAt
<1>11. AllBut(s.v, t.v, {Super, Group, BlockMap, Area(b)})
  BY <1>5 DEF HasPut, AllBut
<1>12. t.v[Super] = s.v[Super] /\ t.v[Group] = s.v[Group] /\ t.v[BlockMap] = s.v[BlockMap] /\ t.v[InodeMap] = s.v[InodeMap]
  BY <1>5, StructureIs, BuffersApart DEF HasPut
<1>13. InodesKept(s.v, t.v) /\ BlockCount(t.v)
  BY <1>1, <1>12 DEF InodesKept, BlockCount, Books
<1>14. Spares(s.v, t.v, x, N)
  BY <1>1, <1>4, <1>11, <1>13, OthersSpared DEF NotOthers
<1>15. Books(t.v, With(N, x, t.i), tight)
  BY <1>1, <1>6, <1>10, <1>12, <1>13, <1>14, SparedPoint, BooksStay
<1>16. InodesAside(s.v, t.v)
  <2>1. \A j \in Inode : Table(j) \in Structure \ {Area(b)}
    BY StructureIs, BuffersApart
  <2> QED
    BY <1>5, <2>1 DEF HasPut, InodesAside
<1>17. Stepped(s, t, x, N, tight)
  BY <1>1, <1>5, <1>6, <1>14, <1>15, <1>16 DEF Stepped, Under, SameShape
<1>18. Formed(t.v)
  BY <1>5, SaneIsFormed
<1>19. BodyBut(s.v, s.i, t.v, t.i, {k})
  <2>1. \A l \in Indices \ {k} : PlaceOf(l) \in Place \ {p}
    BY <1>2, PlaceOfIs
  <2>2. \A l \in Indices \ {k} : /\ PointerAt(s.v, s.i, PlaceOf(l)) # b
                                 /\ PointerAt(t.v, t.i, PlaceOf(l)) = PointerAt(s.v, s.i, PlaceOf(l))
    BY <1>4, <1>10, <2>1 DEF SamePointers
  <2> QED
    BY <1>1, <1>4, <1>6, <1>11, <1>18, <2>2, BodyStays
<1>20. BlockAt(t.v, t.i, k) = b
  <2>1. BlockAt(t.v, t.i, k) = PointerAt(t.v, t.i, p)
    BY <1>1, <1>2, <1>6, <1>18, PointerIs
  <2> QED
    BY <1>2, <1>3, <1>10, <2>1 DEF SamePointers
<1> QED
  BY <1>5, <1>10, <1>17, <1>19, <1>20

(* One inode of the table is written.                                      *)
InodeWritten(v, u, i, r) ==
    /\ InodeIn(u, i) = r /\ \A j \in Inode \ {i} : InodeIn(u, j) = InodeIn(v, j)
    /\ AllBut(v, u, {Table(i)})
LEMMA InodeIsWritten ==
    ASSUME NEW s, Sane(s), s.ok, NEW i \in Inode, NEW r \in InodeRecord, NEW t, t = WriteInode(s, i, r)
    PROVE  Sane(t) /\ Same(s, t) /\ InodeWritten(s.v, t.v, i, r)
<1>1. PICK f : f = s.v[Table(i)] /\ f \in [Beside(i) -> InodeRecord]
  BY ViewIs
<1>2. PICK z : z = [f EXCEPT ![i] = r]
  OBVIOUS
<1>3. t = Put(s, Table(i), z)
  BY <1>1, <1>2 DEF WriteInode
<1>4. HasPut(s, t, Table(i), z)
  BY <1>3, StructureIs, PutShows
<1>5. i \in Beside(i)
  BY DEF Beside
<1>6. InodeIn(t.v, i) = r
  BY <1>1, <1>2, <1>4, <1>5 DEF HasPut, InodeIn
<1>7. ASSUME NEW j \in Inode \ {i}
      PROVE  InodeIn(t.v, j) = InodeIn(s.v, j)
  <2>1. CASE Table(j) = Table(i)
    <3>1. j \in Beside(i)
      BY <2>1 DEF Beside
    <3> QED
      BY <1>1, <1>2, <1>4, <2>1, <3>1 DEF HasPut, InodeIn
  <2>2. CASE Table(j) # Table(i)
    BY <1>4, <2>2, StructureIs DEF HasPut, InodeIn
  <2> QED
    BY <2>1, <2>2
<1>8. AllBut(s.v, t.v, {Table(i)})
  BY <1>4 DEF HasPut, AllBut
<1> QED
  BY <1>6, <1>7, <1>8, WriteInodeIs DEF InodeWritten

(* The ledger does not depend on the inodes of the table.                  *)
AreasKept(v, u) == \A b \in DiskBlock : u[Area(b)] = v[Area(b)]
LEMMA AreasPoint ==
    ASSUME VolumeAssumption, NEW v, NEW u, AreasKept(v, u), Formed(v)
    PROVE  /\ \A r \in InodeRecord : Untouched(v, u, r) /\ SamePointers(v, r, u, r) /\ BodyBut(v, r, u, r, {})
           /\ \A x, N : N \in [Inode -> InodeRecord] => OthersPoint(v, u, x, N)
<1>1. ASSUME NEW r \in InodeRecord
      PROVE  Untouched(v, u, r) /\ SamePointers(v, r, u, r) /\ BodyBut(v, r, u, r, {})
  <2>1. Untouched(v, u, r)
    <3>1. \A p \in Place : PointerAt(v, r, p) # 0 => PointerAt(v, r, p) \in DiskBlock
      BY PointerIs
    <3> QED
      BY <3>1 DEF Untouched, AreasKept
  <2>2. SamePointers(v, r, u, r)
    BY <2>1, UntouchedIs
  <2>3. r.table # 0 => TableOf(u, r.table) = TableOf(v, r.table)
    BY InodeIs DEF AreasKept, TableOf
  <2>4. \A k \in Indices : BlockAt(u, r, k) = BlockAt(v, r, k)
    BY <2>3 DEF BlockAt
  <2>5. \A k \in Indices : BlockAt(v, r, k) # 0 => BlockAt(v, r, k) \in DiskBlock
    BY PointerIs
  <2>6. BodyBut(v, r, u, r, {})
    BY <2>4, <2>5 DEF BodyBut, AreasKept
  <2> QED
    BY <2>1, <2>2, <2>6
<1>2. ASSUME NEW x, NEW N, N \in [Inode -> InodeRecord]
      PROVE  OthersPoint(v, u, x, N)
  BY <1>1, <1>2 DEF OthersPoint, SamePointers
<1> QED
  BY <1>1, <1>2

LEMMA WrittenKeeps ==
    ASSUME NEW v, NEW u, NEW i \in Inode, NEW r, InodeWritten(v, u, i, r)
    PROVE  /\ AreasKept(v, u) /\ InodesKept(v, u) /\ BlocksKept(v, u)
           /\ u[Group] = v[Group] /\ u[Super] = v[Super]
<1>1. AllBut(v, u, {Table(i)})
  BY DEF InodeWritten
<1>2. \A b \in DiskBlock : Area(b) \in Structure \ {Table(i)}
  BY StructureIs, BuffersApart
<1>3. Super \in Structure \ {Table(i)} /\ Group \in Structure \ {Table(i)} /\ BlockMap \in Structure \ {Table(i)} /\ InodeMap \in Structure \ {Table(i)}
  BY StructureIs, BuffersApart
<1>4. u[Super] = v[Super] /\ u[Group] = v[Group] /\ u[BlockMap] = v[BlockMap] /\ u[InodeMap] = v[InodeMap]
  BY <1>1, <1>3 DEF AllBut
<1>5. AreasKept(v, u)
  BY <1>1, <1>2 DEF AllBut, AreasKept
<1> QED
  BY <1>4, <1>5 DEF InodesKept, BlocksKept

(* The ledger is of what is pointed at, whatever else a record says.       *)
LEMMA BooksSame ==
    ASSUME VolumeAssumption, NEW v, Formed(v), NEW u, NEW N \in [Inode -> InodeRecord], NEW x \in Inode,
           NEW r \in InodeRecord, NEW q \in InodeRecord, q.direct = r.direct, q.table = r.table,
           AreasKept(v, u), BlocksKept(v, u), NEW tight, Books(v, With(N, x, r), tight)
    PROVE  Books(u, With(N, x, q), tight)
<1>1. OthersPoint(v, u, x, N) /\ SamePointers(v, r, u, r)
  BY AreasPoint
<1>2. SamePointers(v, r, u, q)
  BY <1>1 DEF SamePointers, PointerAt
<1>3. u[BlockMap] = v[BlockMap] /\ BlockCount(u)
  BY DEF BlocksKept, BlockCount, Books
<1> QED
  BY <1>1, <1>2, <1>3, BooksStay

(* The work done for one inode: nothing else is touched.                   *)
Worked(s, t, x, N, tight) ==
    Under(t, x, N, tight) /\ Spares(s.v, t.v, x, N) /\ t.i.kind = s.i.kind /\ t.i.links = s.i.links
LEMMA WorkedOn ==
    ASSUME VolumeAssumption, NEW s, NEW t, NEW u, NEW x, NEW N, NEW tight
    PROVE  /\ Worked(s, t, x, N, tight) /\ Worked(t, u, x, N, tight) => Worked(s, u, x, N, tight)
           /\ Stepped(s, t, x, N, tight) => Worked(s, t, x, N, tight)
           /\ Under(s, x, N, tight) => Worked(s, s, x, N, tight)
<1>1. ASSUME Worked(s, t, x, N, tight), Worked(t, u, x, N, tight)
      PROVE  Worked(s, u, x, N, tight)
  <2>1. Spares(s.v, u.v, x, N)
    BY <1>1, SparesOn DEF Worked
  <2> QED
    BY <1>1, <2>1 DEF Worked
<1>2. Stepped(s, t, x, N, tight) => Worked(s, t, x, N, tight)
  BY DEF Stepped, Worked, SameShape
<1>3. Under(s, x, N, tight) => Worked(s, s, x, N, tight)
  BY SparesAll DEF Worked
<1> QED
  BY <1>1, <1>2, <1>3

(* The record of an inode in memory changed in what its pointers are not.  *)
LEMMA ShapeChanged ==
    ASSUME VolumeAssumption, NEW s, NEW x, NEW N, NEW tight, Under(s, x, N, tight), NEW r \in InodeRecord,
           r.direct = s.i.direct, r.table = s.i.table, NEW t, Sane(t), t.v = s.v, t.i = r
    PROVE  Under(t, x, N, tight)
<1>1. /\ Formed(s.v) /\ N \in [Inode -> InodeRecord] /\ x \in Inode /\ s.i \in InodeRecord
      /\ Books(s.v, With(N, x, s.i), tight)
  BY SaneIsFormed DEF Under, Sane
<1>2. AreasKept(s.v, t.v) /\ BlocksKept(s.v, t.v)
  BY DEF AreasKept, BlocksKept
<1>3. Books(t.v, With(N, x, t.i), tight)
  BY <1>1, <1>2, BooksSame
<1> QED
  BY <1>1, <1>3 DEF Under

(* A failed allocation leaves an inode as it was, or with an empty table   *)
(* in memory.                                                              *)
Refused(s, t) == (t.v = s.v /\ t.i = s.i) \/ TableMade(s, t)
LEMMA WriteBlockDoes ==
    ASSUME VolumeAssumption, NEW s, NEW x, NEW N, NEW tight, Under(s, x, N, tight), s.ok,
           NEW k \in Indices, NEW t, t = WriteBlock(s, x, k)
    PROVE  /\ Worked(s, t, x, N, tight) /\ InodesAside(s.v, t.v)
           /\ t.ok => t.i.size > 0
           /\ s.i.size > 0 => t.i.size > 0
           /\ ~t.ok => Refused(s, t)
<1>1. PICK b : b = AllocateAt(s, k)
  OBVIOUS
<1>2. /\ Stepped(s, b, x, N, tight) /\ (~b.ok => Refused(s, b))
      /\ b.ok => b.got = BlockAt(b.v, b.i, k) /\ b.got \in DiskBlock
  <2>1. b.ok => b.got \in DiskBlock
    BY <1>1, AllocateAtIs DEF Under
  <2>2. b.ok /\ BlockAt(s.v, s.i, k) = 0 => b.got = BlockAt(b.v, b.i, k)
    <3>1. b.ok /\ BlockAt(s.v, s.i, k) = 0 => NewAt(s, b, k)
      BY <1>1, AllocateAtDoes
    <3>2. NewAt(s, b, k) => b.got = BlockAt(b.v, b.i, k)
      BY DEF NewAt
    <3> QED
      BY <3>1, <3>2
  <2>3. b.ok /\ BlockAt(s.v, s.i, k) # 0 => b.got = BlockAt(b.v, b.i, k)
    BY <1>1, AllocateAtDoes
  <2>4. Stepped(s, b, x, N, tight) /\ (~b.ok => Refused(s, b))
    BY <1>1, AllocateAtDoes DEF Refused
  <2> QED
    BY <2>1, <2>2, <2>3, <2>4
<1>3. t = PutData(b, x, k)
  BY <1>1 DEF WriteBlock
<1>4. InodesAside(s.v, b.v) /\ SameShape(s.i, b.i) /\ Under(b, x, N, tight)
  BY <1>2 DEF Stepped
<1>5. CASE ~b.ok
  <2>1. t = b
    BY <1>3, <1>5 DEF PutData
  <2> QED
    BY <1>2, <1>4, <1>5, <2>1, WorkedOn DEF SameShape
<1>6. CASE b.ok
  <2>1. PICK c : c = Put(b, Area(b.got), Data(x))
    OBVIOUS
  <2>2. Same(b, c) /\ Stepped(b, c, x, N, tight)
    <3>1. Data(x) \in Content /\ b.got # 0
      BY <1>2, <1>4, <1>6, ContentIs DEF Under, DiskBlock
    <3>2. PICK g, z : g = b.got /\ z = Data(x)
      OBVIOUS
    <3>3. g = BlockAt(b.v, b.i, k) /\ g # 0 /\ z \in Content /\ c = Put(b, Area(g), z)
      BY <1>2, <1>6, <2>1, <3>1, <3>2
    <3> QED
      BY <1>4, <1>6, <3>3, AreaRewritten
  <2>3. Stepped(s, c, x, N, tight)
    BY <1>2, <2>2, SteppedOn
  <2>4. c.i \in InodeRecord /\ c.i.size \in 0 .. PerTable + 1 /\ Sane(c) /\ Under(c, x, N, tight)
    <3>1. c.i \in InodeRecord /\ Sane(c)
      BY <2>3 DEF Sane, Stepped, Under
    <3> QED
      BY <2>3, <3>1, InodeIs DEF Stepped
  <2>5. PICK n : n = Max({c.i.size, k + 1}) /\ n \in 0 .. PerTable + 1 /\ n > 0
    <3>1. {c.i.size, k + 1} \subseteq 0 .. PerTable + 1 /\ PerTable + 1 \in Nat
      BY <2>4 DEF Indices, VolumeAssumption
    <3>2. Max({c.i.size, k + 1}) \in {c.i.size, k + 1} /\ Max({c.i.size, k + 1}) >= k + 1
      BY <3>1, GreatestMember
    <3>3. k + 1 > 0 /\ k \in Int /\ c.i.size \in Int
      BY <2>4 DEF Indices, VolumeAssumption
    <3> QED
      BY <3>1, <3>2, <3>3
  <2>6. PICK r : r = [c.i EXCEPT !.size = n] /\ r \in InodeRecord
    BY <2>4, <2>5, InodeIs
  <2>7. t = HasInHand(c, r)
    BY <1>3, <1>6, <2>1, <2>4, <2>5, <2>6 DEF PutData, HasInHand, Sane, Carried
  <2>8. Sane(t) /\ t.v = c.v /\ t.i = r
    BY <2>4, <2>6, <2>7, InHandIs
  <2>9. r.size = n /\ r.direct = c.i.direct /\ r.table = c.i.table /\ r.kind = c.i.kind /\ r.links = c.i.links
    BY <2>4, <2>6 DEF InodeRecord
  <2>10. Under(t, x, N, tight)
    BY <2>4, <2>6, <2>8, <2>9, ShapeChanged
  <2>11. Worked(s, t, x, N, tight)
    BY <2>3, <2>8, <2>9, <2>10 DEF Worked, Stepped, SameShape
  <2>12. InodesAside(s.v, t.v)
    BY <2>3, <2>8 DEF Stepped
  <2>13. t.ok
    <3>1. c.ok
      BY <1>6, <2>2 DEF Same
    <3> QED
      BY <2>4, <2>6, <2>7, <3>1, InHandIs
  <2> QED
    BY <2>5, <2>8, <2>9, <2>11, <2>12, <2>13
<1> QED
  BY <1>5, <1>6

LEMMA WrittenInTurn ==
    ASSUME VolumeAssumption, NEW s, NEW i, NEW index, NEW count \in 1 .. 2, NEW first, first = WriteBlock(s, i, index),
           first.ok
    PROVE  \E a : /\ WriteBlocks(s, i, index, count) = PutInode(a, i)
                  /\ a = IF count = 1 THEN first ELSE WriteBlock(first, i, index + 1)
<1> DEFINE Way(f) == f = [k \in 0 .. count - 1 |-> IF k = 0 THEN first ELSE WriteBlock(f[k - 1], i, index + k)]
<1>1. \E f : Way(f)
  <2>1. PICK f : f = [k \in 0 .. count - 1 |-> IF k = 0 THEN first ELSE WriteBlock(first, i, index + 1)]
    OBVIOUS
  <2>2. \A k \in 0 .. count - 1 : k # 0 => k = 1 /\ f[k - 1] = first
    BY <2>1
  <2>3. \A k \in 0 .. count - 1 : f[k] = IF k = 0 THEN first ELSE WriteBlock(f[k - 1], i, index + k)
    BY <2>1, <2>2
  <2>4. f = [k \in 0 .. count - 1 |-> IF k = 0 THEN first ELSE WriteBlock(f[k - 1], i, index + k)]
    BY <2>1, <2>3
  <2> QED
    BY <2>4
<1> HIDE DEF Way
<1>2. PICK f : f = CHOOSE g : Way(g)
  OBVIOUS
<1>3. Way(f)
  BY <1>1, <1>2
<1>4. WriteBlocks(s, i, index, count) = PutInode(f[count - 1], i)
  BY <1>2 DEF WriteBlocks, WriteMore, Way
<1>5. f[count - 1] = IF count = 1 THEN first ELSE WriteBlock(first, i, index + 1)
  <2>1. CASE count = 1
    BY <1>3, <2>1 DEF Way
  <2>2. CASE count = 2
    <3>1. f[0] = first
      BY <1>3, <2>2 DEF Way
    <3>2. f[1] = WriteBlock(f[0], i, index + 1)
      BY <1>3, <2>2 DEF Way
    <3> QED
      BY <2>2, <3>1, <3>2
  <2> QED
    BY <2>1, <2>2
<1> QED
  BY <1>4, <1>5

(* The inode written as it is in memory.                                   *)
LEMMA ItselfWritten ==
    ASSUME VolumeAssumption, NEW s, NEW x, NEW N, NEW tight, Under(s, x, N, tight), NEW t, Sane(t), t.i = s.i,
           InodeWritten(s.v, t.v, x, s.i)
    PROVE  Worked(s, t, x, N, tight) /\ InodeIn(t.v, x) = t.i
<1>1. /\ Formed(s.v) /\ N \in [Inode -> InodeRecord] /\ x \in Inode /\ s.i \in InodeRecord
      /\ Books(s.v, With(N, x, s.i), tight)
  BY SaneIsFormed DEF Under, Sane
<1>2. AreasKept(s.v, t.v) /\ BlocksKept(s.v, t.v) /\ InodesKept(s.v, t.v)
  BY <1>1, WrittenKeeps
<1>3. Books(t.v, With(N, x, t.i), tight)
  BY <1>1, <1>2, BooksSame
<1>4. \A j \in Inode \ {x} : InodeIn(t.v, j) = InodeIn(s.v, j) /\ Untouched(s.v, t.v, N[j])
  BY <1>1, <1>2, AreasPoint DEF InodeWritten
<1>5. Spares(s.v, t.v, x, N)
  BY <1>2, <1>4 DEF Spares
<1> QED
  BY <1>1, <1>3, <1>5 DEF Worked, Under, InodeWritten

(* Ext2WriteFile: the inode on the volume is as in memory once a block was *)
(* written, and has one.                                                   *)
LEMMA WriteBlocksDoes ==
    ASSUME VolumeAssumption, NEW s, NEW x, NEW N, NEW tight, Under(s, x, N, tight), s.ok,
           NEW index \in Indices, NEW count \in 1 .. 2, index + count <= PerTable + 1,
           NEW t, t = WriteBlocks(s, x, index, count)
    PROVE  /\ Worked(s, t, x, N, tight)
           /\ \/ InodeIn(t.v, x) = t.i /\ t.i.size > 0
              \/ ~t.ok /\ InodesAside(s.v, t.v) /\ Refused(s, t)
<1>1. PICK first : first = WriteBlock(s, x, index)
  OBVIOUS
<1>2. /\ Worked(s, first, x, N, tight) /\ InodesAside(s.v, first.v)
      /\ first.ok => first.i.size > 0
      /\ ~first.ok => Refused(s, first)
  BY <1>1, WriteBlockDoes
<1>3. CASE ~first.ok
  <2>1. t = first
    BY <1>1, <1>3 DEF WriteBlocks, WriteMore
  <2> QED
    BY <1>2, <1>3, <2>1
<1>4. CASE first.ok
  <2>1. PICK a : t = PutInode(a, x) /\ a = IF count = 1 THEN first ELSE WriteBlock(first, x, index + 1)
    BY <1>1, <1>4, WrittenInTurn
  <2>2. Worked(s, a, x, N, tight) /\ a.i.size > 0
    <3>1. CASE count = 1
      BY <1>2, <1>4, <2>1, <3>1
    <3>2. CASE count = 2
      <4>1. index + 1 \in Indices
        BY <3>2 DEF Indices, VolumeAssumption
      <4>2. Under(first, x, N, tight) /\ a = WriteBlock(first, x, index + 1)
        BY <1>2, <2>1, <3>2 DEF Worked
      <4>3. Worked(first, a, x, N, tight) /\ a.i.size > 0
        BY <1>2, <1>4, <4>1, <4>2, WriteBlockDoes
      <4> QED
        BY <1>2, <4>3, WorkedOn
    <3> QED
      BY <3>1, <3>2
  <2>3. Under(a, x, N, tight) /\ Sane(a) /\ a.i \in InodeRecord /\ x \in Inode /\ a.ok \in BOOLEAN
    BY <2>2 DEF Worked, Under, Sane
  <2>4. PICK b : b = [a EXCEPT !.ok = TRUE] /\ Sane(b) /\ b.v = a.v /\ b.i = a.i /\ b.ok
    BY <2>3, OkIs
  <2>5. PICK c : c = WriteInode(b, x, a.i) /\ Sane(c) /\ Same(b, c) /\ InodeWritten(b.v, c.v, x, a.i)
    BY <2>3, <2>4, InodeIsWritten
  <2>6. t = [c EXCEPT !.ok = a.ok]
    BY <2>1, <2>4, <2>5 DEF PutInode
  <2>7. Sane(t) /\ t.v = c.v /\ t.i = c.i
    BY <2>3, <2>5, <2>6, OkIs
  <2>8. t.i = a.i /\ InodeWritten(a.v, t.v, x, a.i)
    BY <2>4, <2>5, <2>7 DEF Same
  <2>9. Worked(a, t, x, N, tight) /\ InodeIn(t.v, x) = t.i
    BY <2>3, <2>7, <2>8, ItselfWritten
  <2> QED
    BY <2>2, <2>8, <2>9, WorkedOn
<1> QED
  BY <1>3, <1>4

(* A block freed, and the pointer to it cleared, which is in the block c or *)
(* leads to it.                                                            *)
PointerFreed(s, t, p, c) ==
    /\ p \in Place /\ PointerAt(s.v, s.i, p) # 0 /\ PointerAt(t.v, t.i, p) = 0
    /\ \A q \in Place \ {p} : PointerAt(t.v, t.i, q) = PointerAt(s.v, s.i, q)
    /\ t.v[BlockMap] = s.v[BlockMap] \ {PointerAt(s.v, s.i, p)} /\ BlockCount(t.v)
    /\ AllBut(s.v, t.v, {Super, Group, BlockMap, Area(c)}) /\ InodesKept(s.v, t.v)

LEMMA BlockFreed ==
    ASSUME VolumeAssumption, NEW s, NEW x, NEW N, NEW tight, Under(s, x, N, tight),
           NEW c \in DiskBlock, NotOthers(s.v, x, N, c), NEW t, Sane(t), NEW p, PointerFreed(s, t, p, c)
    PROVE  Under(t, x, N, tight) /\ Spares(s.v, t.v, x, N) /\ InodesAside(s.v, t.v)
<1>0. /\ p \in Place /\ PointerAt(s.v, s.i, p) # 0 /\ PointerAt(t.v, t.i, p) = 0
      /\ \A q \in Place \ {p} : PointerAt(t.v, t.i, q) = PointerAt(s.v, s.i, q)
      /\ t.v[BlockMap] = s.v[BlockMap] \ {PointerAt(s.v, s.i, p)} /\ BlockCount(t.v)
      /\ AllBut(s.v, t.v, {Super, Group, BlockMap, Area(c)}) /\ InodesKept(s.v, t.v)
  BY DEF PointerFreed
<1>1. /\ s.i \in InodeRecord /\ t.i \in InodeRecord /\ N \in [Inode -> InodeRecord] /\ x \in Inode
      /\ Formed(s.v) /\ Books(s.v, With(N, x, s.i), tight)
  BY SaneIsFormed DEF Under, Sane
<1>2. Spares(s.v, t.v, x, N)
  BY <1>0, <1>1, OthersSpared DEF NotOthers
<1>3. OthersPoint(s.v, t.v, x, N)
  BY <1>2, SparedPoint
<1>4. Books(t.v, With(N, x, t.i), tight)
  BY <1>0, <1>1, <1>3, BooksLose
<1>5. InodesAside(s.v, t.v)
  <2>1. \A j \in Inode : Table(j) \in Structure \ {Super, Group, BlockMap, Area(c)}
    BY StructureIs, BuffersApart
  <2> QED
    BY <1>0, <2>1 DEF AllBut, InodesAside
<1> QED
  BY <1>1, <1>2, <1>4, <1>5 DEF Under

(* Some pointers cleared, their blocks free, and nothing else altered.     *)
Freed(s, t, x, N, tight, X) ==
    /\ t.ok /\ t.i = s.i /\ Under(t, x, N, tight) /\ Spares(s.v, t.v, x, N) /\ InodesAside(s.v, t.v)
    /\ \A p \in Place : PointerAt(t.v, t.i, p) = IF p \in X THEN 0 ELSE PointerAt(s.v, s.i, p)
LEMMA FreedOn ==
    ASSUME VolumeAssumption, NEW s, NEW t, NEW u, NEW x, NEW N, NEW tight, NEW X, NEW Y,
           Freed(s, t, x, N, tight, X), Freed(t, u, x, N, tight, Y)
    PROVE  Freed(s, u, x, N, tight, X \cup Y)
<1>1. Spares(s.v, u.v, x, N)
  BY SparesOn DEF Freed
<1>2. InodesAside(s.v, u.v)
  BY DEF Freed, InodesAside
<1>3. \A p \in Place : PointerAt(u.v, u.i, p) = IF p \in X \cup Y THEN 0 ELSE PointerAt(s.v, s.i, p)
  BY DEF Freed
<1> QED
  BY <1>1, <1>2, <1>3 DEF Freed

LEMMA FreeEntryDoes ==
    ASSUME VolumeAssumption, NEW s, NEW x, NEW N, NEW tight, Under(s, x, N, tight), s.ok, s.i.table # 0,
           NEW e \in 0 .. PerTable - 1, NEW t, t = FreeEntry(s, e)
    PROVE  Freed(s, t, x, N, tight, {e + 2})
<1>1. Sane(s) /\ s.i \in InodeRecord /\ Formed(s.v) /\ Books(s.v, With(N, x, s.i), tight)
  BY SaneIsFormed DEF Under, Sane
<1>2. PICK c : c = s.i.table /\ c \in DiskBlock /\ c # 0
  BY <1>1, InodeIs
<1>3. PICK row : row = TableOf(s.v, c) /\ row \in Rows
  BY <1>1, <1>2, TableFormed
<1>4. PICK p : p = e + 2 /\ p \in Place \ {0, 1} /\ p - 2 = e
  BY DEF Place, VolumeAssumption
<1>5. PointerAt(s.v, s.i, p) = row[e]
  BY <1>2, <1>3, <1>4 DEF PointerAt
<1>6. PICK b : b = row[e]
  OBVIOUS
<1>7. CASE b = 0
  <2>1. t = s
    BY <1>2, <1>3, <1>6, <1>7 DEF FreeEntry
  <2> QED
    BY <1>4, <1>5, <1>6, <1>7, <2>1, SparesAll DEF Freed, InodesAside
<1>8. CASE b # 0
  <2>1. b \in s.v[BlockMap]
    BY <1>4, <1>5, <1>6, <1>8, NobodyElse
  <2>2. PICK a : a = FreeBlock(s, b) /\ Sane(a) /\ Same(s, a) /\ BlockGiven(s.v, a.v, b)
    BY <1>1, <2>1, BlockIsGiven
  <2>3. Area(c) \in Structure \ {Super, Group, BlockMap}
    BY <1>2, StructureIs, BuffersApart
  <2>4. TableOf(a.v, c) = row
    BY <1>3, <2>2, <2>3 DEF BlockGiven, AllBut, TableOf
  <2>5. PICK new : new = [row EXCEPT ![e] = 0]
    OBVIOUS
  <2>6. new \in Rows
    <3>1. 0 \in 0 .. DiskBlocks
      BY DEF VolumeAssumption
    <3> QED
      BY <1>3, <2>5, <3>1 DEF Rows
  <2>7. a.i = s.i /\ a.ok
    BY <2>2 DEF Same
  <2>8. t = Put(a, Area(c), Pointers(new))
    BY <1>2, <1>3, <1>6, <1>8, <2>2, <2>5, <2>7 DEF FreeEntry
  <2>9. Pointers(new) \in Content
    BY <2>6, ContentIs
  <2>10. Sane(t) /\ Same(a, t) /\ HasPut(a, t, Area(c), Pointers(new))
    BY <1>2, <2>2, <2>7, <2>8, <2>9, PutAnArea
  <2>11. t.i = s.i /\ t.ok
    BY <2>7, <2>10 DEF Same
  <2>12. AllBut(s.v, t.v, {Super, Group, BlockMap, Area(c)})
    BY <2>2, <2>10 DEF BlockGiven, AllBut, HasPut
  <2>13. /\ t.v[BlockMap] = a.v[BlockMap] /\ t.v[Super] = a.v[Super] /\ t.v[Group] = a.v[Group]
         /\ t.v[InodeMap] = a.v[InodeMap]
    BY <2>10, StructureIs, BuffersApart DEF HasPut
  <2>14. t.v[BlockMap] = s.v[BlockMap] \ {b} /\ InodesKept(s.v, t.v) /\ BlockCount(t.v)
    BY <1>1, <2>2, <2>13 DEF BlockGiven, InodesKept, BlockCount, Books
  <2>15. TableOf(t.v, c) = new
    BY <2>10 DEF HasPut, TableOf, Pointers
  <2>16. new[e] = 0 /\ \A l \in 0 .. PerTable - 1 : l # e => new[l] = row[l]
    BY <1>3, <2>5 DEF Rows
  <2>17. PointerAt(t.v, t.i, p) = 0
    BY <1>2, <1>4, <2>11, <2>15, <2>16 DEF PointerAt
  <2>18. ASSUME NEW o \in Place \ {p}
         PROVE  PointerAt(t.v, t.i, o) = PointerAt(s.v, s.i, o)
    <3>1. CASE o \in {0, 1}
      BY <2>11, <3>1 DEF PointerAt
    <3>2. CASE o \notin {0, 1}
      <4>1. o - 2 \in 0 .. PerTable - 1 /\ o - 2 # e
        BY <1>4, <3>2 DEF Place, VolumeAssumption
      <4>2. new[o - 2] = row[o - 2]
        BY <2>16, <4>1
      <4> QED
        BY <1>2, <1>3, <2>11, <2>15, <3>2, <4>2 DEF PointerAt
    <3> QED
      BY <3>1, <3>2
  <2>19. PointerAt(s.v, s.i, 1) = c /\ 1 \in Place
    BY <1>1, <1>2, PointerIs
  <2>20. NotOthers(s.v, x, N, c)
    BY <1>2, <2>19, NobodyElse
  <2>21. Under(t, x, N, tight) /\ Spares(s.v, t.v, x, N) /\ InodesAside(s.v, t.v)
    <3>1. PointerFreed(s, t, p, c)
      BY <1>4, <1>5, <1>6, <1>8, <2>12, <2>14, <2>17, <2>18 DEF PointerFreed
    <3> QED
      BY <1>2, <2>10, <2>20, <3>1, BlockFreed
  <2> QED
    BY <1>4, <2>11, <2>17, <2>18, <2>21 DEF Freed
<1> QED
  BY <1>7, <1>8

(* The places of the table's pointers before the k-th.                     *)
PlacesTo(k) == {e + 2 : e \in 0 .. k - 1}
LEMMA PlacesToIs ==
    ASSUME VolumeAssumption
    PROVE  /\ PlacesTo(0) = {}
           /\ \A p \in Place : p \in PlacesTo(PerTable) <=> p \notin {0, 1}
           /\ \A k \in 1 .. PerTable : PlacesTo(k) = PlacesTo(k - 1) \cup {(k - 1) + 2}
<1>1. PerTable \in Nat /\ PerTable # 0
  BY DEF VolumeAssumption
<1>2. PlacesTo(0) = {}
  BY DEF PlacesTo
<1>3. ASSUME NEW k \in 1 .. PerTable
      PROVE  PlacesTo(k) = PlacesTo(k - 1) \cup {(k - 1) + 2}
  <2>1. \A e : e \in 0 .. k - 1 <=> e \in 0 .. (k - 1) - 1 \/ e = k - 1
    BY <1>1
  <2> QED
    BY <2>1 DEF PlacesTo
<1>4. ASSUME NEW p \in Place
      PROVE  p \in PlacesTo(PerTable) <=> p \notin {0, 1}
  <2>1. p \notin {0, 1} => p - 2 \in 0 .. PerTable - 1 /\ (p - 2) + 2 = p
    BY <1>1 DEF Place
  <2>2. p \in PlacesTo(PerTable) => p \notin {0, 1}
    BY <1>1 DEF PlacesTo
  <2> QED
    BY <2>1, <2>2 DEF PlacesTo
<1> QED
  BY <1>2, <1>3, <1>4

LEMMA FreeEntriesDoes ==
    ASSUME VolumeAssumption, NEW s, NEW x, NEW N, NEW tight, Under(s, x, N, tight), s.ok, s.i.table # 0,
           NEW t, t = FreeEntries(s)
    PROVE  Freed(s, t, x, N, tight, Place \ {0, 1})
<1>1. PICK f : /\ f = [k \in 0 .. PerTable |-> IF k = 0 THEN s ELSE FreeEntry(f[k - 1], k - 1)]
               /\ FreeEntries(s) = f[PerTable]
  BY FreedOneByOne
<1>2. PerTable \in Nat
  BY DEF VolumeAssumption
<1>3. f[0] = s /\ \A k \in 1 .. PerTable : f[k] = FreeEntry(f[k - 1], k - 1)
  BY <1>1, <1>2
<1>4. PICK bad : bad = {k \in 0 .. PerTable : ~Freed(s, f[k], x, N, tight, PlacesTo(k))}
  OBVIOUS
<1>5. ASSUME bad # {}
      PROVE  FALSE
  <2>1. PICK k \in bad : \A m \in bad : k <= m
    BY <1>2, <1>4, <1>5, HasLeast
  <2>2. Freed(s, f[0], x, N, tight, PlacesTo(0))
    BY <1>3, PlacesToIs, SparesAll DEF Freed, InodesAside
  <2>3. k # 0
    BY <1>4, <2>1, <2>2
  <2>4. k \in 1 .. PerTable /\ k - 1 \in 0 .. PerTable /\ k - 1 \in 0 .. PerTable - 1 /\ k - 1 \notin bad
    BY <1>2, <1>4, <2>1, <2>3
  <2>5. PICK a : a = f[k - 1] /\ Freed(s, a, x, N, tight, PlacesTo(k - 1))
    BY <1>4, <2>4
  <2>6. Under(a, x, N, tight) /\ a.ok /\ a.i.table # 0
    BY <2>5 DEF Freed
  <2>7. Freed(a, f[k], x, N, tight, {(k - 1) + 2})
    BY <1>3, <2>4, <2>5, <2>6, FreeEntryDoes
  <2>8. PlacesTo(k) = PlacesTo(k - 1) \cup {(k - 1) + 2}
    BY <2>4, PlacesToIs
  <2>9. Freed(s, f[k], x, N, tight, PlacesTo(k))
    BY <2>5, <2>7, <2>8, FreedOn
  <2> QED
    BY <1>4, <2>1, <2>9
<1>6. Freed(s, t, x, N, tight, PlacesTo(PerTable))
  BY <1>1, <1>2, <1>4, <1>5
<1>7. \A p \in Place : p \in PlacesTo(PerTable) <=> p \in Place \ {0, 1}
  BY PlacesToIs
<1> QED
  BY <1>6, <1>7 DEF Freed

(* A pointer, or the size, of the inode in memory forgotten.               *)
LEMMA ForgottenIs ==
    ASSUME NEW s, Sane(s), s.ok
    PROVE  /\ Forget(s, "direct") = HasInHand(s, [s.i EXCEPT !.direct = 0])
           /\ Forget(s, "table") = HasInHand(s, [s.i EXCEPT !.table = 0])
           /\ Forget(s, "size") = HasInHand(s, [s.i EXCEPT !.size = 0])
<1>1. \A f \in {"direct", "table", "size"} : [s EXCEPT !.i[f] = 0] = [s EXCEPT !.i = [s.i EXCEPT ![f] = 0]]
  OBVIOUS
<1> QED
  BY <1>1 DEF Forget, HasInHand

(* An operation goes on, and has written no inode yet.                     *)
Going(s, t, x, N, tight) == t.ok /\ Worked(s, t, x, N, tight) /\ InodesAside(s.v, t.v)
LEMMA GoingOn ==
    ASSUME VolumeAssumption, NEW s, NEW t, NEW u, NEW x, NEW N, NEW tight,
           Going(s, t, x, N, tight), Going(t, u, x, N, tight)
    PROVE  Going(s, u, x, N, tight)
<1>1. Worked(s, u, x, N, tight)
  BY WorkedOn DEF Going
<1> QED
  BY <1>1 DEF Going, InodesAside
(* The direct block freed.                                                 *)
LEMMA FreeDirectDoes ==
    ASSUME VolumeAssumption, NEW s, NEW x, NEW N, NEW tight, Under(s, x, N, tight), s.ok,
           NEW t, t = FreeDirect(s)
    PROVE  Going(s, t, x, N, tight) /\ t.i.direct = 0 /\ t.i.size = s.i.size
<1>1. Sane(s) /\ s.i \in InodeRecord /\ Formed(s.v) /\ Books(s.v, With(N, x, s.i), tight)
  BY SaneIsFormed DEF Under, Sane
<1>2. PICK b : b = s.i.direct
  OBVIOUS
<1>3. CASE b = 0
  <2>1. t = s
    BY <1>2, <1>3 DEF FreeDirect
  <2> QED
    BY <1>2, <1>3, <2>1, WorkedOn DEF Going, InodesAside
<1>4. CASE b # 0
  <2>1. 0 \in Place /\ PointerAt(s.v, s.i, 0) = b
    BY <1>1, <1>2, PointerIs
  <2>2. b \in s.v[BlockMap] /\ b \in DiskBlock /\ NotOthers(s.v, x, N, b)
    BY <1>4, <2>1, NobodyElse
  <2>3. PICK a : a = FreeBlock(s, b) /\ Sane(a) /\ Same(s, a) /\ BlockGiven(s.v, a.v, b)
    BY <1>1, <2>2, BlockIsGiven
  <2>4. PICK r : r = [s.i EXCEPT !.direct = 0] /\ r \in InodeRecord
    BY <1>1, InodeIs
  <2>5. r.kind = s.i.kind /\ r.links = s.i.links /\ r.size = s.i.size /\ r.table = s.i.table /\ r.direct = 0
    BY <1>1, <2>4 DEF InodeRecord
  <2>6. a.i = s.i /\ a.ok
    BY <2>3 DEF Same
  <2>7. t = HasInHand(a, r)
    BY <1>2, <1>4, <2>3, <2>4, <2>6, ForgottenIs DEF FreeDirect
  <2>8. Sane(t) /\ t.v = a.v /\ t.i = r /\ t.ok = a.ok
    BY <2>3, <2>4, <2>7, InHandIs
  <2>9. AllBut(s.v, t.v, {Super, Group, BlockMap, Area(b)})
    BY <2>3, <2>8 DEF BlockGiven, AllBut
  <2>10. InodesKept(s.v, t.v) /\ BlockCount(t.v) /\ t.v[BlockMap] = s.v[BlockMap] \ {b}
    BY <1>1, <2>3, <2>8 DEF BlockGiven, Books
  <2>11. \A c \in DiskBlock : t.v[Area(c)] = s.v[Area(c)]
    BY <2>3, <2>8, StructureIs, BuffersApart DEF BlockGiven, AllBut
  <2>12. PointerAt(t.v, t.i, 0) = 0
    BY <2>5, <2>8 DEF PointerAt
  <2>13. ASSUME NEW q \in Place \ {0}
         PROVE  PointerAt(t.v, t.i, q) = PointerAt(s.v, s.i, q)
    <3>1. s.i.table # 0 => t.v[Area(s.i.table)] = s.v[Area(s.i.table)]
      BY <1>1, <2>11, InodeIs
    <3> QED
      BY <2>5, <2>8, <3>1 DEF PointerAt, TableOf
  <2>14. Under(t, x, N, tight) /\ Spares(s.v, t.v, x, N) /\ InodesAside(s.v, t.v)
    <3>1. PointerFreed(s, t, 0, b)
      BY <1>4, <2>1, <2>9, <2>10, <2>12, <2>13 DEF PointerFreed
    <3> QED
      BY <2>2, <2>8, <3>1, BlockFreed
  <2> QED
    BY <2>5, <2>6, <2>8, <2>14 DEF Going, Worked
<1> QED
  BY <1>3, <1>4

(* The table and the blocks it points at freed.                            *)
LEMMA FreeTableDoes ==
    ASSUME VolumeAssumption, NEW s, NEW x, NEW N, NEW tight, Under(s, x, N, tight), s.ok, s.i.direct = 0,
           NEW t, t = FreeTable(s)
    PROVE  Going(s, t, x, N, tight) /\ t.i.direct = 0 /\ t.i.table = 0 /\ t.i.size = s.i.size
<1>1. CASE s.i.table = 0
  <2>1. t = s
    BY <1>1 DEF FreeTable
  <2> QED
    BY <1>1, <2>1, WorkedOn DEF Going, InodesAside
<1>2. CASE s.i.table # 0
  <2>1. PICK a : a = FreeEntries(s) /\ Freed(s, a, x, N, tight, Place \ {0, 1})
    BY <1>2, FreeEntriesDoes
  <2>2. a.ok /\ a.i = s.i /\ Under(a, x, N, tight) /\ Spares(s.v, a.v, x, N) /\ InodesAside(s.v, a.v)
    BY <2>1 DEF Freed
  <2>3. Sane(a) /\ a.i \in InodeRecord /\ Formed(a.v) /\ Books(a.v, With(N, x, a.i), tight)
    BY <2>2, SaneIsFormed DEF Under, Sane
  <2>4. PICK b : b = s.i.table /\ b # 0
    BY <1>2
  <2>5. 1 \in Place /\ PointerAt(a.v, a.i, 1) = b /\ PointerAt(a.v, a.i, 0) = 0 /\ 0 \in Place
    BY <2>2, <2>3, <2>4, PointerIs
  <2>6. b \in a.v[BlockMap] /\ b \in DiskBlock /\ NotOthers(a.v, x, N, b)
    BY <2>2, <2>4, <2>5, NobodyElse
  <2>7. PICK c : c = FreeBlock(a, b) /\ Sane(c) /\ Same(a, c) /\ BlockGiven(a.v, c.v, b)
    BY <2>2, <2>3, <2>6, BlockIsGiven
  <2>8. PICK r : r = [a.i EXCEPT !.table = 0] /\ r \in InodeRecord
    BY <2>3, InodeIs
  <2>9. r.kind = a.i.kind /\ r.links = a.i.links /\ r.size = a.i.size /\ r.table = 0 /\ r.direct = a.i.direct
    BY <2>3, <2>8 DEF InodeRecord
  <2>10. c.i = a.i /\ c.ok
    BY <2>2, <2>7 DEF Same
  <2>11. t = HasInHand(c, r)
    BY <1>2, <2>1, <2>4, <2>7, <2>8, <2>10, ForgottenIs DEF FreeTable
  <2>12. Sane(t) /\ t.v = c.v /\ t.i = r /\ t.ok = c.ok
    BY <2>7, <2>8, <2>11, InHandIs
  <2>13. AllBut(a.v, t.v, {Super, Group, BlockMap, Area(b)})
    BY <2>7, <2>12 DEF BlockGiven, AllBut
  <2>14. InodesKept(a.v, t.v) /\ BlockCount(t.v) /\ t.v[BlockMap] = a.v[BlockMap] \ {b}
    BY <2>3, <2>7, <2>12 DEF BlockGiven, Books
  <2>15. PointerAt(t.v, t.i, 1) = 0 /\ PointerAt(t.v, t.i, 0) = 0
    BY <2>2, <2>9, <2>12 DEF PointerAt
  <2>16. \A q \in Place \ {0, 1} : PointerAt(t.v, t.i, q) = 0 /\ PointerAt(a.v, a.i, q) = 0
    BY <2>1, <2>9, <2>12 DEF PointerAt, Freed
  <2>17. \A q \in Place \ {1} : PointerAt(t.v, t.i, q) = PointerAt(a.v, a.i, q)
    BY <2>5, <2>15, <2>16
  <2>18. Under(t, x, N, tight) /\ Spares(a.v, t.v, x, N) /\ InodesAside(a.v, t.v)
    <3>1. PointerFreed(a, t, 1, b)
      BY <2>4, <2>5, <2>13, <2>14, <2>15, <2>17 DEF PointerFreed
    <3> QED
      BY <2>2, <2>6, <2>12, <3>1, BlockFreed
  <2>19. Going(s, a, x, N, tight)
    BY <2>2 DEF Going, Worked
  <2>20. Going(a, t, x, N, tight)
    BY <2>9, <2>10, <2>12, <2>18 DEF Going, Worked
  <2>21. Going(s, t, x, N, tight)
    BY <2>19, <2>20, GoingOn
  <2> QED
    BY <2>2, <2>9, <2>12, <2>21
<1> QED
  BY <1>1, <1>2

(* Ext2TruncateFile to nothing: the inode is written, and where it had     *)
(* blocks by its size it has none.                                         *)
Emptied(s, t, x) ==
    /\ InodeIn(t.v, x) = t.i /\ t.i.size = 0
    /\ s.i.size = 0 => t.i = s.i
    /\ s.i.size # 0 => t.i.direct = 0 /\ t.i.table = 0
LEMMA TruncateDoes ==
    ASSUME VolumeAssumption, NEW s, NEW x, NEW N, NEW tight, Under(s, x, N, tight), s.ok,
           NEW t, t = TruncateToNothing(s, x)
    PROVE  t.ok /\ Worked(s, t, x, N, tight) /\ Emptied(s, t, x)
<1>1. x \in Inode
  BY DEF Under
<1>2. CASE s.i.size = 0
  <2>1. t = WriteInode(s, x, s.i) /\ Sane(s) /\ s.i \in InodeRecord
    BY <1>2 DEF TruncateToNothing, Under, Sane
  <2>2. Sane(t) /\ Same(s, t) /\ InodeWritten(s.v, t.v, x, s.i)
    BY <1>1, <2>1, InodeIsWritten
  <2>3. t.i = s.i /\ t.ok
    BY <2>2 DEF Same
  <2>4. Worked(s, t, x, N, tight) /\ InodeIn(t.v, x) = t.i
    BY <2>2, <2>3, ItselfWritten
  <2> QED
    BY <1>2, <2>3, <2>4 DEF Emptied
<1>3. CASE s.i.size # 0
  <2>1. PICK a : a = FreeDirect(s) /\ Going(s, a, x, N, tight) /\ a.i.direct = 0
    BY FreeDirectDoes
  <2>2. a.ok /\ Under(a, x, N, tight)
    BY <2>1 DEF Going, Worked
  <2>3. PICK b : b = FreeTable(a) /\ Going(a, b, x, N, tight) /\ b.i.direct = 0 /\ b.i.table = 0
    BY <2>1, <2>2, FreeTableDoes
  <2>4. Going(s, b, x, N, tight)
    BY <2>1, <2>3, GoingOn
  <2>5. b.ok /\ Under(b, x, N, tight) /\ Sane(b) /\ b.i \in InodeRecord
    BY <2>4 DEF Going, Worked, Under, Sane
  <2>6. PICK r : r = [b.i EXCEPT !.size = 0] /\ r \in InodeRecord
    <3>1. 0 \in 0 .. PerTable + 1
      BY DEF VolumeAssumption
    <3> QED
      BY <2>5, <3>1, InodeIs
  <2>7. r.kind = b.i.kind /\ r.links = b.i.links /\ r.direct = b.i.direct /\ r.table = b.i.table /\ r.size = 0
    BY <2>5, <2>6 DEF InodeRecord
  <2>8. PICK c : c = HasInHand(b, r) /\ Sane(c) /\ c.v = b.v /\ c.i = r /\ c.ok = b.ok
    <3>1. Sane(b) /\ r \in InodeRecord
      BY <2>5, <2>6
    <3> QED
      BY <3>1, InHandIs
  <2>9. Forget(b, "size") = c
    BY <2>5, <2>6, <2>8, ForgottenIs
  <2>10. Under(c, x, N, tight)
    BY <2>5, <2>6, <2>7, <2>8, ShapeChanged
  <2>11. Worked(b, c, x, N, tight)
    BY <2>7, <2>8, <2>10, SparesAll DEF Worked
  <2>12. t = WriteInode(c, x, r)
    BY <1>3, <2>1, <2>3, <2>8, <2>9 DEF TruncateToNothing
  <2>13. Sane(t) /\ Same(c, t) /\ InodeWritten(c.v, t.v, x, r)
    BY <1>1, <2>5, <2>6, <2>8, <2>12, InodeIsWritten
  <2>14. t.i = c.i /\ t.ok
    BY <2>5, <2>8, <2>13 DEF Same
  <2>15. Worked(c, t, x, N, tight) /\ InodeIn(t.v, x) = t.i
    BY <2>8, <2>10, <2>13, <2>14, ItselfWritten
  <2>16. Worked(s, b, x, N, tight)
    BY <2>4 DEF Going
  <2>17. Worked(s, c, x, N, tight)
    BY <2>11, <2>16, WorkedOn
  <2>18. Worked(s, t, x, N, tight)
    BY <2>15, <2>17, WorkedOn
  <2> QED
    BY <1>3, <2>3, <2>7, <2>8, <2>14, <2>15, <2>18 DEF Emptied
<1> QED
  BY <1>2, <1>3
=============================================================================
