----------------------------- MODULE PipeProofs -----------------------------
(***************************************************************************)
(* The pipe of module Pipe, for any processes, any size of the buffer and  *)
(* any width of the indices that the size divides: no end is left open or  *)
(* closed wrongly, no wake is lost, and the bytes are those of a queue.    *)
(* Then the shell that makes pipelines, module Jobs.                       *)
(***************************************************************************)
EXTENDS Pipe, Jobs, ListFacts, FiniteSetTheorems, SequenceTheorems, TLAPS

(* The descriptors of an end, one by one.                                  *)
Numbers(e) == {pn \in Proc \X (Nat \ {0}) : pn[2] <= descriptors[pn[1]][e]}

(* An open file counts the descriptors that name it, an end is open as     *)
(* long as its file has a holder, and the slot as long as an end is.       *)
Counted ==
    /\ \A e \in End : IsFiniteSet(Numbers(e)) /\ holders[e] = Cardinality(Numbers(e))
    /\ \A e \in End : files[e] = (IF holders[e] > 0 THEN 1 ELSE 0)
    /\ in_use <=> \E e \in End : files[e] = 1

(* The indices are never further apart than the buffer is long.            *)
Fits == Held <= BufferSize

(* A process that is in a call has one.                                    *)
InCall == \A p \in Proc : status[p] # "idle" => call[p] \in Requests

PipeInv == TypeOK /\ Counted /\ Fits /\ InCall /\ SleepersHaveCause

-----------------------------------------------------------------------------
(* Arithmetic of the indices.                                              *)

(* A remainder is what is left of whole multiples.                         *)
LEMMA ModOfWhole ==
    ASSUME NEW n \in Nat \ {0}, NEW q \in Int, NEW r \in 0 .. n - 1
    PROVE  ((n * q) + r) % n = r
BY Z3

(* Division with remainder, for the indices of the ring.                   *)
LEMMA ModWhole ==
    ASSUME NEW n \in Nat \ {0}, NEW a \in Int
    PROVE  /\ a % n \in 0 .. n - 1
           /\ a \div n \in Int
           /\ a = (n * (a \div n)) + (a % n)
BY Z3

(* Whole multiples do not change it.                                       *)
LEMMA ModShift ==
    ASSUME NEW n \in Nat \ {0}, NEW a \in Int, NEW k \in Int
    PROVE  (a + (n * k)) % n = a % n
<1>1. PICK q \in Int, r \in 0 .. n - 1 : a = (n * q) + r /\ a % n = r
  BY ModWhole
<1>2. a + (n * k) = (n * (q + k)) + r
  BY <1>1, Z3
<1>3. q + k \in Int
  OBVIOUS
<1> QED
  BY <1>1, <1>2, <1>3, ModOfWhole

(* Two numbers less than n apart have different ones.                      *)
LEMMA ModDiffer ==
    ASSUME NEW n \in Nat \ {0}, NEW a \in Int, NEW b \in Int, a < b, b - a < n
    PROVE  a % n # b % n
<1> SUFFICES ASSUME a % n = b % n PROVE FALSE
  OBVIOUS
<1>1. PICK q \in Int : a = (n * q) + (a % n)
  BY ModWhole
<1>2. PICK k \in Int : b = (n * k) + (b % n)
  BY ModWhole
<1>3. a % n \in Int
  BY ModWhole
<1>4. b - a = n * (k - q)
  BY <1>1, <1>2, <1>3, Z3
<1>5. k - q <= 0 \/ k - q >= 1
  OBVIOUS
<1>6. n * (k - q) <= 0 \/ n * (k - q) >= n
  BY <1>5, Z3
<1> QED
  BY <1>4, <1>6

(* An index that wrapped names the same byte of the buffer.                *)
LEMMA WrapKeepsByte ==
    ASSUME NEW a \in Int
    PROVE  (a + IndexModulus) % BufferSize = a % BufferSize
<1>1. /\ BufferSize \in Nat \ {0} /\ IndexModulus \in Int
      /\ IndexModulus % BufferSize = 0
  BY SizeAssumption
<1> DEFINE k == IndexModulus \div BufferSize
<1>2. k \in Int /\ IndexModulus = (BufferSize * k) + 0
  BY <1>1, ModWhole
<1>3. BufferSize * k = IndexModulus
  BY <1>1, <1>2, Z3
<1> HIDE DEF k
<1> QED
  BY <1>1, <1>2, <1>3, ModShift

(* What an index becomes when it advances by no more than the buffer.      *)
LEMMA Advance ==
    ASSUME NEW x \in 0 .. IndexModulus - 1, NEW n \in 0 .. BufferSize
    PROVE  /\ (x + n) % IndexModulus \in 0 .. IndexModulus - 1
           /\ (x + n) % IndexModulus
                = IF x + n < IndexModulus THEN x + n ELSE x + n - IndexModulus
BY SizeAssumption, Z3

(* The distance of the indices, without the remainder.                     *)
LEMMA HeldIs ==
    ASSUME NEW r \in 0 .. IndexModulus - 1, NEW w \in 0 .. IndexModulus - 1
    PROVE  (w - r) % IndexModulus = IF w >= r THEN w - r ELSE w - r + IndexModulus
BY SizeAssumption, Z3

-----------------------------------------------------------------------------
(* Descriptors and holders.                                                *)

(* Whether an end is open is whether somebody can name it.                 *)
LEMMA CountedIsOpen == TypeOK /\ Counted => OpenWhileHeld
<1> SUFFICES ASSUME TypeOK, Counted PROVE OpenWhileHeld
  OBVIOUS
<1>1. ASSUME NEW e \in End
      PROVE  holders[e] > 0 <=> \E p \in Proc : descriptors[p][e] > 0
  <2>1. holders[e] \in Nat /\ (holders[e] = 0 <=> Numbers(e) = {})
    BY FS_EmptySet DEF TypeOK, Counted
  <2>2. ASSUME NEW p \in Proc, descriptors[p][e] > 0
        PROVE  <<p, 1>> \in Numbers(e)
    BY <2>2 DEF Numbers, TypeOK
  <2>3. ASSUME NEW x \in Numbers(e)
        PROVE  x[1] \in Proc /\ descriptors[x[1]][e] > 0
    BY DEF Numbers, TypeOK
  <2>4. holders[e] > 0 <=> Numbers(e) # {}
    BY <2>1
  <2>5. Numbers(e) # {} <=> \E x : x \in Numbers(e)
    OBVIOUS
  <2> HIDE DEF Numbers
  <2> QED
    BY <2>2, <2>3, <2>4, <2>5, Zenon
<1>2. ASSUME NEW e \in End
      PROVE  files[e] = 1 <=> holders[e] > 0
  BY DEF Counted
<1> QED
  BY <1>1, <1>2 DEF Counted, OpenWhileHeld

(* A process that holds a descriptor of an end finds it open.              *)
LEMMA HasOpen ==
    ASSUME PipeInv, NEW p \in Proc, NEW e \in End, Has(p, e)
    PROVE  files[e] = 1 /\ in_use
BY CountedIsOpen DEF PipeInv, OpenWhileHeld, Has

(* The numbers 1 .. d of one process are d many.                           *)
LEMMA RowCount ==
    ASSUME NEW p, NEW d \in Nat
    PROVE  IsFiniteSet({p} \X (1 .. d)) /\ Cardinality({p} \X (1 .. d)) = d
<1>1. IsFiniteSet(1 .. d) /\ Cardinality(1 .. d) = d
  BY FS_Interval
<1>2. IsFiniteSet({p}) /\ Cardinality({p}) = 1
  BY FS_Singleton
<1> QED
  BY <1>1, <1>2, FS_Product

(* One descriptor more of an end, and one less.                            *)
LEMMA OneMore ==
    ASSUME TypeOK, NEW e \in End, NEW p \in Proc, IsFiniteSet(Numbers(e)),
           descriptors' \in [Proc -> [End -> Nat]],
           descriptors'[p][e] = descriptors[p][e] + 1,
           \A q \in Proc \ {p} : descriptors'[q] = descriptors[q]
    PROVE  IsFiniteSet(Numbers(e)')
             /\ Cardinality(Numbers(e)') = Cardinality(Numbers(e)) + 1
<1> DEFINE x == <<p, descriptors[p][e] + 1>>
<1>1. descriptors[p][e] \in Nat
  BY DEF TypeOK
<1>2. x \notin Numbers(e)
  BY <1>1 DEF Numbers
<1>3. ASSUME NEW y \in Proc \X (Nat \ {0})
      PROVE  y \in Numbers(e)' <=> y \in Numbers(e) \/ y = x
  <2>1. y = <<y[1], y[2]>> /\ y[1] \in Proc /\ y[2] \in Nat \ {0}
    OBVIOUS
  <2>2. y[1] # p => descriptors'[y[1]][e] = descriptors[y[1]][e]
    BY <2>1
  <2>3. y[2] <= descriptors[p][e] + 1
          <=> y[2] <= descriptors[p][e] \/ y[2] = descriptors[p][e] + 1
    <3>1. \A m \in Nat, k \in Nat : m <= k + 1 <=> m <= k \/ m = k + 1
      OBVIOUS
    <3>2. y[2] \in Nat /\ descriptors[p][e] \in Nat
      BY <2>1, <1>1
    <3> QED
      BY <3>1, <3>2
  <2>4. y = x <=> y[1] = p /\ y[2] = descriptors[p][e] + 1
    BY <2>1
  <2>5. /\ y \in Numbers(e) <=> y[2] <= descriptors[y[1]][e]
        /\ y \in Numbers(e)' <=> y[2] <= descriptors'[y[1]][e]
    BY DEF Numbers
  <2>6. CASE y[1] = p
    BY <2>3, <2>4, <2>5, <2>6
  <2>7. CASE y[1] # p
    BY <2>2, <2>4, <2>5, <2>7
  <2> QED
    BY <2>6, <2>7
<1>4. x \in Proc \X (Nat \ {0})
  BY <1>1
<1>5. Numbers(e)' = Numbers(e) \cup {x}
  BY <1>3, <1>4 DEF Numbers
<1> HIDE DEF x
<1> QED
  BY <1>2, <1>5, FS_AddElement

(* One descriptor fewer of one process is one number fewer of those that   *)
(* hold the end.                                                           *)
LEMMA OneLess ==
    ASSUME TypeOK, NEW e \in End, NEW p \in Proc, IsFiniteSet(Numbers(e)),
           descriptors' \in [Proc -> [End -> Nat]],
           descriptors[p][e] > 0, descriptors'[p][e] = descriptors[p][e] - 1,
           \A q \in Proc \ {p} : descriptors'[q] = descriptors[q]
    PROVE  IsFiniteSet(Numbers(e)')
             /\ Cardinality(Numbers(e)') = Cardinality(Numbers(e)) - 1
<1> DEFINE x == <<p, descriptors[p][e]>>
<1>1. descriptors[p][e] \in Nat \ {0}
  BY DEF TypeOK
<1>2. x \in Numbers(e)
  BY <1>1 DEF Numbers
<1>3. ASSUME NEW y \in Proc \X (Nat \ {0})
      PROVE  y \in Numbers(e)' <=> y \in Numbers(e) /\ y # x
  <2>1. y = <<y[1], y[2]>> /\ y[1] \in Proc /\ y[2] \in Nat \ {0}
    OBVIOUS
  <2>2. y[1] # p => descriptors'[y[1]][e] = descriptors[y[1]][e]
    BY <2>1
  <2>3. y[2] <= descriptors[p][e] - 1
          <=> y[2] <= descriptors[p][e] /\ y[2] # descriptors[p][e]
    <3>1. \A m \in Nat, k \in Nat : m <= k - 1 <=> m <= k /\ m # k
      OBVIOUS
    <3>2. y[2] \in Nat /\ descriptors[p][e] \in Nat
      BY <2>1, <1>1
    <3> QED
      BY <3>1, <3>2
  <2>4. y = x <=> y[1] = p /\ y[2] = descriptors[p][e]
    BY <2>1
  <2>5. /\ y \in Numbers(e) <=> y[2] <= descriptors[y[1]][e]
        /\ y \in Numbers(e)' <=> y[2] <= descriptors'[y[1]][e]
    BY DEF Numbers
  <2>6. CASE y[1] = p
    BY <2>3, <2>4, <2>5, <2>6
  <2>7. CASE y[1] # p
    BY <2>2, <2>4, <2>5, <2>7
  <2> QED
    BY <2>6, <2>7
<1>4. Numbers(e)' = Numbers(e) \ {x}
  BY <1>3 DEF Numbers
<1> HIDE DEF x
<1> QED
  BY <1>2, <1>4, FS_RemoveElement

(* Nobody's count of an end changed.                                       *)
LEMMA NoneMoved ==
    ASSUME NEW e \in End,
           \A q \in Proc : descriptors'[q][e] = descriptors[q][e]
    PROVE  Numbers(e)' = Numbers(e)
BY DEF Numbers

(* A whole row of descriptors is given to a process that had none.         *)
LEMMA RowGained ==
    ASSUME TypeOK, NEW e \in End, NEW p \in Proc, IsFiniteSet(Numbers(e)),
           descriptors' \in [Proc -> [End -> Nat]], descriptors[p][e] = 0,
           \A q \in Proc \ {p} : descriptors'[q] = descriptors[q]
    PROVE  /\ IsFiniteSet(Numbers(e)')
           /\ Cardinality(Numbers(e)') = Cardinality(Numbers(e)) + descriptors'[p][e]
<1> DEFINE row == {p} \X (1 .. descriptors'[p][e])
<1>1. descriptors'[p][e] \in Nat
  OBVIOUS
<1>2. IsFiniteSet(row) /\ Cardinality(row) = descriptors'[p][e]
  BY <1>1, RowCount
<1>3. ASSUME NEW y \in Proc \X (Nat \ {0})
      PROVE  /\ y \in Numbers(e)' <=> y \in Numbers(e) \/ y \in row
             /\ ~(y \in Numbers(e) /\ y \in row)
  <2>1. y = <<y[1], y[2]>> /\ y[1] \in Proc /\ y[2] \in Nat \ {0}
    OBVIOUS
  <2>2. y[1] # p => descriptors'[y[1]][e] = descriptors[y[1]][e]
    BY <2>1
  <2> QED
    BY <1>1, <2>1, <2>2 DEF Numbers
<1>4. row \subseteq Proc \X (Nat \ {0})
  BY <1>1
<1>5. Numbers(e)' = Numbers(e) \cup row /\ Numbers(e) \cap row = {}
  BY <1>3, <1>4 DEF Numbers
<1>6. Cardinality(Numbers(e)) \in Nat
  BY FS_CardinalityType
<1> HIDE DEF row
<1>7. /\ IsFiniteSet(Numbers(e) \cup row)
      /\ Cardinality(Numbers(e) \cup row)
           = Cardinality(Numbers(e)) + Cardinality(row) - Cardinality({})
  BY <1>2, <1>5, FS_Union
<1> QED
  BY <1>1, <1>2, <1>5, <1>6, <1>7, FS_EmptySet

(* A process gives up all it holds of an end.                              *)
LEMMA RowLost ==
    ASSUME TypeOK, NEW e \in End, NEW p \in Proc, IsFiniteSet(Numbers(e)),
           descriptors' \in [Proc -> [End -> Nat]], descriptors'[p][e] = 0,
           \A q \in Proc \ {p} : descriptors'[q] = descriptors[q]
    PROVE  /\ IsFiniteSet(Numbers(e)')
           /\ Cardinality(Numbers(e)') = Cardinality(Numbers(e)) - descriptors[p][e]
<1> DEFINE row == {p} \X (1 .. descriptors[p][e])
<1>1. descriptors[p][e] \in Nat
  BY DEF TypeOK
<1>2. IsFiniteSet(row) /\ Cardinality(row) = descriptors[p][e]
  BY <1>1, RowCount
<1>3. ASSUME NEW y \in Proc \X (Nat \ {0})
      PROVE  /\ y \in Numbers(e) <=> y \in Numbers(e)' \/ y \in row
             /\ ~(y \in Numbers(e)' /\ y \in row)
  <2>1. y = <<y[1], y[2]>> /\ y[1] \in Proc /\ y[2] \in Nat \ {0}
    OBVIOUS
  <2>2. y[1] # p => descriptors'[y[1]][e] = descriptors[y[1]][e]
    BY <2>1
  <2> QED
    BY <1>1, <2>1, <2>2 DEF Numbers
<1>4. row \subseteq Proc \X (Nat \ {0})
  BY <1>1
<1>5. Numbers(e) = Numbers(e)' \cup row /\ Numbers(e)' \cap row = {}
  BY <1>3, <1>4 DEF Numbers
<1>6. IsFiniteSet(Numbers(e)')
  BY <1>5, FS_Subset
<1>7. Cardinality(Numbers(e)') \in Nat
  BY <1>6, FS_CardinalityType
<1> HIDE DEF row
<1>8. Cardinality(Numbers(e)' \cup row)
        = Cardinality(Numbers(e)') + Cardinality(row) - Cardinality({})
  BY <1>2, <1>5, <1>6, FS_Union
<1> QED
  BY <1>1, <1>2, <1>5, <1>6, <1>7, <1>8, FS_EmptySet

-----------------------------------------------------------------------------
(* Transfers and the indices.                                              *)

(* What the indices of a pipe are, with no remainder in sight.             *)
LEMMA HeldBounds ==
    ASSUME TypeOK, Fits
    PROVE  /\ Held \in 0 .. BufferSize
           /\ Held = IF write_index >= read_index THEN write_index - read_index
                     ELSE write_index - read_index + IndexModulus
           /\ BufferSize \in Nat \ {0} /\ IndexModulus \in Nat
           /\ IndexModulus > BufferSize
           /\ read_index \in 0 .. IndexModulus - 1
           /\ write_index \in 0 .. IndexModulus - 1
<1>1. /\ BufferSize \in Nat \ {0} /\ IndexModulus \in Nat
      /\ IndexModulus > BufferSize
  BY SizeAssumption
<1>2. Held = IF write_index >= read_index THEN write_index - read_index
             ELSE write_index - read_index + IndexModulus
  BY HeldIs DEF TypeOK, Held
<1>3. Held \in Nat
  BY <1>1, <1>2 DEF TypeOK
<1> QED
  BY <1>1, <1>2, <1>3 DEF Fits, TypeOK

(* The byte after the last that is held is the next to be written.         *)
LEMMA NextWritten ==
    ASSUME TypeOK, Fits, NEW i \in Int
    PROVE  (write_index + i) % BufferSize = (read_index + Held + i) % BufferSize
<1>0. /\ read_index \in Int /\ write_index \in Int /\ IndexModulus \in Int /\ Held \in Int
      /\ Held = IF write_index >= read_index THEN write_index - read_index
                ELSE write_index - read_index + IndexModulus
  BY HeldBounds
<1>1. read_index + Held + i = write_index + i
        \/ read_index + Held + i = (write_index + i) + IndexModulus
  BY <1>0
<1>2. write_index + i \in Int
  BY <1>0
<1> QED
  BY <1>1, <1>2, WrapKeepsByte

(* A read of n bytes.                                                      *)
LEMMA AfterRead ==
    ASSUME TypeOK, Fits, NEW n \in 1 .. Held,
           read_index' = (read_index + n) % IndexModulus, write_index' = write_index
    PROVE  /\ read_index' \in 0 .. IndexModulus - 1
           /\ Held' = Held - n
           /\ \A i \in Int : (read_index' + i) % BufferSize
                               = (read_index + n + i) % BufferSize
<1>0. /\ Held \in 0 .. BufferSize
      /\ Held = IF write_index >= read_index THEN write_index - read_index
                ELSE write_index - read_index + IndexModulus
      /\ BufferSize \in Nat \ {0} /\ IndexModulus \in Nat
      /\ IndexModulus > BufferSize
      /\ read_index \in 0 .. IndexModulus - 1
      /\ write_index \in 0 .. IndexModulus - 1
  BY HeldBounds
<1>1. n \in 0 .. BufferSize /\ n \in 1 .. Held
  BY <1>0
<1>2. /\ read_index' \in 0 .. IndexModulus - 1
      /\ read_index' = IF read_index + n < IndexModulus THEN read_index + n
                       ELSE read_index + n - IndexModulus
  BY <1>1, Advance DEF TypeOK
<1>3. Held' = IF write_index' >= read_index' THEN write_index' - read_index'
              ELSE write_index' - read_index' + IndexModulus
  BY <1>2, HeldIs DEF TypeOK, Held
<1>4. Held' = Held - n
  BY <1>0, <1>1, <1>2, <1>3
<1>5. ASSUME NEW i \in Int
      PROVE  (read_index' + i) % BufferSize = (read_index + n + i) % BufferSize
  <2>1. read_index + n + i = read_index' + i
          \/ read_index + n + i = (read_index' + i) + IndexModulus
    BY <1>0, <1>1, <1>2
  <2>2. read_index' + i \in Int
    BY <1>2
  <2> QED
    BY <2>1, <2>2, WrapKeepsByte
<1> QED
  BY <1>2, <1>4, <1>5

(* A write of n bytes that fit.                                            *)
LEMMA AfterWrite ==
    ASSUME TypeOK, Fits, NEW n \in Nat, Held + n <= BufferSize,
           write_index' = (write_index + n) % IndexModulus, read_index' = read_index
    PROVE  /\ write_index' \in 0 .. IndexModulus - 1
           /\ Held' = Held + n
<1>0. /\ Held \in 0 .. BufferSize
      /\ Held = IF write_index >= read_index THEN write_index - read_index
                ELSE write_index - read_index + IndexModulus
      /\ BufferSize \in Nat \ {0} /\ IndexModulus \in Nat
      /\ IndexModulus > BufferSize
      /\ read_index \in 0 .. IndexModulus - 1
      /\ write_index \in 0 .. IndexModulus - 1
  BY HeldBounds
<1>1. n \in 0 .. BufferSize
  BY <1>0
<1>2. /\ write_index' \in 0 .. IndexModulus - 1
      /\ write_index' = IF write_index + n < IndexModulus THEN write_index + n
                        ELSE write_index + n - IndexModulus
  BY <1>1, Advance DEF TypeOK
<1>3. Held' = IF write_index' >= read_index' THEN write_index' - read_index'
              ELSE write_index' - read_index' + IndexModulus
  BY <1>2, HeldIs DEF TypeOK, Held
<1> QED
  BY <1>0, <1>1, <1>2, <1>3

(* What a block leaves in the buffer: each of its bytes in its place, and  *)
(* the bytes that are held where they were.                                *)
LEMMA BlockPlaced ==
    ASSUME TypeOK, Fits, NEW b \in Blocks, Held + Len(b) <= BufferSize
    PROVE  /\ WithBlock(b) \in [0 .. BufferSize - 1 -> Byte]
           /\ \A i \in 1 .. Len(b) :
                 WithBlock(b)[(read_index + Held + i - 1) % BufferSize] = b[i]
           /\ \A i \in 1 .. Held :
                 WithBlock(b)[(read_index + i - 1) % BufferSize]
                   = buffer[(read_index + i - 1) % BufferSize]
<1>1. b \in Seq(Byte) /\ Len(b) \in 1 .. BufferSize
  BY TransferAssumption
<1>2. /\ BufferSize \in Nat \ {0} /\ Held \in 0 .. BufferSize
      /\ read_index \in Int /\ write_index \in Int
  BY HeldBounds
<1>3. ASSUME NEW a \in Int
      PROVE  a % BufferSize \in 0 .. BufferSize - 1
  BY <1>2, ModWhole
<1>4. ASSUME NEW i \in Int
      PROVE  Subscript(i) = (read_index + Held + i - 1) % BufferSize
  <2>1. i - 1 \in Int
    OBVIOUS
  <2>2. (write_index + (i - 1)) % BufferSize = (read_index + Held + (i - 1)) % BufferSize
    BY <2>1, NextWritten
  <2>3. write_index + (i - 1) = write_index + i - 1
          /\ read_index + Held + (i - 1) = read_index + Held + i - 1
    BY <1>2
  <2> QED
    BY <2>2, <2>3 DEF Subscript
<1>5. ASSUME NEW i \in 1 .. Len(b), NEW j \in 1 .. Len(b), Subscript(i) = Subscript(j)
      PROVE  i = j
  <2>1. /\ read_index + Held + i - 1 \in Int /\ read_index + Held + j - 1 \in Int
        /\ i < j => (read_index + Held + j - 1) - (read_index + Held + i - 1) < BufferSize
        /\ j < i => (read_index + Held + i - 1) - (read_index + Held + j - 1) < BufferSize
        /\ i < j => read_index + Held + i - 1 < read_index + Held + j - 1
        /\ j < i => read_index + Held + j - 1 < read_index + Held + i - 1
    BY <1>1, <1>2
  <2> DEFINE a == read_index + Held + i - 1
             c == read_index + Held + j - 1
  <2>2. a % BufferSize = c % BufferSize
    BY <1>4, <1>5
  <2> HIDE DEF a, c
  <2>3. ASSUME i < j PROVE FALSE
    <3>1. a \in Int /\ c \in Int /\ a < c /\ c - a < BufferSize
      BY <2>1, <2>3 DEF a, c
    <3> QED
      BY <3>1, <2>2, <1>2, ModDiffer
  <2>4. ASSUME j < i PROVE FALSE
    <3>1. a \in Int /\ c \in Int /\ c < a /\ a - c < BufferSize
      BY <2>1, <2>4 DEF a, c
    <3> QED
      BY <3>1, <2>2, <1>2, ModDiffer
  <2> QED
    BY <2>3, <2>4
<1>6. ASSUME NEW s \in 0 .. BufferSize - 1, NEW i \in 1 .. Len(b), Subscript(i) = s
      PROVE  WithBlock(b)[s] = b[i]
  <2>1. (CHOOSE j \in 1 .. Len(b) : Subscript(j) = s) = i
    BY <1>5, <1>6
  <2> QED
    BY <1>6, <2>1 DEF WithBlock
<1>7. ASSUME NEW i \in 1 .. Len(b)
      PROVE  WithBlock(b)[(read_index + Held + i - 1) % BufferSize] = b[i]
  <2>1. read_index + Held + i - 1 \in Int
    BY <1>2
  <2>2. Subscript(i) = (read_index + Held + i - 1) % BufferSize
    BY <1>4
  <2>3. Subscript(i) \in 0 .. BufferSize - 1
    BY <1>3, <2>1, <2>2
  <2>4. WithBlock(b)[Subscript(i)] = b[i]
    BY <1>6, <2>3
  <2> QED
    BY <2>2, <2>4
<1>8. ASSUME NEW i \in 1 .. Held
      PROVE  WithBlock(b)[(read_index + i - 1) % BufferSize]
               = buffer[(read_index + i - 1) % BufferSize]
  <2> DEFINE s == (read_index + i - 1) % BufferSize
  <2>0. read_index + i - 1 \in Int
    BY <1>2
  <2>1. s \in 0 .. BufferSize - 1
    BY <1>3, <2>0
  <2>2. ASSUME NEW j \in 1 .. Len(b)
        PROVE  Subscript(j) # s
    <3> DEFINE x == read_index + i - 1
               y == read_index + Held + j - 1
    <3>1. x \in Int /\ y \in Int /\ x < y /\ y - x < BufferSize
      BY <1>1, <1>2
    <3>2. Subscript(j) = y % BufferSize /\ s = x % BufferSize
      BY <1>4
    <3> HIDE DEF x, y, s
    <3> QED
      BY <3>1, <3>2, <1>2, ModDiffer
  <2> HIDE DEF s
  <2>3. WithBlock(b)[s] = buffer[s]
    BY <2>1, <2>2 DEF WithBlock
  <2> QED
    BY <2>3 DEF s
<1>9. WithBlock(b) \in [0 .. BufferSize - 1 -> Byte]
  <2> SUFFICES ASSUME NEW s \in 0 .. BufferSize - 1
               PROVE  WithBlock(b)[s] \in Byte
    BY DEF WithBlock
  <2>1. CASE \E i \in 1 .. Len(b) : Subscript(i) = s
    BY <2>1, <1>1, <1>6
  <2>2. CASE ~\E i \in 1 .. Len(b) : Subscript(i) = s
    BY <2>2 DEF WithBlock, TypeOK
  <2> QED
    BY <2>1, <2>2
<1> QED
  BY <1>7, <1>8, <1>9

-----------------------------------------------------------------------------
(* The invariant holds at first, and of every step.                        *)

(* The pipe starts in the invariant.                                       *)
LEMMA InitPipe == Init => PipeInv
<1> SUFFICES ASSUME Init PROVE PipeInv
  OBVIOUS
<1>1. TypeOK
  <2>1. <<>> \in Seq(Byte)
    OBVIOUS
  <2>2. /\ 0 \in 0 .. IndexModulus - 1 /\ 0 \in Byte
    BY SizeAssumption, TransferAssumption
  <2>3. /\ files \in [End -> 0 .. 1] /\ holders \in [End -> Nat]
        /\ descriptors \in [Proc -> [End -> Nat]]
    BY DEF Init
  <2>4. /\ status \in [Proc -> {"idle", "asleep", "woken"}]
        /\ call \in [Proc -> Requests \cup {NoCall}]
    BY DEF Init
  <2>5. buffer \in [0 .. BufferSize - 1 -> Byte] /\ in_use \in BOOLEAN
    BY <2>2 DEF Init
  <2> QED
    BY <2>1, <2>2, <2>3, <2>4, <2>5 DEF Init, TypeOK
<1>2. \A e \in End : Numbers(e) = {}
  BY DEF Init, Numbers
<1>3. Counted
  <2>1. \A e \in End : IsFiniteSet(Numbers(e)) /\ Cardinality(Numbers(e)) = 0
    BY <1>2, FS_EmptySet
  <2>2. \A e \in End : holders[e] = 0 /\ files[e] = 0
    BY DEF Init
  <2>3. ~in_use
    BY DEF Init
  <2> QED
    BY <2>1, <2>2, <2>3 DEF Counted
<1>4. Held = 0
  BY HeldIs, SizeAssumption DEF Init, Held
<1>5. Fits /\ InCall /\ SleepersHaveCause
  BY <1>4, SizeAssumption DEF Init, Fits, InCall, SleepersHaveCause
<1> QED
  BY <1>1, <1>3, <1>5 DEF PipeInv

(* What every call is about.                                               *)
LEMMA CallKinds ==
    ASSUME NEW c \in Requests
    PROVE  /\ c.op \in {"read", "write", "poll"}
           /\ c.op = "read" => c.length \in Lengths
           /\ c.op = "write" => c.block \in Blocks
           /\ c.op = "poll" => c.ends \in Watched
BY DEF Requests

(* Descriptors move and the holders follow: VfsFile.holders, the ends and  *)
(* the slot are again exact, and those a closed end concerns are woken.    *)
LEMMA ReholdKeeps ==
    ASSUME PipeInv, NEW h \in [End -> Nat], Rehold(h),
           descriptors' \in [Proc -> [End -> Nat]],
           \A e \in End : IsFiniteSet(Numbers(e)') /\ h[e] = Cardinality(Numbers(e)'),
           \A e \in End : h[e] > 0 => holders[e] > 0,
           UNCHANGED <<pipeVars, call, delivered>>
    PROVE  PipeInv'
<1> DEFINE released == {e \in End : holders[e] > 0 /\ h[e] = 0}
<1>1. /\ TypeOK /\ Counted /\ Fits /\ InCall /\ SleepersHaveCause
  BY DEF PipeInv
<1>2. /\ holders' = h
      /\ files' = [e \in End |-> IF e \in released THEN files[e] - 1 ELSE files[e]]
      /\ in_use' = (in_use /\ (released # {} => \E e \in End : files'[e] # 0))
      /\ status' = IF released # {} THEN Wake(OnPipe \cup Pollers) ELSE status
  BY DEF Rehold
<1>3. \A e \in End : holders[e] \in Nat /\ h[e] \in Nat /\ files[e] \in 0 .. 1
  BY <1>1 DEF TypeOK
<1>4. \A e \in End : files[e] = IF holders[e] > 0 THEN 1 ELSE 0
  BY <1>1 DEF Counted
<1>5. \A e \in End : files'[e] = IF h[e] > 0 THEN 1 ELSE 0
  BY <1>2, <1>3, <1>4
<1>6. in_use \in BOOLEAN /\ (in_use <=> \E e \in End : files[e] = 1)
  BY <1>1 DEF Counted, TypeOK
<1>7. released = {} => files' = files
  BY <1>1, <1>2 DEF TypeOK
<1>8. in_use' <=> \E e \in End : files'[e] = 1
  <2>1. CASE released = {}
    BY <2>1, <1>2, <1>6, <1>7
  <2>2. CASE released # {}
    <3>1. in_use
      BY <2>2, <1>4, <1>6
    <3>2. in_use' <=> \E e \in End : files'[e] # 0
      BY <2>2, <3>1, <1>2, Zenon
    <3>3. \A e \in End : files'[e] # 0 <=> files'[e] = 1
      BY <1>5
    <3> QED
      BY <3>2, <3>3
  <2> QED
    BY <2>1, <2>2
<1>9. Held' = Held /\ Room' = Room
  BY DEF Held, Room, pipeVars
<1>10. status' \in [Proc -> {"idle", "asleep", "woken"}]
  BY <1>1, <1>2 DEF TypeOK, Wake
<1>11. TypeOK'
  <2>1. in_use' \in BOOLEAN
    BY <1>2, <1>6
  <2>2. files' \in [End -> 0 .. 1]
    <3>1. \A e \in End : files'[e] \in 0 .. 1
      BY <1>5
    <3>2. files' = [e \in End |-> files'[e]]
      BY <1>2
    <3> QED
      BY <3>1, <3>2
  <2> QED
    BY <1>1, <1>2, <1>10, <2>1, <2>2 DEF TypeOK, pipeVars
<1>12. Counted'
  BY <1>2, <1>5, <1>8 DEF Counted
<1>13. Fits'
  BY <1>1, <1>9 DEF Fits
<1>14. \A p \in Proc : status'[p] # "idle" => status[p] # "idle"
  BY <1>1, <1>2 DEF TypeOK, Wake
<1>15. InCall'
  BY <1>1, <1>14 DEF InCall
<1>16. SleepersHaveCause'
  <2>1. CASE released = {}
    <3>1. status' = status /\ files' = files /\ Held' = Held /\ Room' = Room /\ call' = call
      BY <2>1, <1>2, <1>7, <1>9
    <3> QED
      BY <3>1, <1>1 DEF SleepersHaveCause, Readable
  <2>2. CASE released # {}
    <3>1. ASSUME NEW p \in Proc
          PROVE  status'[p] # "asleep"
      <4>1. status'[p] = IF status[p] = "asleep" /\ call[p].op \in OnPipe \cup Pollers
                         THEN "woken" ELSE status[p]
        BY <2>2, <1>2 DEF Wake
      <4>2. status[p] = "asleep" => call[p].op \in OnPipe \cup Pollers
        BY <1>1, CallKinds DEF InCall, OnPipe, Pollers
      <4> QED
        BY <4>1, <4>2
    <3> QED
      BY <3>1 DEF SleepersHaveCause
  <2> QED
    BY <2>1, <2>2
<1> QED
  BY <1>11, <1>12, <1>13, <1>15, <1>16 DEF PipeInv

(* The steps that move descriptors give ReholdKeeps what it needs.         *)
Moves(h) ==
    /\ h \in [End -> Nat] /\ Rehold(h)
    /\ descriptors' \in [Proc -> [End -> Nat]]
    /\ \A e \in End : IsFiniteSet(Numbers(e)') /\ h[e] = Cardinality(Numbers(e)')
    /\ \A e \in End : h[e] > 0 => holders[e] > 0
    /\ UNCHANGED <<pipeVars, call, delivered>>

(* What the count of an end is before such a step.                         *)
LEMMA Before ==
    ASSUME PipeInv
    PROVE  /\ descriptors \in [Proc -> [End -> Nat]] /\ holders \in [End -> Nat]
           /\ \A e \in End : IsFiniteSet(Numbers(e)) /\ holders[e] = Cardinality(Numbers(e))
           /\ \A e \in End : \A p \in Proc : descriptors[p][e] > 0 => holders[e] > 0
<1>1. TypeOK /\ Counted /\ OpenWhileHeld
  BY CountedIsOpen DEF PipeInv
<1>2. ASSUME NEW e \in End, NEW p \in Proc, descriptors[p][e] > 0
      PROVE  holders[e] > 0
  BY <1>1, <1>2 DEF Counted, OpenWhileHeld
<1> QED
  BY <1>1, <1>2 DEF TypeOK, Counted

(* Close lowers the holders of its end by one.                             *)
LEMMA CloseMoves ==
    ASSUME PipeInv, NEW p \in Proc, NEW e \in End, Close(p, e)
    PROVE  Moves([holders EXCEPT ![e] = @ - 1])
<1> DEFINE h == [holders EXCEPT ![e] = @ - 1]
<1>1. /\ descriptors \in [Proc -> [End -> Nat]] /\ holders \in [End -> Nat]
      /\ \A f \in End : IsFiniteSet(Numbers(f)) /\ holders[f] = Cardinality(Numbers(f))
      /\ \A f \in End : \A q \in Proc : descriptors[q][f] > 0 => holders[f] > 0
  BY Before
<1>2. descriptors[p][e] > 0 /\ descriptors' = [descriptors EXCEPT ![p][e] = @ - 1]
  BY DEF Close
<1>3. descriptors' \in [Proc -> [End -> Nat]]
  BY <1>1, <1>2
<1>4. h \in [End -> Nat] /\ \A f \in End : h[f] > 0 => holders[f] > 0
  BY <1>1, <1>2
<1>5. IsFiniteSet(Numbers(e)') /\ Cardinality(Numbers(e)') = Cardinality(Numbers(e)) - 1
  BY <1>1, <1>2, <1>3, OneLess DEF PipeInv
<1>6. \A f \in End \ {e} : Numbers(f)' = Numbers(f)
  BY <1>1, <1>2, NoneMoved
<1>7. \A f \in End : IsFiniteSet(Numbers(f)') /\ h[f] = Cardinality(Numbers(f)')
  BY <1>1, <1>5, <1>6
<1> QED
  BY <1>3, <1>4, <1>7 DEF Moves, Close

(* dup raises the holders of its end by one.                               *)
LEMMA DuplicateMoves ==
    ASSUME PipeInv, NEW p \in Proc, NEW e \in End, Duplicate(p, e)
    PROVE  Moves([holders EXCEPT ![e] = @ + 1])
<1> DEFINE h == [holders EXCEPT ![e] = @ + 1]
<1>1. /\ descriptors \in [Proc -> [End -> Nat]] /\ holders \in [End -> Nat]
      /\ \A f \in End : IsFiniteSet(Numbers(f)) /\ holders[f] = Cardinality(Numbers(f))
      /\ \A f \in End : \A q \in Proc : descriptors[q][f] > 0 => holders[f] > 0
  BY Before
<1>2. descriptors[p][e] > 0 /\ descriptors' = [descriptors EXCEPT ![p][e] = @ + 1]
  BY <1>1 DEF Duplicate
<1>3. descriptors' \in [Proc -> [End -> Nat]]
  BY <1>1, <1>2
<1>4. h \in [End -> Nat] /\ \A f \in End : h[f] > 0 => holders[f] > 0
  BY <1>1, <1>2
<1>5. IsFiniteSet(Numbers(e)') /\ Cardinality(Numbers(e)') = Cardinality(Numbers(e)) + 1
  BY <1>1, <1>2, <1>3, OneMore DEF PipeInv
<1>6. \A f \in End \ {e} : Numbers(f)' = Numbers(f)
  BY <1>1, <1>2, NoneMoved
<1>7. \A f \in End : IsFiniteSet(Numbers(f)') /\ h[f] = Cardinality(Numbers(f)')
  BY <1>1, <1>5, <1>6
<1> QED
  BY <1>3, <1>4, <1>7 DEF Moves, Duplicate

(* dup2 raises the holders of one end and lowers those of the end it       *)
(* closes.                                                                 *)
LEMMA DuplicateOverMoves ==
    ASSUME PipeInv, NEW p \in Proc, NEW e \in End, NEW f \in End, DuplicateOver(p, e, f)
    PROVE  Moves([holders EXCEPT ![e] = @ + 1, ![f] = @ - 1])
<1> DEFINE h == [holders EXCEPT ![e] = @ + 1, ![f] = @ - 1]
<1>1. /\ descriptors \in [Proc -> [End -> Nat]] /\ holders \in [End -> Nat]
      /\ \A g \in End : IsFiniteSet(Numbers(g)) /\ holders[g] = Cardinality(Numbers(g))
      /\ \A g \in End : \A q \in Proc : descriptors[q][g] > 0 => holders[g] > 0
  BY Before
<1>2. /\ e # f /\ descriptors[p][e] > 0 /\ descriptors[p][f] > 0
      /\ descriptors' = [descriptors EXCEPT ![p][e] = @ + 1, ![p][f] = @ - 1]
  BY <1>1 DEF DuplicateOver
<1>3. descriptors' \in [Proc -> [End -> Nat]]
  BY <1>1, <1>2
<1>4. h \in [End -> Nat] /\ \A g \in End : h[g] > 0 => holders[g] > 0
  BY <1>1, <1>2
<1>5. /\ descriptors'[p][e] = descriptors[p][e] + 1
      /\ descriptors'[p][f] = descriptors[p][f] - 1
      /\ \A q \in Proc \ {p} : descriptors'[q] = descriptors[q]
      /\ \A g \in End \ {e, f} : descriptors'[p][g] = descriptors[p][g]
  BY <1>1, <1>2
<1>6. IsFiniteSet(Numbers(e)') /\ Cardinality(Numbers(e)') = Cardinality(Numbers(e)) + 1
  BY <1>1, <1>3, <1>5, OneMore DEF PipeInv
<1>7. IsFiniteSet(Numbers(f)') /\ Cardinality(Numbers(f)') = Cardinality(Numbers(f)) - 1
  BY <1>1, <1>2, <1>3, <1>5, OneLess DEF PipeInv
<1>8. End = {e, f}
  BY <1>2 DEF End
<1>9. h[e] = holders[e] + 1 /\ h[f] = holders[f] - 1
  BY <1>1, <1>2
<1>10. \A g \in End : IsFiniteSet(Numbers(g)') /\ h[g] = Cardinality(Numbers(g)')
  BY <1>1, <1>6, <1>7, <1>8, <1>9
<1> QED
  BY <1>3, <1>4, <1>10 DEF Moves, DuplicateOver

(* A fork raises the holders of each end by the parent's descriptors of    *)
(* it.                                                                     *)
LEMMA ForkMoves ==
    ASSUME PipeInv, NEW p \in Proc, NEW q \in Proc, Fork(p, q)
    PROVE  Moves([e \in End |-> holders[e] + descriptors[p][e]])
<1> DEFINE h == [e \in End |-> holders[e] + descriptors[p][e]]
<1>1. /\ descriptors \in [Proc -> [End -> Nat]] /\ holders \in [End -> Nat]
      /\ \A e \in End : IsFiniteSet(Numbers(e)) /\ holders[e] = Cardinality(Numbers(e))
      /\ \A e \in End : \A r \in Proc : descriptors[r][e] > 0 => holders[e] > 0
  BY Before
<1>2. /\ descriptors[q] = [e \in End |-> 0]
      /\ descriptors' = [descriptors EXCEPT ![q] = descriptors[p]]
  BY DEF Fork
<1>3. /\ descriptors' \in [Proc -> [End -> Nat]]
      /\ \A r \in Proc \ {q} : descriptors'[r] = descriptors[r]
      /\ \A e \in End : descriptors[q][e] = 0 /\ descriptors'[q][e] = descriptors[p][e]
  BY <1>1, <1>2
<1>4. h \in [End -> Nat] /\ \A e \in End : h[e] > 0 => holders[e] > 0
  BY <1>1
<1>5. ASSUME NEW e \in End
      PROVE  /\ IsFiniteSet(Numbers(e)')
             /\ Cardinality(Numbers(e)') = Cardinality(Numbers(e)) + descriptors'[q][e]
  BY <1>1, <1>3, RowGained DEF PipeInv
<1>6. \A e \in End : IsFiniteSet(Numbers(e)') /\ h[e] = Cardinality(Numbers(e)')
  BY <1>1, <1>3, <1>5
<1> QED
  BY <1>3, <1>4, <1>6 DEF Moves, Fork

(* An exit lowers the holders of each end by the process's descriptors of  *)
(* it.                                                                     *)
LEMMA ExitMoves ==
    ASSUME PipeInv, NEW p \in Proc, Exit(p)
    PROVE  Moves([e \in End |-> holders[e] - descriptors[p][e]])
<1> DEFINE h == [e \in End |-> holders[e] - descriptors[p][e]]
<1>1. /\ descriptors \in [Proc -> [End -> Nat]] /\ holders \in [End -> Nat]
      /\ \A e \in End : IsFiniteSet(Numbers(e)) /\ holders[e] = Cardinality(Numbers(e))
      /\ \A e \in End : \A r \in Proc : descriptors[r][e] > 0 => holders[e] > 0
  BY Before
<1>2. descriptors' = [descriptors EXCEPT ![p] = [e \in End |-> 0]]
  BY DEF Exit
<1>3. /\ descriptors' \in [Proc -> [End -> Nat]]
      /\ \A r \in Proc \ {p} : descriptors'[r] = descriptors[r]
      /\ \A e \in End : descriptors'[p][e] = 0
  BY <1>1, <1>2
<1>4. ASSUME NEW e \in End
      PROVE  /\ IsFiniteSet(Numbers(e)')
             /\ Cardinality(Numbers(e)') = Cardinality(Numbers(e)) - descriptors[p][e]
  BY <1>1, <1>3, RowLost DEF PipeInv
<1>5. \A e \in End : IsFiniteSet(Numbers(e)') /\ h[e] = Cardinality(Numbers(e)')
  BY <1>1, <1>4
<1>6. h \in [End -> Nat]
  BY <1>5, FS_CardinalityType
<1>7. \A e \in End : h[e] > 0 => holders[e] > 0
  BY <1>1
<1> QED
  BY <1>3, <1>5, <1>6, <1>7 DEF Moves, Exit

(* A new pipe.                                                             *)
LEMMA CreateKeeps ==
    ASSUME PipeInv, NEW p \in Proc, Create(p)
    PROVE  PipeInv'
<1>1. TypeOK /\ Counted /\ Fits /\ InCall /\ SleepersHaveCause /\ OpenWhileHeld
  BY CountedIsOpen DEF PipeInv
<1>2. \A e \in End : files[e] = 0 /\ \A q \in Proc : descriptors[q][e] = 0
  BY <1>1 DEF Create, OpenWhileHeld, TypeOK
<1>3. \A e \in End : IsFiniteSet(Numbers(e)) /\ Cardinality(Numbers(e)) = 0
  <2>1. \A e \in End : Numbers(e) = {}
    BY <1>2 DEF Numbers
  <2> QED
    BY <2>1, FS_EmptySet
<1>4. /\ descriptors' \in [Proc -> [End -> Nat]]
      /\ \A q \in Proc \ {p} : descriptors'[q] = descriptors[q]
      /\ \A e \in End : descriptors'[p][e] = descriptors[p][e] + 1
  BY <1>1, <1>2 DEF Create, TypeOK
<1>5. \A e \in End : IsFiniteSet(Numbers(e)') /\ Cardinality(Numbers(e)') = 1
  BY <1>1, <1>3, <1>4, OneMore
<1>6. \A e \in End : holders'[e] = 1 /\ files'[e] = 1
  BY DEF Create
<1>7. Counted'
  BY <1>5, <1>6 DEF Counted, Create, End
<1>8. Held' = 0
  BY HeldIs, SizeAssumption DEF Create, Held
<1>9. TypeOK'
  <2>1. /\ 0 \in 0 .. IndexModulus - 1 /\ 0 \in Byte
    BY SizeAssumption, TransferAssumption
  <2>2. files' \in [End -> 0 .. 1] /\ holders' \in [End -> Nat]
    BY DEF Create
  <2>3. buffer' \in [0 .. BufferSize - 1 -> Byte] /\ in_use' \in BOOLEAN
    BY <2>1 DEF Create
  <2> QED
    BY <1>1, <1>4, <2>1, <2>2, <2>3 DEF Create, TypeOK
<1>10. Fits' /\ InCall'
  BY <1>1, <1>8, SizeAssumption DEF Fits, InCall, Create
<1>11. ASSUME NEW q \in Proc, status[q] = "asleep"
       PROVE  /\ call[q].op = "poll" /\ "r" \notin call[q].ends
  BY <1>1, <1>2, <1>11, CallKinds DEF SleepersHaveCause, InCall, Readable, End
<1>12. SleepersHaveCause'
  BY <1>11 DEF SleepersHaveCause, Create
<1> QED
  BY <1>7, <1>9, <1>10, <1>12 DEF PipeInv

(* A step that leaves descriptors and ends alone and is sound for bytes    *)
(* and sleepers is sound.                                                  *)
LEMMA EndsUntouched ==
    ASSUME PipeInv, UNCHANGED endVars, TypeOK', Fits', InCall', SleepersHaveCause'
    PROVE  PipeInv'
<1>1. \A e \in End : Numbers(e)' = Numbers(e)
  BY DEF Numbers, endVars
<1>2. Counted'
  BY <1>1 DEF PipeInv, Counted, endVars
<1> QED
  BY <1>2 DEF PipeInv

(* A call returns and wakes nobody, with the pipe as it was.               *)
LEMMA PlainReturn ==
    ASSUME PipeInv, NEW p \in Proc, Return(p, status), UNCHANGED pipeVars,
           delivered' \in Seq(Byte)
    PROVE  PipeInv'
<1>1. TypeOK /\ Fits /\ InCall /\ SleepersHaveCause
  BY DEF PipeInv
<1>2. /\ UNCHANGED endVars /\ status' = [status EXCEPT ![p] = "idle"]
      /\ call' = [call EXCEPT ![p] = NoCall]
  BY DEF Return
<1>3. Held' = Held /\ Room' = Room /\ files' = files
  BY <1>2 DEF Held, Room, pipeVars, endVars
<1>4. \A q \in Proc : status'[q] # "idle" =>
         status'[q] = status[q] /\ call'[q] = call[q]
  BY <1>1, <1>2 DEF TypeOK
<1>5. status' \in [Proc -> {"idle", "asleep", "woken"}]
        /\ call' \in [Proc -> Requests \cup {NoCall}]
  BY <1>1, <1>2 DEF TypeOK
<1>6. TypeOK'
  BY <1>1, <1>2, <1>5 DEF TypeOK, endVars, pipeVars
<1>7. Fits' /\ InCall'
  BY <1>1, <1>3, <1>4 DEF Fits, InCall
<1>8. SleepersHaveCause'
  BY <1>1, <1>3, <1>4 DEF SleepersHaveCause, Readable
<1> QED
  BY <1>2, <1>6, <1>7, <1>8, EndsUntouched

(* A call goes to sleep for a reason.                                      *)
LEMMA SleepKeeps ==
    ASSUME PipeInv, NEW p \in Proc, NEW c \in Requests, GoesToSleep(p, c),
           c.op = "read" => Held = 0 /\ files["w"] > 0,
           c.op = "write" => Room < Len(c.block) /\ files["r"] > 0,
           c.op = "poll" => ~("r" \in c.ends /\ Readable)
    PROVE  PipeInv'
<1>1. TypeOK /\ Fits /\ InCall /\ SleepersHaveCause
  BY DEF PipeInv
<1>2. /\ UNCHANGED endVars /\ status' = [status EXCEPT ![p] = "asleep"]
      /\ call' = [call EXCEPT ![p] = c] /\ UNCHANGED <<pipeVars, delivered>>
  BY DEF GoesToSleep
<1>3. Held' = Held /\ Room' = Room /\ files' = files
  BY <1>2 DEF Held, Room, pipeVars, endVars
<1>4. \A q \in Proc : q # p => status'[q] = status[q] /\ call'[q] = call[q]
  BY <1>1, <1>2 DEF TypeOK
<1>5. status'[p] = "asleep" /\ call'[p] = c
  BY <1>1, <1>2 DEF TypeOK
<1>6. status' \in [Proc -> {"idle", "asleep", "woken"}]
        /\ call' \in [Proc -> Requests \cup {NoCall}]
  BY <1>1, <1>2 DEF TypeOK
<1>7. TypeOK'
  BY <1>1, <1>2, <1>6 DEF TypeOK, endVars, pipeVars
<1>8. Fits' /\ InCall'
  BY <1>1, <1>3, <1>4, <1>5 DEF Fits, InCall
<1>9. c.op \in {"read", "write", "poll"}
  BY CallKinds
<1>10. SleepersHaveCause'
  BY <1>1, <1>3, <1>4, <1>5, <1>9 DEF SleepersHaveCause, Readable
<1> QED
  BY <1>2, <1>7, <1>8, <1>10, EndsUntouched

(* Bytes move, and whoever sleeps upon them is woken.                      *)
LEMMA TransferKeeps ==
    ASSUME PipeInv, NEW p \in Proc, NEW ops, Return(p, Wake(ops)), OnPipe \subseteq ops,
           buffer' \in [0 .. BufferSize - 1 -> Byte],
           read_index' \in 0 .. IndexModulus - 1, write_index' \in 0 .. IndexModulus - 1,
           Fits', delivered' \in Seq(Byte),
           "poll" \in ops \/ Held > 0
    PROVE  PipeInv'
<1>1. TypeOK /\ Fits /\ InCall /\ SleepersHaveCause
  BY DEF PipeInv
<1>2. /\ UNCHANGED endVars /\ status' = [Wake(ops) EXCEPT ![p] = "idle"]
      /\ call' = [call EXCEPT ![p] = NoCall]
  BY DEF Return
<1>3. Wake(ops) \in [Proc -> {"idle", "asleep", "woken"}]
  BY <1>1 DEF TypeOK, Wake
<1>4. ASSUME NEW q \in Proc, status'[q] # "idle"
      PROVE  /\ call'[q] = call[q] /\ status[q] # "idle" /\ call[q] \in Requests
             /\ status'[q] = "asleep" => status[q] = "asleep" /\ call[q].op \notin ops
  BY <1>1, <1>2, <1>3, <1>4 DEF Wake, TypeOK, InCall
<1>5. status' \in [Proc -> {"idle", "asleep", "woken"}]
        /\ call' \in [Proc -> Requests \cup {NoCall}]
  BY <1>1, <1>2, <1>3 DEF TypeOK
<1>6. TypeOK'
  BY <1>1, <1>2, <1>5 DEF TypeOK, endVars
<1>7. InCall'
  BY <1>4 DEF InCall
<1>8. ASSUME NEW q \in Proc, status'[q] = "asleep"
      PROVE  call'[q].op = "poll" /\ "r" \notin call'[q].ends
  <2>1. /\ status[q] = "asleep" /\ call'[q] = call[q] /\ call[q].op \notin ops
        /\ call[q].op \in {"read", "write", "poll"}
    BY <1>4, <1>8, CallKinds
  <2>2. call[q].op = "poll"
    BY <2>1 DEF OnPipe
  <2>3. "r" \in call[q].ends => ~Readable
    BY <1>1, <2>1, <2>2 DEF SleepersHaveCause
  <2>4. Held > 0
    BY <2>1, <2>2
  <2> QED
    BY <2>1, <2>2, <2>3, <2>4 DEF Readable
<1>9. SleepersHaveCause'
  BY <1>8 DEF SleepersHaveCause
<1> QED
  BY <1>2, <1>6, <1>7, <1>9, EndsUntouched

(* PipeRead that finds bytes keeps the invariant and takes at least one,   *)
(* and no more than are held or asked for.                                 *)
LEMMA ReadSomeKeeps ==
    ASSUME PipeInv, NEW p \in Proc, NEW c \in Requests, ReadSome(p, c)
    PROVE  PipeInv' /\ ReadCount(c) \in 1 .. Held /\ ReadCount(c) <= c.length
<1>1. TypeOK /\ Fits
  BY DEF PipeInv
<1>2. c.length \in 1 .. BufferSize
  BY CallKinds, TransferAssumption DEF ReadSome
<1>3. Held \in 1 .. BufferSize
  BY <1>1, HeldBounds DEF ReadSome
<1>4. ReadCount(c) \in 1 .. Held /\ ReadCount(c) <= c.length
  BY <1>2, <1>3 DEF ReadCount
<1>5. read_index' \in 0 .. IndexModulus - 1 /\ Held' = Held - ReadCount(c)
  BY <1>1, <1>4, AfterRead DEF ReadSome
<1>6. Fits'
  BY <1>3, <1>4, <1>5, SizeAssumption DEF Fits
<1>7. delivered' \in Seq(Byte)
  <2>1. delivered' = [i \in 1 .. ReadCount(c) |-> buffer[(read_index + i - 1) % BufferSize]]
    BY DEF ReadSome
  <2>2. ASSUME NEW i \in 1 .. ReadCount(c)
        PROVE  buffer[(read_index + i - 1) % BufferSize] \in Byte
    <3>1. read_index + i - 1 \in Int
      BY <1>1, HeldBounds
    <3>2. (read_index + i - 1) % BufferSize \in 0 .. BufferSize - 1
      BY <3>1, SizeAssumption, ModWhole
    <3> QED
      BY <3>2, <1>1 DEF TypeOK
  <2>3. ReadCount(c) \in Nat
    BY <1>4, <1>3
  <2> QED
    BY <2>1, <2>2, <2>3
<1>8. Return(p, Wake(OnPipe)) /\ buffer' = buffer /\ write_index' = write_index
  BY DEF ReadSome
<1>9. PipeInv'
  BY <1>1, <1>3, <1>5, <1>6, <1>7, <1>8, TransferKeeps DEF TypeOK
<1> QED
  BY <1>4, <1>9

(* PipeWrite that finds room keeps the invariant and adds its whole block. *)
LEMMA WriteAllKeeps ==
    ASSUME PipeInv, NEW p \in Proc, NEW c \in Requests, WriteAll(p, c)
    PROVE  PipeInv' /\ c.block \in Blocks /\ Held + Len(c.block) <= BufferSize
                    /\ Held' = Held + Len(c.block)
<1>1. TypeOK /\ Fits
  BY DEF PipeInv
<1>2. c.block \in Blocks /\ Len(c.block) \in 1 .. BufferSize
  BY CallKinds, TransferAssumption DEF WriteAll
<1>3. Held + Len(c.block) <= BufferSize
  BY <1>1, <1>2, HeldBounds DEF WriteAll, Room
<1>4. write_index' \in 0 .. IndexModulus - 1 /\ Held' = Held + Len(c.block)
  BY <1>1, <1>2, <1>3, AfterWrite DEF WriteAll
<1>5. buffer' \in [0 .. BufferSize - 1 -> Byte]
  BY <1>1, <1>2, <1>3, BlockPlaced DEF WriteAll
<1>6. Fits'
  BY <1>3, <1>4 DEF Fits
<1>7. /\ Return(p, Wake(OnPipe \cup Pollers)) /\ read_index' = read_index
      /\ delivered' = delivered
  BY DEF WriteAll
<1>8. PipeInv'
  BY <1>1, <1>4, <1>5, <1>6, <1>7, TransferKeeps DEF TypeOK, Pollers
<1> QED
  BY <1>2, <1>3, <1>4, <1>8

(* An attempt of a call, whichever way it goes, keeps the invariant.       *)
LEMMA AttemptKeeps ==
    ASSUME PipeInv, NEW p \in Proc, NEW c \in Requests, Attempt(p, c)
    PROVE  PipeInv'
<1>1. TypeOK
  BY DEF PipeInv
<1>2. \A e \in End : files[e] \in 0 .. 1
  BY <1>1 DEF TypeOK
<1>3. CASE ReadSome(p, c)
  BY <1>3, ReadSomeKeeps
<1>4. CASE ReadEnd(p, c)
  <2>1. delivered' \in Seq(Byte)
    BY <1>4 DEF ReadEnd
  <2> QED
    BY <1>4, <2>1, PlainReturn DEF ReadEnd
<1>5. CASE ReadSleep(p, c)
  BY <1>5, <1>2, SleepKeeps DEF ReadSleep, End
<1>6. CASE WriteBroken(p, c)
  BY <1>6, <1>1, PlainReturn DEF WriteBroken, TypeOK
<1>7. CASE WriteAll(p, c)
  BY <1>7, WriteAllKeeps
<1>8. CASE WriteSleep(p, c)
  BY <1>8, <1>2, SleepKeeps DEF WriteSleep, End
<1>9. CASE PollReady(p, c)
  BY <1>9, <1>1, PlainReturn DEF PollReady, TypeOK
<1>10. CASE PollSleep(p, c)
  BY <1>10, SleepKeeps DEF PollSleep
<1> QED
  BY <1>3, <1>4, <1>5, <1>6, <1>7, <1>8, <1>9, <1>10 DEF Attempt

(* Waking those that poll keeps the invariant.                             *)
LEMMA PollersWokenKeeps ==
    ASSUME PipeInv, PollersWoken
    PROVE  PipeInv'
<1>1. TypeOK /\ Fits /\ InCall /\ SleepersHaveCause
  BY DEF PipeInv
<1>2. status' = Wake(Pollers) /\ UNCHANGED <<pipeVars, endVars, call, delivered>>
  BY DEF PollersWoken
<1>3. Held' = Held /\ Room' = Room /\ files' = files
  BY <1>2 DEF Held, Room, pipeVars, endVars
<1>4. status' \in [Proc -> {"idle", "asleep", "woken"}]
  BY <1>1, <1>2 DEF Wake, TypeOK
<1>5. \A q \in Proc : /\ status'[q] # "idle" => status[q] # "idle"
                      /\ status'[q] = "asleep" => status[q] = "asleep"
  BY <1>1, <1>2 DEF Wake, TypeOK
<1>6. TypeOK'
  BY <1>1, <1>2, <1>4 DEF TypeOK, pipeVars, endVars
<1>7. Fits' /\ InCall'
  BY <1>1, <1>2, <1>3, <1>5 DEF Fits, InCall
<1>8. SleepersHaveCause'
  BY <1>1, <1>2, <1>3, <1>5 DEF SleepersHaveCause, Readable
<1> QED
  BY <1>2, <1>6, <1>7, <1>8, EndsUntouched

(* The invariant is inductive.                                             *)
THEOREM PipeInductive == PipeInv /\ [Next]_vars => PipeInv'
<1> SUFFICES ASSUME PipeInv, [Next]_vars PROVE PipeInv'
  OBVIOUS
<1>1. ASSUME NEW h, Moves(h) PROVE PipeInv'
  BY <1>1, ReholdKeeps DEF Moves
<1>2. ASSUME NEW p \in Proc, Create(p) PROVE PipeInv'
  BY <1>2, CreateKeeps
<1>3. ASSUME NEW p \in Proc, NEW e \in End, Close(p, e) PROVE PipeInv'
  BY <1>1, <1>3, CloseMoves
<1>4. ASSUME NEW p \in Proc, NEW e \in End, Duplicate(p, e) PROVE PipeInv'
  BY <1>1, <1>4, DuplicateMoves
<1>5. ASSUME NEW p \in Proc, NEW e \in End, NEW f \in End, DuplicateOver(p, e, f)
      PROVE  PipeInv'
  BY <1>1, <1>5, DuplicateOverMoves
<1>6. ASSUME NEW p \in Proc, NEW q \in Proc, Fork(p, q) PROVE PipeInv'
  BY <1>1, <1>6, ForkMoves
<1>7. ASSUME NEW p \in Proc, Exit(p) PROVE PipeInv'
  BY <1>1, <1>7, ExitMoves
<1>8. ASSUME NEW p \in Proc, NEW c \in Requests, Attempt(p, c) PROVE PipeInv'
  BY <1>8, AttemptKeeps
<1>9. ASSUME NEW p \in Proc, Interrupted(p) PROVE PipeInv'
  BY <1>9, PlainReturn DEF Interrupted, PipeInv, TypeOK
<1>10. CASE PollersWoken
  BY <1>10, PollersWokenKeeps
<1>11. CASE UNCHANGED vars
  <2>1. TypeOK' /\ UNCHANGED endVars
    BY <1>11 DEF vars, PipeInv, TypeOK, endVars
  <2>2. Held' = Held /\ Room' = Room /\ files' = files /\ call' = call /\ status' = status
    BY <1>11 DEF vars, Held, Room
  <2>3. Fits' /\ InCall'
    BY <2>2 DEF PipeInv, Fits, InCall
  <2>4. SleepersHaveCause'
    BY <2>2 DEF PipeInv, SleepersHaveCause, Readable
  <2> QED
    BY <2>1, <2>3, <2>4, EndsUntouched
<1> QED
  BY <1>2, <1>3, <1>4, <1>5, <1>6, <1>7, <1>8, <1>9, <1>10, <1>11 DEF Next

(* The inductive invariant holds throughout.                               *)
LEMMA PipeAlways == Spec => []PipeInv
BY InitPipe, PipeInductive, PTL DEF Spec

(* Whoever sleeps in VfsPipeRead, VfsPipeWrite or poll has a reason to: no *)
(* transfer, close or exit of another leaves a sleeper behind unwoken.     *)
THEOREM NoWakeLost == Spec => []SleepersHaveCause
<1>1. PipeInv => SleepersHaveCause
  BY DEF PipeInv
<1> QED
  BY <1>1, PipeAlways, PTL

(* An end is open exactly while a process can name it, however forks,      *)
(* dup2s, closes and exits fall.                                           *)
THEOREM EndsExact == Spec => []OpenWhileHeld
<1>1. PipeInv => OpenWhileHeld
  BY CountedIsOpen DEF PipeInv
<1> QED
  BY <1>1, PipeAlways, PTL

-----------------------------------------------------------------------------
(* The pipe implements the queue of module Fifo.                           *)

Bytes == IF in_use THEN HeldBytes ELSE <<>>
OpenEnds == {e \in End : files[e] = 1}

(* What the queue is, read from the invariant.                             *)
Queued ==
    /\ Held \in 0 .. BufferSize
    /\ HeldBytes \in Seq(Byte) /\ Len(HeldBytes) = Held
    /\ \A i \in 1 .. Held : HeldBytes[i] = buffer[(read_index + i - 1) % BufferSize]
    /\ in_use <=> OpenEnds # {}

(* The bytes between the two indices form the queue that the refinement    *)
(* shows.                                                                  *)
LEMMA BytesAre == PipeInv => Queued
<1> SUFFICES ASSUME PipeInv PROVE Queued
  OBVIOUS
<1>1. TypeOK /\ Fits /\ Counted
  BY DEF PipeInv
<1>2. /\ Held \in 0 .. BufferSize /\ BufferSize \in Nat \ {0} /\ read_index \in Int
  BY <1>1, HeldBounds
<1>3. Held \in Nat
  BY <1>2
<1>4. ASSUME NEW i \in 1 .. Held
      PROVE  buffer[(read_index + i - 1) % BufferSize] \in Byte
  <2>1. read_index + i - 1 \in Int
    BY <1>2
  <2>2. (read_index + i - 1) % BufferSize \in 0 .. BufferSize - 1
    BY <2>1, <1>2, ModWhole
  <2> QED
    BY <2>2, <1>1 DEF TypeOK
<1>5. HeldBytes \in Seq(Byte) /\ Len(HeldBytes) = Held
  BY <1>3, <1>4 DEF HeldBytes
<1>6. in_use <=> OpenEnds # {}
  BY <1>1 DEF Counted, OpenEnds
<1> QED
  BY <1>2, <1>5, <1>6 DEF HeldBytes, Queued

(* A read takes the oldest bytes off the queue.                            *)
LEMMA ReadGets ==
    ASSUME PipeInv, NEW p \in Proc, NEW c \in Requests, ReadSome(p, c)
    PROVE  c.length \in Lengths /\ Queue!Get(c.length)
<1> DEFINE n == ReadCount(c)
<1>1. TypeOK /\ Fits
  BY DEF PipeInv
<1>2. PipeInv' /\ n \in 1 .. Held /\ c.length \in Lengths
  BY ReadSomeKeeps, CallKinds DEF ReadSome
<1>3. in_use /\ "r" \in OpenEnds
  BY HasOpen DEF ReadSome, OpenEnds, End
<1>4. UNCHANGED <<in_use, files>> /\ buffer' = buffer
  BY DEF ReadSome, Return, endVars
<1>5. /\ Held \in 0 .. BufferSize /\ Held \in Nat
      /\ HeldBytes \in Seq(Byte) /\ Len(HeldBytes) = Held
      /\ \A i \in 1 .. Held : HeldBytes[i] = buffer[(read_index + i - 1) % BufferSize]
  BY BytesAre, SizeAssumption DEF Queued
<1>6. /\ Held' = Held - n
      /\ \A i \in Int : (read_index' + i) % BufferSize = (read_index + n + i) % BufferSize
  BY <1>1, <1>2, AfterRead DEF ReadSome
<1>7. /\ HeldBytes' \in Seq(Byte) /\ Len(HeldBytes') = Held - n
      /\ \A i \in 1 .. Held - n :
            HeldBytes'[i] = buffer[(read_index' + i - 1) % BufferSize]
  <2>1. Queued'
    BY <1>2, BytesAre, PTL
  <2> QED
    BY <2>1, <1>4, <1>6 DEF Queued
<1>8. delivered' = SubSeq(HeldBytes, 1, n)
  <2>1. delivered' = [i \in 1 .. n |-> buffer[(read_index + i - 1) % BufferSize]]
    BY DEF ReadSome
  <2>2. SubSeq(HeldBytes, 1, n) = [i \in 1 .. n |-> HeldBytes[i]]
    BY <1>2, <1>5
  <2> QED
    BY <2>1, <2>2, <1>2, <1>5
<1>9. HeldBytes' = SubSeq(HeldBytes, n + 1, Held)
  <2>1. /\ SubSeq(HeldBytes, n + 1, Held) \in Seq(Byte)
        /\ Len(SubSeq(HeldBytes, n + 1, Held)) = Held - n
        /\ \A i \in 1 .. Held - n : SubSeq(HeldBytes, n + 1, Held)[i] = HeldBytes[n + i]
    BY <1>2, <1>5, SMTT(30)
  <2>2. ASSUME NEW i \in 1 .. Held - n
        PROVE  HeldBytes'[i] = HeldBytes[n + i]
    <3>1. n + i \in 1 .. Held /\ i - 1 \in Int /\ read_index \in Int /\ read_index' \in Int
      BY <1>1, <1>2, <1>5, HeldBounds, SizeAssumption DEF PipeInv, TypeOK
    <3>2. (read_index' + (i - 1)) % BufferSize = (read_index + n + (i - 1)) % BufferSize
      BY <1>6, <3>1
    <3>3. /\ read_index' + (i - 1) = read_index' + i - 1
          /\ read_index + n + (i - 1) = read_index + (n + i) - 1
      BY <3>1, <1>2, <1>5
    <3> QED
      BY <3>1, <3>2, <3>3, <1>5, <1>7
  <2> QED
    BY <2>1, <2>2, <1>7, SeqEqual
<1>10. n = IF Len(HeldBytes) < c.length THEN Len(HeldBytes) ELSE c.length
  BY <1>5 DEF ReadCount
<1>11. HeldBytes # <<>>
  BY <1>2, <1>5
<1> QED
  BY <1>2, <1>3, <1>4, <1>5, <1>8, <1>9, <1>10, <1>11 DEF Queue!Get, OpenEnds

(* A write puts its block behind all that is held.                         *)
LEMMA WritePuts ==
    ASSUME PipeInv, NEW p \in Proc, NEW c \in Requests, WriteAll(p, c)
    PROVE  c.block \in Blocks /\ Queue!Put(c.block)
<1> DEFINE b == c.block
<1>1. TypeOK /\ Fits
  BY DEF PipeInv
<1>2. PipeInv' /\ b \in Blocks /\ Held + Len(b) <= BufferSize /\ Held' = Held + Len(b)
  BY WriteAllKeeps
<1>3. b \in Seq(Byte) /\ Len(b) \in Nat
  BY <1>2, TransferAssumption
<1> HIDE DEF b
<1>4. in_use /\ OpenEnds = {"r", "w"}
  <2>1. files["w"] = 1 /\ in_use
    BY HasOpen DEF WriteAll, End
  <2>2. files["r"] = 1
    BY <1>1 DEF WriteAll, End, TypeOK
  <2> QED
    BY <2>1, <2>2 DEF OpenEnds, End
<1>5. UNCHANGED <<in_use, files, read_index, delivered>> /\ buffer' = WithBlock(b)
  BY DEF WriteAll, Return, endVars, b
<1>6. /\ Held \in Nat
      /\ HeldBytes \in Seq(Byte) /\ Len(HeldBytes) = Held
      /\ \A i \in 1 .. Held : HeldBytes[i] = buffer[(read_index + i - 1) % BufferSize]
  BY BytesAre, SizeAssumption DEF Queued
<1>7. /\ HeldBytes' \in Seq(Byte) /\ Len(HeldBytes') = Held + Len(b)
      /\ \A i \in 1 .. Held + Len(b) :
            HeldBytes'[i] = WithBlock(b)[(read_index + i - 1) % BufferSize]
  <2>1. Queued'
    BY <1>2, BytesAre, PTL
  <2> QED
    BY <2>1, <1>2, <1>5 DEF Queued
<1>8. /\ \A i \in 1 .. Len(b) :
            WithBlock(b)[(read_index + Held + i - 1) % BufferSize] = b[i]
      /\ \A i \in 1 .. Held :
            WithBlock(b)[(read_index + i - 1) % BufferSize]
              = buffer[(read_index + i - 1) % BufferSize]
  BY <1>1, <1>2, BlockPlaced
<1>9. /\ HeldBytes \o b \in Seq(Byte) /\ Len(HeldBytes \o b) = Held + Len(b)
      /\ \A i \in 1 .. Held + Len(b) : (HeldBytes \o b)[i] =
            IF i <= Held THEN HeldBytes[i] ELSE b[i - Held]
  BY <1>3, <1>6, ConcatProperties
<1>10. ASSUME NEW i \in 1 .. Held + Len(b)
       PROVE  HeldBytes'[i] = (HeldBytes \o b)[i]
  <2>1. CASE i <= Held
    <3>1. i \in 1 .. Held
      BY <2>1, <1>6
    <3>2. HeldBytes'[i] = WithBlock(b)[(read_index + i - 1) % BufferSize]
      BY <1>7
    <3>3. WithBlock(b)[(read_index + i - 1) % BufferSize] = HeldBytes[i]
      BY <3>1, <1>6, <1>8
    <3>4. (HeldBytes \o b)[i] = HeldBytes[i]
      BY <2>1, <1>9
    <3> QED
      BY <3>2, <3>3, <3>4
  <2>2. CASE i > Held
    <3>1. i - Held \in 1 .. Len(b) /\ read_index \in Int
      BY <2>2, <1>1, <1>3, <1>6, HeldBounds
    <3>2. WithBlock(b)[(read_index + Held + (i - Held) - 1) % BufferSize] = b[i - Held]
      BY <3>1, <1>8
    <3>3. read_index + Held + (i - Held) - 1 = read_index + i - 1
      BY <3>1, <1>6
    <3>4. ~(i <= Held)
      BY <2>2, <1>6
    <3> QED
      BY <3>2, <3>3, <3>4, <1>7, <1>9
  <2> QED
    BY <2>1, <2>2, <1>6
<1>11. HeldBytes' = HeldBytes \o b
  BY <1>7, <1>9, <1>10, SeqEqual
<1>12. Bytes = HeldBytes /\ Bytes' = HeldBytes' /\ OpenEnds' = OpenEnds
  BY <1>4, <1>5 DEF Bytes, OpenEnds
<1>13. Len(Bytes) + Len(b) <= BufferSize
  BY <1>2, <1>6, <1>12
<1>14. Queue!Put(b)
  BY <1>4, <1>5, <1>11, <1>12, <1>13 DEF Queue!Put, Bytes, OpenEnds
<1> QED
  BY <1>2, <1>14 DEF b

(* A step that changes neither bytes nor ends nor what was delivered.      *)
LEMMA QueueStutters ==
    ASSUME UNCHANGED <<pipeVars, files, in_use, delivered>>
    PROVE  UNCHANGED Queue!fifoVars
<1>1. HeldBytes' = HeldBytes
  BY DEF HeldBytes, Held, pipeVars
<1> QED
  BY <1>1 DEF Queue!fifoVars

(* Descriptors move: ends are closed, or nothing is to be seen.            *)
LEMMA MovesShut ==
    ASSUME PipeInv, NEW h, Moves(h)
    PROVE  Queue!FifoNext \/ UNCHANGED Queue!fifoVars
<1> DEFINE released == {e \in End : holders[e] > 0 /\ h[e] = 0}
<1>1. /\ files' = [e \in End |-> IF e \in released THEN files[e] - 1 ELSE files[e]]
      /\ in_use' = (in_use /\ (released # {} => \E e \in End : files'[e] # 0))
      /\ UNCHANGED <<pipeVars, delivered>>
  BY DEF Moves, Rehold
<1>2. TypeOK /\ Counted /\ PipeInv'
  BY ReholdKeeps DEF PipeInv, Moves
<1>3. HeldBytes' = HeldBytes
  BY <1>1 DEF HeldBytes, Held, pipeVars
<1>4. CASE released = {}
  <2>1. files' = files /\ in_use' = in_use
    BY <1>1, <1>2, <1>4 DEF TypeOK
  <2> QED
    BY <2>1, <1>1, QueueStutters
<1>5. CASE released # {}
  <2>1. \A e \in End : files[e] = IF holders[e] > 0 THEN 1 ELSE 0
    BY <1>2 DEF Counted
  <2>2. released \subseteq OpenEnds
    BY <2>1 DEF OpenEnds
  <2>3. OpenEnds' = OpenEnds \ released
    <3>1. \A e \in End : files'[e] = 1 <=> files[e] = 1 /\ e \notin released
      BY <1>1, <1>2, <2>1 DEF TypeOK
    <3> QED
      BY <3>1 DEF OpenEnds
  <2>4. in_use
    BY <1>2, <2>2, <1>5 DEF Counted, OpenEnds
  <2>5. in_use' <=> OpenEnds' # {}
    BY <1>2 DEF PipeInv, Counted, OpenEnds
  <2>6. Bytes' = IF OpenEnds' = {} THEN <<>> ELSE Bytes
    BY <1>3, <2>4, <2>5 DEF Bytes
  <2>7. PICK ends \in SUBSET {"r", "w"} : ends = released
    BY DEF End
  <2>8. Queue!Shut(ends)
    BY <1>1, <1>5, <2>2, <2>3, <2>6, <2>7 DEF Queue!Shut, Bytes, OpenEnds
  <2> QED
    BY <2>8 DEF Queue!FifoNext
<1> QED
  BY <1>4, <1>5

(* PipeCreate opens an empty queue.                                        *)
LEMMA CreateOpens ==
    ASSUME PipeInv, NEW p \in Proc, Create(p)
    PROVE  Queue!Open
<1>1. PipeInv' /\ ~in_use /\ in_use' /\ delivered' = delivered
  BY CreateKeeps DEF Create
<1>2. OpenEnds = {}
  BY <1>1, BytesAre DEF Queued
<1>3. OpenEnds' = {"r", "w"}
  BY DEF Create, OpenEnds, End
<1>4. Held' = 0
  BY HeldIs, SizeAssumption DEF Create, Held
<1>5. Queued'
  BY <1>1, BytesAre, PTL
<1>6. HeldBytes' = <<>>
  BY <1>4, <1>5 DEF Queued
<1> QED
  BY <1>1, <1>2, <1>3, <1>6 DEF Queue!Open, OpenEnds

(* Every step of the pipe is a step of the queue, or one it cannot see.    *)
LEMMA QueueStep == PipeInv /\ [Next]_vars => [Queue!FifoNext]_(Queue!fifoVars)
<1> SUFFICES ASSUME PipeInv, [Next]_vars
             PROVE  Queue!FifoNext \/ UNCHANGED Queue!fifoVars
  OBVIOUS
<1>1. ASSUME NEW p \in Proc, Create(p) PROVE Queue!FifoNext
  BY <1>1, CreateOpens DEF Queue!FifoNext
<1>2. ASSUME NEW p \in Proc, NEW e \in End, Close(p, e) \/ Duplicate(p, e)
      PROVE  Queue!FifoNext \/ UNCHANGED Queue!fifoVars
  BY <1>2, CloseMoves, DuplicateMoves, MovesShut
<1>3. ASSUME NEW p \in Proc, NEW e \in End, NEW f \in End, DuplicateOver(p, e, f)
      PROVE  Queue!FifoNext \/ UNCHANGED Queue!fifoVars
  BY <1>3, DuplicateOverMoves, MovesShut
<1>4. ASSUME NEW p \in Proc, NEW q \in Proc, Fork(p, q)
      PROVE  Queue!FifoNext \/ UNCHANGED Queue!fifoVars
  BY <1>4, ForkMoves, MovesShut
<1>5. ASSUME NEW p \in Proc, Exit(p)
      PROVE  Queue!FifoNext \/ UNCHANGED Queue!fifoVars
  BY <1>5, ExitMoves, MovesShut
<1>6. ASSUME NEW p \in Proc, NEW c \in Requests, Attempt(p, c)
      PROVE  Queue!FifoNext \/ UNCHANGED Queue!fifoVars
  <2>1. CASE ReadSome(p, c)
    BY <2>1, ReadGets DEF Queue!FifoNext
  <2>2. CASE WriteAll(p, c)
    BY <2>2, WritePuts DEF Queue!FifoNext
  <2>3. CASE ReadEnd(p, c)
    <3>1. files["r"] = 1 /\ in_use /\ files["w"] = 0 /\ Held = 0
      BY <2>3, HasOpen DEF ReadEnd, End
    <3>2. OpenEnds = {"r"}
      BY <3>1 DEF OpenEnds, End
    <3>3. HeldBytes = <<>>
      BY <3>1, BytesAre DEF Queued
    <3>4. UNCHANGED <<pipeVars, files, in_use>> /\ delivered' = <<>>
      BY <2>3 DEF ReadEnd, Return, endVars
    <3>5. HeldBytes' = HeldBytes
      BY <3>4 DEF HeldBytes, Held, pipeVars
    <3>6. Queue!GetEnd
      BY <3>1, <3>2, <3>3, <3>4, <3>5 DEF Queue!GetEnd, OpenEnds
    <3> QED
      BY <3>6 DEF Queue!FifoNext
  <2>4. CASE \/ ReadSleep(p, c) \/ WriteBroken(p, c) \/ WriteSleep(p, c)
             \/ PollReady(p, c) \/ PollSleep(p, c)
    BY <2>4, QueueStutters DEF ReadSleep, WriteBroken, WriteSleep, PollReady, PollSleep,
                               GoesToSleep, Return, endVars
  <2> QED
    BY <1>6, <2>1, <2>2, <2>3, <2>4 DEF Attempt
<1>7. ASSUME NEW p \in Proc, Interrupted(p)
      PROVE  UNCHANGED Queue!fifoVars
  BY <1>7, QueueStutters DEF Interrupted, Return, endVars
<1>8. CASE PollersWoken
  BY <1>8, QueueStutters DEF PollersWoken, endVars
<1>9. CASE UNCHANGED vars
  BY <1>9, QueueStutters DEF vars, pipeVars
<1> QED
  BY <1>1, <1>2, <1>3, <1>4, <1>5, <1>6, <1>7, <1>8, <1>9 DEF Next

(* The pipe is a queue to the programs at its ends: whatever is read was   *)
(* written, once, in order, block by block, and the end of the file comes  *)
(* after the last byte.                                                    *)
THEOREM PipeIsFifo == Spec => IsFifo
<1>1. Init => Queue!Start
  BY DEF Init, Queue!Start
<1> QED
  BY <1>1, QueueStep, PipeAlways, PTL DEF Spec, IsFifo, Queue!FifoSpec

-----------------------------------------------------------------------------
(***************************************************************************)
(* The shell's jobs, for any number of children, any table and any length  *)
(* of pipelines: the table agrees with the kernel, and the terminal comes  *)
(* back.                                                                   *)
(***************************************************************************)

(* While a pipeline is made.                                               *)
Building == {"next", "forked", "joined"}

(* A slot in use or not; what a job says of itself follows from its        *)
(* children.                                                               *)
TableSound ==
    \A j \in Slot :
        /\ ~table[j].used => table[j] = NoJob
        /\ table[j].stopped \subseteq table[j].live
        /\ table[j].state = "done" => table[j].live = {}
        /\ table[j].state = "stopped" => table[j].live \subseteq table[j].stopped
        /\ table[j].state = "running" /\ table[j].live # {} =>
              ~(table[j].live \subseteq table[j].stopped)

(* The children of a job are the kernel's, are in its group or on their    *)
(* way into it, and one the job has as stopped had reached its program.    *)
MembersStand ==
    \A j \in Slot : \A p \in table[j].live :
        /\ child[p].state # "none"
        /\ table[j].group # 0
        /\ hasTerminal => child[p].group = table[j].group
        /\ child[p].stands # "program" => child[p].aim = table[j].group
        /\ ~early /\ p \in table[j].stopped => child[p].stands = "program"

(* A child is of one job.                                                  *)
OneOwner == \A i, j \in Slot : i # j => table[i].live \cap table[j].live = {}

(* What holds of a child before its program: it is on its way, and not     *)
(* stopped unless something sent it SIGSTOP.                               *)
ChildrenStand ==
    \A p \in Pid :
        /\ child[p].state # "none" /\ ~hasTerminal => child[p].group = Own
        /\ child[p].stands = "gives" => child[p].takes
        /\ child[p].takes => child[p].stands # "program" /\ child[p].state # "none"
        /\ child[p].stands # "program" => hasTerminal
        /\ child[p].state = "stopped" /\ ~early => child[p].stands = "program"

(* Where the shell is, and what it has to do with: the child just forked   *)
(* is of no job yet; no child of a pipeline being made was reported        *)
(* stopped; and of the job it waits for the shell knows every stop         *)
(* reported.                                                               *)
ShellStands ==
    /\ shell.at # "forked" => shell.pid = 0
    /\ shell.at \in Building \cup {"fg", "waits"} => Job.used
    /\ shell.at = "forked" =>
          /\ shell.pid # 0 /\ child[shell.pid].state # "none" /\ ~child[shell.pid].told
          /\ \A j \in Slot : shell.pid \notin table[j].live
          /\ child[shell.pid].stands # "program" =>
                child[shell.pid].aim = IF Job.group = 0 THEN shell.pid ELSE Job.group
    /\ shell.at \in Building =>
          /\ Job.stopped = {} /\ Job.state = "running"
          /\ \A p \in Job.live : ~child[p].told
    /\ shell.at = "joined" => hasTerminal /\ ~shell.background /\ Job.live # {}
    /\ shell.at = "fg" => hasTerminal
    /\ shell.at = "waits" =>
          \A p \in Job.live : child[p].state = "stopped" /\ child[p].told => p \in Job.stopped

(* A child that will yet take the terminal is of the job the shell makes   *)
(* in the foreground, or waits for.                                        *)
TakersWaitedFor ==
    \A p \in Pid : child[p].takes /\ ~early =>
        /\ shell.at \in Building \cup {"waits"} /\ ~shell.background
        /\ p \in Job.live \cup {shell.pid}

(* Until a child of a foreground job exists the terminal is the shell's.   *)
TerminalKept ==
    /\ hasTerminal /\ ~early /\ shell.at \in Building /\ shell.background => foreground = Own
    /\ hasTerminal /\ ~early /\ shell.at = "next" /\ Job.live = {} => foreground = Own

(* Every child is of a job, or is the one just forked.                     *)
ChildrenKnown ==
    \A p \in Pid : child[p].state # "none" =>
        p = shell.pid \/ \E j \in Slot : table[j].used /\ p \in table[j].live

(* The inductive invariant.                                                *)
JobsInv ==
    /\ JobsTypeOK /\ TableSound /\ MembersStand /\ OneOwner /\ ChildrenStand
    /\ ShellStands /\ TakersWaitedFor /\ TerminalKept /\ ChildrenKnown /\ TerminalComesBack

(* ShellJobRecord changes the job that has the child, and that one only;   *)
(* its state is what its live and its stopped children say.                *)
LEMMA RecordOfOwner ==
    ASSUME JobsAssumption, JobsTypeOK, TableSound, OneOwner, NEW p \in Pid, NEW kind,
           NEW j \in Slot, p \in table[j].live
    PROVE  /\ \A i \in Slot : i # j => Record(p, kind)[i] = table[i]
           /\ Record(p, kind)[j].used = table[j].used
           /\ Record(p, kind)[j].group = table[j].group
           /\ kind = "ended" =>
                 /\ Record(p, kind)[j].live = table[j].live \ {p}
                 /\ Record(p, kind)[j].stopped = table[j].stopped \ {p}
           /\ kind # "ended" =>
                 /\ Record(p, kind)[j].live = table[j].live
                 /\ Record(p, kind)[j].stopped = table[j].stopped \cup {p}
           /\ Record(p, kind)[j].state =
                 LET live == Record(p, kind)[j].live
                     stopped == Record(p, kind)[j].stopped
                 IN  IF live = {} THEN "done"
                     ELSE IF live \subseteq stopped THEN "stopped" ELSE "running"
           /\ Record(p, kind) \in
                 [Slot -> [used : BOOLEAN, group : Pid \cup {0}, live : SUBSET Pid,
                           stopped : SUBSET Pid, state : {"running", "stopped", "done"}]]
<1>1. Owners(p) = {j}
  BY DEF Owners, OneOwner, TableSound, NoJob
<1>2. Min(Owners(p)) = j
  BY <1>1, LeastMember DEF Slot, JobsAssumption
<1> DEFINE live == IF kind = "ended" THEN table[j].live \ {p} ELSE table[j].live
           stopped == IF kind = "ended" THEN table[j].stopped \ {p} ELSE table[j].stopped \cup {p}
           state == CASE live = {} -> "done"
                      [] live # {} /\ live \subseteq stopped -> "stopped"
                      [] OTHER -> "running"
           After == [table[j] EXCEPT !.live = live, !.stopped = stopped, !.state = state]
<1>3. Record(p, kind) = [i \in Slot |-> IF i = j THEN After ELSE table[i]]
  BY <1>1, <1>2 DEF Record
<1>4. state = IF live = {} THEN "done" ELSE IF live \subseteq stopped THEN "stopped" ELSE "running"
  OBVIOUS
<1>5. table \in [Slot -> [used : BOOLEAN, group : Pid \cup {0}, live : SUBSET Pid,
                          stopped : SUBSET Pid, state : {"running", "stopped", "done"}]]
  BY DEF JobsTypeOK
<1>6. live \in SUBSET Pid /\ stopped \in SUBSET Pid
  BY <1>5
<1>7. ASSUME NEW l \in SUBSET Pid, NEW s \in SUBSET Pid, NEW t \in {"running", "stopped", "done"},
             NEW r \in [used : BOOLEAN, group : Pid \cup {0}, live : SUBSET Pid,
                        stopped : SUBSET Pid, state : {"running", "stopped", "done"}],
             NEW a, a = [r EXCEPT !.live = l, !.stopped = s, !.state = t]
      PROVE  /\ a.used = r.used /\ a.group = r.group
             /\ a.live = l /\ a.stopped = s /\ a.state = t
             /\ a \in [used : BOOLEAN, group : Pid \cup {0}, live : SUBSET Pid,
                       stopped : SUBSET Pid, state : {"running", "stopped", "done"}]
  BY <1>7
<1>8. state \in {"running", "stopped", "done"}
  BY <1>4
<1> HIDE DEF live, stopped, state
<1>9. /\ After.used = table[j].used /\ After.group = table[j].group
      /\ After.live = live /\ After.stopped = stopped /\ After.state = state
      /\ After \in [used : BOOLEAN, group : Pid \cup {0}, live : SUBSET Pid,
                    stopped : SUBSET Pid, state : {"running", "stopped", "done"}]
  <2>1. table[j] \in [used : BOOLEAN, group : Pid \cup {0}, live : SUBSET Pid,
                      stopped : SUBSET Pid, state : {"running", "stopped", "done"}]
    BY <1>5
  <2> QED
    BY <2>1, <1>6, <1>7, <1>8
<1> HIDE DEF After
<1>10. Record(p, kind)[j] = After /\ \A i \in Slot : i # j => Record(p, kind)[i] = table[i]
  BY <1>3
<1>11. Record(p, kind) \in
          [Slot -> [used : BOOLEAN, group : Pid \cup {0}, live : SUBSET Pid,
                    stopped : SUBSET Pid, state : {"running", "stopped", "done"}]]
  BY <1>3, <1>5, <1>9
<1> QED
  BY <1>4, <1>9, <1>10, <1>11 DEF live, stopped

(* The other jobs stay as they are.                                        *)
LEMMA OthersStay ==
    ASSUME JobsAssumption, JobsTypeOK, TableSound, OneOwner, NEW p \in Pid, NEW kind,
           NEW j \in Slot, p \in table[j].live, NEW i \in Slot, i # j
    PROVE  Record(p, kind)[i] = table[i]
<1>1. Owners(p) = {j}
  BY DEF Owners, OneOwner, TableSound, NoJob
<1>2. Min(Owners(p)) = j
  BY <1>1, LeastMember DEF Slot, JobsAssumption
<1> QED
  BY <1>1, <1>2 DEF Record

(* The records of the three variables.                                     *)
ChildRecord == [state : {"none", "runs", "stopped", "ended"},
                group : Pid \cup {0, Own}, told : BOOLEAN,
                stands : {"sets", "gives", "program"}, aim : Pid \cup {0}, takes : BOOLEAN]
JobRecord == [used : BOOLEAN, group : Pid \cup {0}, live : SUBSET Pid,
              stopped : SUBSET Pid, state : {"running", "stopped", "done"}]
ShellRecord == [at : {"ready", "next", "forked", "joined", "fg", "waits", "notify"},
                job : Slot, pid : Pid \cup {0}, background : BOOLEAN]

(* SIGCONT lets those who are stopped run on, and changes nothing else of  *)
(* a child.                                                                *)
LEMMA SignalledIs ==
    ASSUME JobsTypeOK, NEW of, NEW c, c = Signalled(of)
    PROVE  /\ c \in [Pid -> ChildRecord]
           /\ \A q \in Pid :
                 /\ c[q].group = child[q].group /\ c[q].stands = child[q].stands
                 /\ c[q].aim = child[q].aim /\ c[q].takes = child[q].takes
                 /\ c[q].state = "none" <=> child[q].state = "none"
                 /\ c[q].state = "stopped" => child[q].state = "stopped" /\ q \notin of
                 /\ c[q].told => child[q].told
<1>1. ASSUME NEW r \in ChildRecord, NEW s, s = [r EXCEPT !.state = "runs", !.told = FALSE]
      PROVE  /\ s \in ChildRecord /\ s.state = "runs" /\ s.told = FALSE
             /\ s.group = r.group /\ s.stands = r.stands /\ s.aim = r.aim /\ s.takes = r.takes
  BY <1>1 DEF ChildRecord
<1>2. \A p \in Pid : child[p] \in ChildRecord
  BY DEF JobsTypeOK, ChildRecord
<1>3. c = [p \in Pid |-> IF p \in of /\ child[p].state = "stopped"
                        THEN [child[p] EXCEPT !.state = "runs", !.told = FALSE] ELSE child[p]]
  BY DEF Signalled
<1>4. ASSUME NEW q \in Pid
      PROVE  /\ c[q] \in ChildRecord
             /\ c[q].group = child[q].group /\ c[q].stands = child[q].stands
             /\ c[q].aim = child[q].aim /\ c[q].takes = child[q].takes
             /\ c[q].state = "none" <=> child[q].state = "none"
             /\ c[q].state = "stopped" => child[q].state = "stopped" /\ q \notin of
             /\ c[q].told => child[q].told
  <2>1. CASE q \in of /\ child[q].state = "stopped"
    <3>1. PICK r \in ChildRecord : r = child[q]
      BY <1>2
    <3>2. PICK s : s = [r EXCEPT !.state = "runs", !.told = FALSE] /\ c[q] = s
      BY <1>3, <2>1, <3>1
    <3>3. /\ s \in ChildRecord /\ s.state = "runs" /\ s.told = FALSE
          /\ s.group = r.group /\ s.stands = r.stands /\ s.aim = r.aim /\ s.takes = r.takes
      BY <1>1, <3>1, <3>2
    <3>4. r.state = "stopped" /\ s.state = "runs" /\ ~s.told
      BY <2>1, <3>1, <3>3
    <3> QED
      BY <3>1, <3>2, <3>3, <3>4
  <2>2. CASE ~(q \in of /\ child[q].state = "stopped")
    BY <1>2, <1>3, <2>2
  <2> QED
    BY <2>1, <2>2
<1> QED
  BY <1>3, <1>4

(* A child that reaches its program, or ends, has no way left to go.       *)
LEMMA AtProgramIs ==
    ASSUME NEW r \in ChildRecord
    PROVE  /\ AtProgram(r) \in ChildRecord
           /\ AtProgram(r).stands = "program" /\ AtProgram(r).takes = FALSE
           /\ AtProgram(r).state = r.state /\ AtProgram(r).group = r.group
           /\ AtProgram(r).told = r.told
  BY DEF AtProgram, ChildRecord

(* ShellJobContinued forgets which of the job are stopped.                 *)
LEMMA ContinuedIs ==
    ASSUME NEW r \in JobRecord
    PROVE  /\ Continued(r) \in JobRecord
           /\ Continued(r).stopped = {} /\ Continued(r).state = "running"
           /\ Continued(r).used = r.used /\ Continued(r).group = r.group
           /\ Continued(r).live = r.live
  BY DEF Continued, JobRecord

(* Where the shell goes; to its prompt it goes with no job.                *)
LEMMA GoesIs ==
    ASSUME JobsTypeOK, JobsAssumption, NEW place \in {"ready", "next", "forked", "joined", "fg", "waits", "notify"}, Goes(place)
    PROVE  /\ shell' \in ShellRecord /\ shell'.at = place
           /\ place # "ready" => /\ shell'.job = shell.job /\ shell'.pid = shell.pid
                                 /\ shell'.background = shell.background
           /\ place = "ready" => shell'.pid = 0 /\ shell'.background = FALSE
<1>1. 1 \in Slot
  BY DEF Slot, JobsAssumption
<1>2. shell \in ShellRecord
  BY DEF JobsTypeOK, ShellRecord
<1> QED
  BY <1>1, <1>2 DEF Goes, AtPrompt, ShellRecord

(* The type invariant, by the names of the records.                        *)
LEMMA JobsTypes == 
    JobsTypeOK <=> /\ child \in [Pid -> ChildRecord] /\ foreground \in Pid \cup {0, Own}
                   /\ table \in [Slot -> JobRecord] /\ shell \in ShellRecord
                   /\ hasTerminal \in BOOLEAN /\ early \in BOOLEAN
  BY DEF JobsTypeOK, ChildRecord, JobRecord, ShellRecord

(* A job the shell waits for, that is not all stopped and has a child, has *)
(* one that is not both stopped and reported so.                           *)
LEMMA WaitsForSomeone ==
    ASSUME JobsTypeOK, TableSound, ShellStands, ChildrenKnown
    PROVE  JobsAreKnown
<1>1. ASSUME shell.at = "waits", Job.state = "running", Job.live # {}
      PROVE  \E p \in Job.live : ~(child[p].state = "stopped" /\ child[p].told)
  <2>1. shell.job \in Slot
    BY DEF JobsTypeOK
  <2>2. PICK p \in Job.live : p \notin Job.stopped
    BY <1>1, <2>1 DEF TableSound, Job
  <2>3. ~(child[p].state = "stopped" /\ child[p].told)
    BY <1>1, <2>2 DEF ShellStands
  <2> QED
    BY <2>3
<1> QED
  BY <1>1, Zenon DEF JobsAreKnown, ChildrenKnown

(* A new job has nobody.                                                   *)
LEMMA BeginKeeps ==
    ASSUME JobsAssumption, JobsInv, NEW background \in BOOLEAN, Begin(background)
    PROVE  JobsInv'
<1> USE DEF JobsInv, JobsAssumption
<1>types. /\ child \in [Pid -> ChildRecord] /\ foreground \in Pid \cup {0, Own}
          /\ table \in [Slot -> JobRecord] /\ shell \in ShellRecord
          /\ hasTerminal \in BOOLEAN /\ early \in BOOLEAN
  BY JobsTypes
<1>effect. PICK m \in Slot, n \in JobRecord :
        /\ ~table[m].used /\ table' = [table EXCEPT ![m] = n]
        /\ n.used /\ n.group = 0 /\ n.live = {} /\ n.stopped = {} /\ n.state = "running"
        /\ shell.at = "ready" /\ shell' \in ShellRecord /\ shell'.at = "next"
        /\ shell'.job = m /\ shell'.pid = 0 /\ shell'.background = background
        /\ UNCHANGED <<child, foreground, hasTerminal, early>>
  <2>1. PICK free : free = {j \in Slot : ~table[j].used}
    OBVIOUS
  <2>2. free \subseteq Nat /\ free # {}
    BY <1>types, <2>1 DEF Begin, Slot
  <2>3. PICK m \in Slot : m = Min(free) /\ ~table[m].used
    BY <1>types, <2>1, <2>2, LeastMember
  <2>4. PICK n : n = [NoJob EXCEPT !.used = TRUE]
    OBVIOUS
  <2>5. n = [used |-> TRUE, group |-> 0, live |-> {}, stopped |-> {}, state |-> "running"]
    BY <1>types, <2>4 DEF NoJob
  <2>6. /\ n \in JobRecord /\ n.used /\ n.group = 0 /\ n.live = {} /\ n.stopped = {}
        /\ n.state = "running"
    BY <1>types, <2>5 DEF JobRecord
  <2>7. /\ shell.at = "ready" /\ table' = [table EXCEPT ![m] = n]
        /\ shell' = [at |-> "next", job |-> m, pid |-> 0, background |-> background]
        /\ UNCHANGED <<child, foreground, hasTerminal, early>>
    BY <1>types, <2>1, <2>3, <2>4 DEF Begin
  <2> QED
    BY <1>types, <2>3, <2>6, <2>7 DEF ShellRecord
<1>typed. /\ child' \in [Pid -> ChildRecord] /\ foreground' \in Pid \cup {0, Own}
          /\ table' \in [Slot -> JobRecord] /\ shell' \in ShellRecord
          /\ hasTerminal' \in BOOLEAN /\ early' \in BOOLEAN
  BY <1>types, <1>effect DEF JobRecord, Reclaimed, NoJob
<1>1. TableSound'
  BY <1>types, <1>effect, <1>typed DEF TableSound
<1>2. MembersStand'
  BY <1>types, <1>effect, <1>typed DEF MembersStand
<1>3. OneOwner'
  BY <1>types, <1>effect, <1>typed DEF OneOwner
<1>4. ChildrenStand'
  BY <1>types, <1>effect, <1>typed DEF ChildrenStand
<1>5. ShellStands'
  BY <1>types, <1>effect, <1>typed DEF ShellStands, Job
<1>6. TakersWaitedFor'
  BY <1>types, <1>effect, <1>typed DEF TakersWaitedFor, Building
<1>7. TerminalKept'
  BY <1>types, <1>effect, <1>typed DEF TerminalKept, TerminalComesBack
<1>8. ChildrenKnown'
  BY <1>types, <1>effect, <1>typed DEF ChildrenKnown, ShellStands
<1>9. TerminalComesBack'
  BY <1>types, <1>effect, <1>typed DEF TerminalComesBack
<1>10. JobsTypeOK'
  BY <1>typed DEF JobsTypeOK, ChildRecord, JobRecord, ShellRecord
<1> QED
  BY <1>1, <1>2, <1>3, <1>4, <1>5, <1>6, <1>7, <1>8, <1>9, <1>10 DEF JobsInv

(* The new child is known as the one just forked.                          *)
LEMMA ForkMemberKeeps ==
    ASSUME JobsAssumption, JobsInv, NEW p \in Pid, ForkMember(p)
    PROVE  JobsInv'
<1> USE DEF JobsInv, JobsAssumption
<1>types. /\ child \in [Pid -> ChildRecord] /\ foreground \in Pid \cup {0, Own}
          /\ table \in [Slot -> JobRecord] /\ shell \in ShellRecord
          /\ hasTerminal \in BOOLEAN /\ early \in BOOLEAN
  BY JobsTypes
<1>effect. PICK r \in ChildRecord :
        /\ child[p].state = "none" /\ child' = [child EXCEPT ![p] = r]
        /\ r.state = "runs" /\ r.group = Own /\ r.told = FALSE
        /\ r.stands = (IF hasTerminal THEN "sets" ELSE "program")
        /\ hasTerminal => r.aim = (IF Job.group = 0 THEN p ELSE Job.group)
        /\ r.takes = (hasTerminal /\ ~shell.background)
        /\ shell.at = "next" /\ shell' \in ShellRecord /\ shell'.at = "forked"
        /\ shell'.job = shell.job /\ shell'.pid = p /\ shell'.background = shell.background
        /\ UNCHANGED <<foreground, table, hasTerminal, early>>
  <2>1. p \in Fresh
    <3>1. Fresh \subseteq Nat /\ Fresh # {}
      BY <1>types DEF ForkMember, Fresh
    <3> QED
      BY <1>types, <3>1, LeastMember DEF ForkMember
  <2>2. child[p].state = "none"
    BY <1>types, <2>1 DEF Fresh
  <2>3. Job.group \in Pid \cup {0} /\ shell.background \in BOOLEAN
    BY <1>types DEF JobRecord, ShellRecord, Job
  <2>4. PICK stands \in {"sets", "program"}, aim \in Pid \cup {0}, takes \in BOOLEAN :
           /\ stands = (IF hasTerminal THEN "sets" ELSE "program")
           /\ aim = IF ~hasTerminal THEN 0 ELSE IF Job.group = 0 THEN p ELSE Job.group
           /\ takes = (hasTerminal /\ ~shell.background)
    BY <1>types, <2>3
  <2>7. PICK r : /\ child' = [child EXCEPT ![p] = r]
                 /\ r = [state |-> "runs", group |-> Own, told |-> FALSE,
                         stands |-> stands, aim |-> aim, takes |-> takes]
    BY <1>types, <2>4 DEF ForkMember
  <2>8. r \in ChildRecord
    BY <1>types, <2>7 DEF ChildRecord
  <2>5. /\ shell' \in ShellRecord /\ shell'.at = "forked"
        /\ shell'.job = shell.job /\ shell'.pid = p /\ shell'.background = shell.background
    BY <1>types DEF ForkMember, ShellRecord
  <2>6. shell.at = "next" /\ UNCHANGED <<foreground, table, hasTerminal, early>>
    BY <1>types DEF ForkMember
  <2> QED
    BY <1>types, <2>2, <2>4, <2>5, <2>6, <2>7, <2>8
<1>typed. /\ child' \in [Pid -> ChildRecord] /\ foreground' \in Pid \cup {0, Own}
          /\ table' \in [Slot -> JobRecord] /\ shell' \in ShellRecord
          /\ hasTerminal' \in BOOLEAN /\ early' \in BOOLEAN
  BY <1>types, <1>effect DEF JobRecord, Reclaimed, NoJob
<1>1. TableSound'
  BY <1>types, <1>effect, <1>typed DEF TableSound
<1>2. MembersStand'
  BY <1>types, <1>effect, <1>typed DEF MembersStand
<1>3. OneOwner'
  BY <1>types, <1>effect, <1>typed DEF OneOwner
<1>4. ChildrenStand'
  BY <1>types, <1>effect, <1>typed DEF ChildrenStand
<1>5. ShellStands'
  BY <1>types, <1>effect, <1>typed DEF ShellStands, MembersStand, Job, Building
<1>6. TakersWaitedFor'
  BY <1>types, <1>effect, <1>typed DEF TakersWaitedFor, ShellStands, Job, Building
<1>7. TerminalKept'
  BY <1>types, <1>effect, <1>typed DEF TerminalKept, Building
<1>8. ChildrenKnown'
  BY <1>types, <1>effect, <1>typed DEF ChildrenKnown, ShellStands
<1>9. TerminalComesBack'
  BY <1>types, <1>effect, <1>typed DEF TerminalComesBack
<1>10. JobsTypeOK'
  BY <1>typed DEF JobsTypeOK, ChildRecord, JobRecord, ShellRecord
<1> QED
  BY <1>1, <1>2, <1>3, <1>4, <1>5, <1>6, <1>7, <1>8, <1>9, <1>10 DEF JobsInv

(* The child forked joins the job, in its group.                           *)
LEMMA JoinKeeps ==
    ASSUME JobsAssumption, JobsInv, Join
    PROVE  JobsInv'
<1> USE DEF JobsInv, JobsAssumption
<1>types. /\ child \in [Pid -> ChildRecord] /\ foreground \in Pid \cup {0, Own}
          /\ table \in [Slot -> JobRecord] /\ shell \in ShellRecord
          /\ hasTerminal \in BOOLEAN /\ early \in BOOLEAN
  BY JobsTypes
<1>effect. PICK group \in Pid :
        /\ group = (IF Job.group = 0 THEN shell.pid ELSE Job.group)
        /\ shell.at = "forked" /\ shell.pid \in Pid
        /\ table' \in [Slot -> JobRecord] /\ child' \in [Pid -> ChildRecord]
        /\ \A j \in Slot : j # shell.job => table'[j] = table[j]
        /\ table'[shell.job].group = group
        /\ table'[shell.job].live = Job.live \cup {shell.pid}
        /\ table'[shell.job].used = Job.used /\ table'[shell.job].stopped = Job.stopped
        /\ table'[shell.job].state = Job.state
        /\ \A q \in Pid : q # shell.pid => child'[q] = child[q]
        /\ child'[shell.pid].group = (IF hasTerminal THEN group ELSE child[shell.pid].group)
        /\ child'[shell.pid].state = child[shell.pid].state
        /\ child'[shell.pid].told = child[shell.pid].told
        /\ child'[shell.pid].stands = child[shell.pid].stands
        /\ child'[shell.pid].aim = child[shell.pid].aim
        /\ child'[shell.pid].takes = child[shell.pid].takes
        /\ shell' \in ShellRecord
        /\ shell'.at = (IF hasTerminal /\ ~shell.background THEN "joined" ELSE "next")
        /\ shell'.job = shell.job /\ shell'.pid = 0 /\ shell'.background = shell.background
        /\ UNCHANGED <<foreground, hasTerminal, early>>
  <2>1. shell.at = "forked" /\ shell.pid \in Pid /\ shell.job \in Slot /\ Job \in JobRecord
    BY <1>types DEF Join, ShellStands, ShellRecord, Job
  <2>2. PICK group \in Pid : group = (IF Job.group = 0 THEN shell.pid ELSE Job.group)
    BY <1>types, <2>1 DEF JobRecord
  <2>3. /\ table' = [table EXCEPT ![shell.job].group = group,
                                 ![shell.job].live = @ \cup {shell.pid}]
        /\ child' = IF hasTerminal THEN [child EXCEPT ![shell.pid].group = group] ELSE child
        /\ shell' = [shell EXCEPT !.at = IF hasTerminal /\ ~shell.background THEN "joined" ELSE "next",
                                 !.pid = 0]
        /\ UNCHANGED <<foreground, hasTerminal, early>>
    BY <1>types, <2>2 DEF Join, PutIntoGroup
  <2>4. /\ shell' \in ShellRecord
        /\ shell'.at = (IF hasTerminal /\ ~shell.background THEN "joined" ELSE "next")
        /\ shell'.job = shell.job /\ shell'.pid = 0 /\ shell'.background = shell.background
    BY <1>types, <2>3 DEF ShellRecord
  <2>5. ASSUME NEW r \in JobRecord, NEW s, s = [r EXCEPT !.group = group, !.live = @ \cup {shell.pid}]
        PROVE  /\ s \in JobRecord /\ s.group = group /\ s.live = r.live \cup {shell.pid}
               /\ s.used = r.used /\ s.stopped = r.stopped /\ s.state = r.state
    BY <1>types, <2>1, <2>2, <2>5 DEF JobRecord
  <2>6. PICK s : s = [Job EXCEPT !.group = group, !.live = @ \cup {shell.pid}]
    OBVIOUS
  <2>7. table' = [table EXCEPT ![shell.job] = s]
    BY <1>types, <2>1, <2>3, <2>6 DEF Job
  <2>8. /\ s \in JobRecord /\ s.group = group /\ s.live = Job.live \cup {shell.pid}
        /\ s.used = Job.used /\ s.stopped = Job.stopped /\ s.state = Job.state
    BY <1>types, <2>1, <2>5, <2>6
  <2>9. /\ table' \in [Slot -> JobRecord]
        /\ \A j \in Slot : j # shell.job => table'[j] = table[j]
        /\ table'[shell.job] = s
    BY <1>types, <2>1, <2>7, <2>8
  <2>10. ASSUME NEW r \in ChildRecord, NEW t, t = [r EXCEPT !.group = group]
         PROVE  /\ t \in ChildRecord /\ t.group = group /\ t.state = r.state /\ t.told = r.told
                /\ t.stands = r.stands /\ t.aim = r.aim /\ t.takes = r.takes
    BY <1>types, <2>2, <2>10 DEF ChildRecord
  <2>11. PICK t : t = [child[shell.pid] EXCEPT !.group = group]
    OBVIOUS
  <2>12. child' = IF hasTerminal THEN [child EXCEPT ![shell.pid] = t] ELSE child
    BY <1>types, <2>1, <2>3, <2>11
  <2>13. /\ t \in ChildRecord /\ t.group = group /\ t.state = child[shell.pid].state
         /\ t.told = child[shell.pid].told /\ t.stands = child[shell.pid].stands
         /\ t.aim = child[shell.pid].aim /\ t.takes = child[shell.pid].takes
    BY <1>types, <2>1, <2>10, <2>11
  <2>14. /\ child' \in [Pid -> ChildRecord]
         /\ \A q \in Pid : q # shell.pid => child'[q] = child[q]
         /\ child'[shell.pid] = IF hasTerminal THEN t ELSE child[shell.pid]
    BY <1>types, <2>1, <2>12, <2>13
  <2>15. /\ child'[shell.pid].group = (IF hasTerminal THEN group ELSE child[shell.pid].group)
         /\ child'[shell.pid].state = child[shell.pid].state
         /\ child'[shell.pid].told = child[shell.pid].told
         /\ child'[shell.pid].stands = child[shell.pid].stands
         /\ child'[shell.pid].aim = child[shell.pid].aim
         /\ child'[shell.pid].takes = child[shell.pid].takes
    BY <1>types, <2>13, <2>14
  <2>16. UNCHANGED <<foreground, hasTerminal, early>>
    BY <1>types, <2>3
  <2> QED
    BY <1>types, <2>1, <2>2, <2>4, <2>8, <2>9, <2>14, <2>15, <2>16
<1>typed. /\ child' \in [Pid -> ChildRecord] /\ foreground' \in Pid \cup {0, Own}
          /\ table' \in [Slot -> JobRecord] /\ shell' \in ShellRecord
          /\ hasTerminal' \in BOOLEAN /\ early' \in BOOLEAN
  BY <1>types, <1>effect DEF JobRecord, Reclaimed, NoJob
<1>1. TableSound'
  BY <1>types, <1>effect, <1>typed DEF TableSound, ShellStands, Building
<1>2. MembersStand'
  BY <1>types, <1>effect, <1>typed DEF MembersStand, ShellStands, Job, Building, JobRecord
<1>3. OneOwner'
  BY <1>types, <1>effect, <1>typed DEF OneOwner, ShellStands, Job
<1>4. ChildrenStand'
  BY <1>types, <1>effect, <1>typed DEF ChildrenStand
<1>5. ShellStands'
  BY <1>types, <1>effect, <1>typed DEF ShellStands, Job, Building, JobRecord, ShellRecord
<1>6. TakersWaitedFor'
  BY <1>types, <1>effect, <1>typed DEF TakersWaitedFor, Job, Building
<1>7. TerminalKept'
  BY <1>types, <1>effect, <1>typed DEF TerminalKept, Building
<1>8. ChildrenKnown'
  BY <1>types, <1>effect, <1>typed
     DEF ChildrenKnown, ShellStands, Job, Building, ShellRecord
<1>9. TerminalComesBack'
  BY <1>types, <1>effect, <1>typed DEF TerminalComesBack
<1>10. JobsTypeOK'
  BY <1>typed DEF JobsTypeOK, ChildRecord, JobRecord, ShellRecord
<1> QED
  BY <1>1, <1>2, <1>3, <1>4, <1>5, <1>6, <1>7, <1>8, <1>9, <1>10 DEF JobsInv

(* The terminal goes to a job that has children.                           *)
LEMMA GiveKeeps ==
    ASSUME JobsAssumption, JobsInv, Give
    PROVE  JobsInv'
<1> USE DEF JobsInv, JobsAssumption
<1>types. /\ child \in [Pid -> ChildRecord] /\ foreground \in Pid \cup {0, Own}
          /\ table \in [Slot -> JobRecord] /\ shell \in ShellRecord
          /\ hasTerminal \in BOOLEAN /\ early \in BOOLEAN
  BY JobsTypes
<1>effect. /\ shell.at = "joined" /\ foreground' = Job.group /\ Job.group \in Pid \cup {0}
           /\ shell' \in ShellRecord /\ shell'.at = "next"
           /\ shell'.job = shell.job /\ shell'.pid = shell.pid
           /\ shell'.background = shell.background
           /\ UNCHANGED <<child, table, hasTerminal, early>>
  BY <1>types, GoesIs DEF Give, Job, JobRecord, ShellRecord
<1>typed. /\ child' \in [Pid -> ChildRecord] /\ foreground' \in Pid \cup {0, Own}
          /\ table' \in [Slot -> JobRecord] /\ shell' \in ShellRecord
          /\ hasTerminal' \in BOOLEAN /\ early' \in BOOLEAN
  BY <1>types, <1>effect DEF JobRecord, Reclaimed, NoJob
<1>1. TableSound'
  BY <1>types, <1>effect, <1>typed DEF TableSound
<1>2. MembersStand'
  BY <1>types, <1>effect, <1>typed DEF MembersStand
<1>3. OneOwner'
  BY <1>types, <1>effect, <1>typed DEF OneOwner
<1>4. ChildrenStand'
  BY <1>types, <1>effect, <1>typed DEF ChildrenStand
<1>5. ShellStands'
  BY <1>types, <1>effect, <1>typed DEF ShellStands, Job, Building
<1>6. TakersWaitedFor'
  BY <1>types, <1>effect, <1>typed DEF TakersWaitedFor, Job, Building
<1>7. TerminalKept'
  BY <1>types, <1>effect, <1>typed DEF TerminalKept, ShellStands, Job
<1>8. ChildrenKnown'
  BY <1>types, <1>effect, <1>typed DEF ChildrenKnown
<1>9. TerminalComesBack'
  BY <1>types, <1>effect, <1>typed DEF TerminalComesBack
<1>10. JobsTypeOK'
  BY <1>typed DEF JobsTypeOK, ChildRecord, JobRecord, ShellRecord
<1> QED
  BY <1>1, <1>2, <1>3, <1>4, <1>5, <1>6, <1>7, <1>8, <1>9, <1>10 DEF JobsInv

(* Back to the prompt without having given the terminal, or to the wait.   *)
LEMMA FinishKeeps ==
    ASSUME JobsAssumption, JobsInv, Finish
    PROVE  JobsInv'
<1> USE DEF JobsInv, JobsAssumption
<1>types. /\ child \in [Pid -> ChildRecord] /\ foreground \in Pid \cup {0, Own}
          /\ table \in [Slot -> JobRecord] /\ shell \in ShellRecord
          /\ hasTerminal \in BOOLEAN /\ early \in BOOLEAN
  BY JobsTypes
<1>effect. /\ shell.at = "next" /\ shell' \in ShellRecord
           /\ shell'.at = (IF Job.live = {} \/ shell.background THEN "ready" ELSE "waits")
           /\ shell'.at = "waits" => /\ shell'.job = shell.job /\ shell'.pid = shell.pid
                                     /\ shell'.background = shell.background
           /\ shell'.at = "ready" => shell'.pid = 0 /\ shell'.background = FALSE
           /\ UNCHANGED <<child, foreground, table, hasTerminal, early>>
  BY <1>types, GoesIs DEF Finish
<1>typed. /\ child' \in [Pid -> ChildRecord] /\ foreground' \in Pid \cup {0, Own}
          /\ table' \in [Slot -> JobRecord] /\ shell' \in ShellRecord
          /\ hasTerminal' \in BOOLEAN /\ early' \in BOOLEAN
  BY <1>types, <1>effect DEF JobRecord, Reclaimed, NoJob
<1>1. TableSound'
  BY <1>types, <1>effect, <1>typed DEF TableSound
<1>2. MembersStand'
  BY <1>types, <1>effect, <1>typed DEF MembersStand
<1>3. OneOwner'
  BY <1>types, <1>effect, <1>typed DEF OneOwner
<1>4. ChildrenStand'
  BY <1>types, <1>effect, <1>typed DEF ChildrenStand
<1>5. ShellStands'
  BY <1>types, <1>effect, <1>typed DEF ShellStands, Job, Building
<1>6. TakersWaitedFor'
  BY <1>types, <1>effect, <1>typed DEF TakersWaitedFor, ShellStands, Job
<1>7. TerminalKept'
  BY <1>types, <1>effect, <1>typed DEF TerminalKept
<1>8. ChildrenKnown'
  BY <1>types, <1>effect, <1>typed DEF ChildrenKnown, ShellStands
<1>9. TerminalComesBack'
  BY <1>types, <1>effect, <1>typed DEF TerminalComesBack, TerminalKept, Building
<1>10. JobsTypeOK'
  BY <1>typed DEF JobsTypeOK, ChildRecord, JobRecord, ShellRecord
<1> QED
  BY <1>1, <1>2, <1>3, <1>4, <1>5, <1>6, <1>7, <1>8, <1>9, <1>10 DEF JobsInv

(* The child puts itself into the group the shell puts it into.            *)
LEMMA ChildSetsKeeps ==
    ASSUME JobsAssumption, JobsInv, NEW p \in Pid, ChildSets(p)
    PROVE  JobsInv'
<1> USE DEF JobsInv, JobsAssumption
<1>types. /\ child \in [Pid -> ChildRecord] /\ foreground \in Pid \cup {0, Own}
          /\ table \in [Slot -> JobRecord] /\ shell \in ShellRecord
          /\ hasTerminal \in BOOLEAN /\ early \in BOOLEAN
  BY JobsTypes
<1>effect. PICK r \in ChildRecord :
        /\ child[p].state = "runs" /\ child[p].stands = "sets"
        /\ child' = [child EXCEPT ![p] = r]
        /\ r.state = "runs" /\ r.group = child[p].aim /\ r.told = child[p].told
        /\ IF child[p].takes THEN r.stands = "gives" /\ r.takes /\ r.aim = child[p].aim
                             ELSE r.stands = "program" /\ ~r.takes
        /\ UNCHANGED <<foreground, table, shell, hasTerminal, early>>
  <2>1. PICK s \in ChildRecord :
           /\ s = [child[p] EXCEPT !.group = child[p].aim, !.stands = "gives"]
           /\ s.group = child[p].aim /\ s.stands = "gives" /\ s.aim = child[p].aim
           /\ s.takes = child[p].takes /\ s.state = child[p].state /\ s.told = child[p].told
    <3>1. ASSUME NEW c \in ChildRecord, NEW s, s = [c EXCEPT !.group = c.aim, !.stands = "gives"]
          PROVE  /\ s \in ChildRecord /\ s.group = c.aim /\ s.stands = "gives" /\ s.aim = c.aim
                 /\ s.takes = c.takes /\ s.state = c.state /\ s.told = c.told
      BY <1>types, <3>1 DEF ChildRecord
    <3> QED
      BY <1>types, <3>1
  <2>2. PICK r \in ChildRecord : r = IF child[p].takes THEN s ELSE AtProgram(s)
    BY <1>types, <2>1, AtProgramIs
  <2>3. /\ child[p].state = "runs" /\ child[p].stands = "sets"
        /\ child' = [child EXCEPT ![p] = r]
        /\ UNCHANGED <<foreground, table, shell, hasTerminal, early>>
    BY <1>types, <2>1, <2>2 DEF ChildSets
  <2> QED
    BY <1>types, <2>1, <2>2, <2>3, AtProgramIs
<1>typed. /\ child' \in [Pid -> ChildRecord] /\ foreground' \in Pid \cup {0, Own}
          /\ table' \in [Slot -> JobRecord] /\ shell' \in ShellRecord
          /\ hasTerminal' \in BOOLEAN /\ early' \in BOOLEAN
  BY <1>types, <1>effect DEF JobRecord, Reclaimed, NoJob
<1>1. TableSound'
  BY <1>types, <1>effect, <1>typed DEF TableSound
<1>2. MembersStand'
  BY <1>types, <1>effect, <1>typed DEF MembersStand
<1>3. OneOwner'
  BY <1>types, <1>effect, <1>typed DEF OneOwner
<1>4. ChildrenStand'
  BY <1>types, <1>effect, <1>typed DEF ChildrenStand
<1>5. ShellStands'
  BY <1>types, <1>effect, <1>typed DEF ShellStands, Job
<1>6. TakersWaitedFor'
  BY <1>types, <1>effect, <1>typed DEF TakersWaitedFor, Job
<1>7. TerminalKept'
  BY <1>types, <1>effect, <1>typed DEF TerminalKept, Job
<1>8. ChildrenKnown'
  BY <1>types, <1>effect, <1>typed DEF ChildrenKnown
<1>9. TerminalComesBack'
  BY <1>types, <1>effect, <1>typed DEF TerminalComesBack
<1>10. JobsTypeOK'
  BY <1>typed DEF JobsTypeOK, ChildRecord, JobRecord, ShellRecord
<1> QED
  BY <1>1, <1>2, <1>3, <1>4, <1>5, <1>6, <1>7, <1>8, <1>9, <1>10 DEF JobsInv

(* Only a child of the job waited for takes the terminal.                  *)
LEMMA ChildGivesKeeps ==
    ASSUME JobsAssumption, JobsInv, NEW p \in Pid, ChildGives(p)
    PROVE  JobsInv'
<1> USE DEF JobsInv, JobsAssumption
<1>types. /\ child \in [Pid -> ChildRecord] /\ foreground \in Pid \cup {0, Own}
          /\ table \in [Slot -> JobRecord] /\ shell \in ShellRecord
          /\ hasTerminal \in BOOLEAN /\ early \in BOOLEAN
  BY JobsTypes
<1>effect. /\ child[p].state = "runs" /\ child[p].stands = "gives"
           /\ foreground' = child[p].aim /\ child[p].aim \in Pid \cup {0}
           /\ AtProgram(child[p]) \in ChildRecord
           /\ child' = [child EXCEPT ![p] = AtProgram(child[p])]
           /\ AtProgram(child[p]).stands = "program" /\ ~AtProgram(child[p]).takes
           /\ AtProgram(child[p]).state = "runs" /\ AtProgram(child[p]).group = child[p].group
           /\ AtProgram(child[p]).told = child[p].told
           /\ UNCHANGED <<table, shell, hasTerminal, early>>
  BY <1>types, AtProgramIs DEF ChildGives, ChildRecord
<1>typed. /\ child' \in [Pid -> ChildRecord] /\ foreground' \in Pid \cup {0, Own}
          /\ table' \in [Slot -> JobRecord] /\ shell' \in ShellRecord
          /\ hasTerminal' \in BOOLEAN /\ early' \in BOOLEAN
  BY <1>types, <1>effect DEF JobRecord, Reclaimed, NoJob
<1>1. TableSound'
  BY <1>types, <1>effect, <1>typed DEF TableSound
<1>2. MembersStand'
  BY <1>types, <1>effect, <1>typed DEF MembersStand
<1>3. OneOwner'
  BY <1>types, <1>effect, <1>typed DEF OneOwner
<1>4. ChildrenStand'
  BY <1>types, <1>effect, <1>typed DEF ChildrenStand
<1>5. ShellStands'
  BY <1>types, <1>effect, <1>typed DEF ShellStands, Job
<1>6. TakersWaitedFor'
  BY <1>types, <1>effect, <1>typed DEF TakersWaitedFor, Job
<1>7. TerminalKept'
  BY <1>types, <1>effect, <1>typed
     DEF TerminalKept, ChildrenStand, ShellStands, TakersWaitedFor, Job
<1>8. ChildrenKnown'
  BY <1>types, <1>effect, <1>typed DEF ChildrenKnown
<1>9. TerminalComesBack'
  BY <1>types, <1>effect, <1>typed
     DEF TerminalComesBack, ChildrenStand, TakersWaitedFor, Building
<1>10. JobsTypeOK'
  BY <1>typed DEF JobsTypeOK, ChildRecord, JobRecord, ShellRecord
<1> QED
  BY <1>1, <1>2, <1>3, <1>4, <1>5, <1>6, <1>7, <1>8, <1>9, <1>10 DEF JobsInv

(* A child stopped before its program is remembered by early.              *)
LEMMA StopsKeeps ==
    ASSUME JobsAssumption, JobsInv, NEW p \in Pid, Stops(p)
    PROVE  JobsInv'
<1> USE DEF JobsInv, JobsAssumption
<1>types. /\ child \in [Pid -> ChildRecord] /\ foreground \in Pid \cup {0, Own}
          /\ table \in [Slot -> JobRecord] /\ shell \in ShellRecord
          /\ hasTerminal \in BOOLEAN /\ early \in BOOLEAN
  BY JobsTypes
<1>effect. PICK r \in ChildRecord :
        /\ child[p].state = "runs" /\ child' = [child EXCEPT ![p] = r]
        /\ r.state = "stopped" /\ r.told = FALSE /\ r.group = child[p].group
        /\ r.stands = child[p].stands /\ r.aim = child[p].aim /\ r.takes = child[p].takes
        /\ early' = (early \/ child[p].stands # "program")
        /\ UNCHANGED <<foreground, table, shell, hasTerminal>>
  <2>1. ASSUME NEW c \in ChildRecord, NEW s, s = [c EXCEPT !.state = "stopped", !.told = FALSE]
        PROVE  /\ s \in ChildRecord /\ s.state = "stopped" /\ s.told = FALSE /\ s.group = c.group
               /\ s.stands = c.stands /\ s.aim = c.aim /\ s.takes = c.takes
    BY <1>types, <2>1 DEF ChildRecord
  <2>2. PICK r : r = [child[p] EXCEPT !.state = "stopped", !.told = FALSE]
    OBVIOUS
  <2>3. child' = [child EXCEPT ![p] = r]
    BY <1>types, <2>2 DEF Stops
  <2>4. /\ r \in ChildRecord /\ r.state = "stopped" /\ r.told = FALSE /\ r.group = child[p].group
        /\ r.stands = child[p].stands /\ r.aim = child[p].aim /\ r.takes = child[p].takes
    BY <1>types, <2>1, <2>2
  <2>5. child[p].state = "runs" /\ UNCHANGED <<foreground, table, shell, hasTerminal>>
    BY <1>types DEF Stops
  <2>6. early' = (early \/ child[p].stands # "program")
    BY <1>types DEF Stops
  <2> QED
    BY <1>types, <2>3, <2>4, <2>5, <2>6
<1>typed. /\ child' \in [Pid -> ChildRecord] /\ foreground' \in Pid \cup {0, Own}
          /\ table' \in [Slot -> JobRecord] /\ shell' \in ShellRecord
          /\ hasTerminal' \in BOOLEAN /\ early' \in BOOLEAN
  BY <1>types, <1>effect DEF JobRecord, Reclaimed, NoJob
<1>1. TableSound'
  BY <1>types, <1>effect, <1>typed DEF TableSound
<1>2. MembersStand'
  BY <1>types, <1>effect, <1>typed DEF MembersStand
<1>3. OneOwner'
  BY <1>types, <1>effect, <1>typed DEF OneOwner
<1>4. ChildrenStand'
  BY <1>types, <1>effect, <1>typed DEF ChildrenStand
<1>5. ShellStands'
  BY <1>types, <1>effect, <1>typed DEF ShellStands, Job
<1>6. TakersWaitedFor'
  BY <1>types, <1>effect, <1>typed DEF TakersWaitedFor, Job
<1>7. TerminalKept'
  BY <1>types, <1>effect, <1>typed DEF TerminalKept, Job
<1>8. ChildrenKnown'
  BY <1>types, <1>effect, <1>typed DEF ChildrenKnown
<1>9. TerminalComesBack'
  BY <1>types, <1>effect, <1>typed DEF TerminalComesBack
<1>10. JobsTypeOK'
  BY <1>typed DEF JobsTypeOK, ChildRecord, JobRecord, ShellRecord
<1> QED
  BY <1>1, <1>2, <1>3, <1>4, <1>5, <1>6, <1>7, <1>8, <1>9, <1>10 DEF JobsInv

(* A child continued by another than the shell.                            *)
LEMMA ContinuesKeeps ==
    ASSUME JobsAssumption, JobsInv, NEW p \in Pid, Continues(p)
    PROVE  JobsInv'
<1> USE DEF JobsInv, JobsAssumption
<1>types. /\ child \in [Pid -> ChildRecord] /\ foreground \in Pid \cup {0, Own}
          /\ table \in [Slot -> JobRecord] /\ shell \in ShellRecord
          /\ hasTerminal \in BOOLEAN /\ early \in BOOLEAN
  BY JobsTypes
<1>effect. /\ child' \in [Pid -> ChildRecord]
           /\ \A q \in Pid :
                 /\ child'[q].group = child[q].group /\ child'[q].stands = child[q].stands
                 /\ child'[q].aim = child[q].aim /\ child'[q].takes = child[q].takes
                 /\ child'[q].state = "none" <=> child[q].state = "none"
                 /\ child'[q].state = "stopped" => child[q].state = "stopped" /\ q \notin {p}
                 /\ child'[q].told => child[q].told
           /\ UNCHANGED <<foreground, table, shell, hasTerminal, early>>
  BY <1>types, SignalledIs DEF Continues
<1>typed. /\ child' \in [Pid -> ChildRecord] /\ foreground' \in Pid \cup {0, Own}
          /\ table' \in [Slot -> JobRecord] /\ shell' \in ShellRecord
          /\ hasTerminal' \in BOOLEAN /\ early' \in BOOLEAN
  BY <1>types, <1>effect DEF JobRecord, Reclaimed, NoJob
<1>1. TableSound'
  BY <1>types, <1>effect, <1>typed DEF TableSound
<1>2. MembersStand'
  BY <1>types, <1>effect, <1>typed DEF MembersStand, JobRecord
<1>3. OneOwner'
  BY <1>types, <1>effect, <1>typed DEF OneOwner
<1>4. ChildrenStand'
  BY <1>types, <1>effect, <1>typed DEF ChildrenStand
<1>5. ShellStands'
  <2>1. \A q \in Pid : child[q].told \in BOOLEAN /\ child'[q].told \in BOOLEAN
    BY <1>types, <1>typed DEF ChildRecord
  <2>2. shell.pid \in Pid \cup {0} /\ 0 \notin Pid /\ Job.live \subseteq Pid /\ UNCHANGED Job
    BY <1>types, <1>effect DEF ShellRecord, JobRecord, Job
  <2>3. shell.at = "forked" =>
           /\ shell.pid # 0 /\ child'[shell.pid].state # "none" /\ ~child'[shell.pid].told
           /\ \A j \in Slot : shell.pid \notin table[j].live
           /\ child'[shell.pid].stands # "program" =>
                 child'[shell.pid].aim = IF Job.group = 0 THEN shell.pid ELSE Job.group
    <3>1. CASE shell.at = "forked"
      <4>1. /\ shell.pid # 0 /\ child[shell.pid].state # "none" /\ ~child[shell.pid].told
            /\ \A j \in Slot : shell.pid \notin table[j].live
            /\ child[shell.pid].stands # "program" =>
                  child[shell.pid].aim = IF Job.group = 0 THEN shell.pid ELSE Job.group
        BY <3>1 DEF ShellStands
      <4>2. shell.pid \in Pid
        BY <2>2, <4>1
      <4> QED
        BY <1>effect, <2>1, <4>1, <4>2
    <3> QED
      BY <3>1
  <2>4. shell.at \in Building => \A q \in Job.live : ~child'[q].told
    BY <1>effect, <2>1, <2>2 DEF ShellStands
  <2>5. shell.at = "waits" => \A q \in Job.live : child'[q].state = "stopped" /\ child'[q].told => q \in Job.stopped
    BY <1>effect, <2>1, <2>2 DEF ShellStands
  <2> QED
    BY <1>effect, <2>2, <2>3, <2>4, <2>5 DEF ShellStands
<1>6. TakersWaitedFor'
  BY <1>types, <1>effect, <1>typed DEF TakersWaitedFor, Job
<1>7. TerminalKept'
  BY <1>types, <1>effect, <1>typed DEF TerminalKept, Job
<1>8. ChildrenKnown'
  BY <1>types, <1>effect, <1>typed DEF ChildrenKnown
<1>9. TerminalComesBack'
  BY <1>types, <1>effect, <1>typed DEF TerminalComesBack
<1>10. JobsTypeOK'
  BY <1>typed DEF JobsTypeOK, ChildRecord, JobRecord, ShellRecord
<1> QED
  BY <1>1, <1>2, <1>3, <1>4, <1>5, <1>6, <1>7, <1>8, <1>9, <1>10 DEF JobsInv

(* A child that ends stays known, and gives the terminal to nobody.        *)
LEMMA EndsKeeps ==
    ASSUME JobsAssumption, JobsInv, NEW p \in Pid, Ends(p)
    PROVE  JobsInv'
<1> USE DEF JobsInv, JobsAssumption
<1>types. /\ child \in [Pid -> ChildRecord] /\ foreground \in Pid \cup {0, Own}
          /\ table \in [Slot -> JobRecord] /\ shell \in ShellRecord
          /\ hasTerminal \in BOOLEAN /\ early \in BOOLEAN
  BY JobsTypes
<1>effect. PICK r \in ChildRecord :
        /\ child[p].state # "none" /\ child' = [child EXCEPT ![p] = r]
        /\ r.state = "ended" /\ r.told = FALSE /\ r.group = child[p].group
        /\ r.stands = "program" /\ ~r.takes
        /\ foreground' \in {foreground, 0} /\ (foreground = Own => foreground' = Own)
        /\ UNCHANGED <<table, shell, hasTerminal, early>>
  <2>1. ASSUME NEW c \in ChildRecord, NEW s, s = [c EXCEPT !.state = "ended", !.told = FALSE]
        PROVE  /\ s \in ChildRecord /\ s.state = "ended" /\ s.told = FALSE /\ s.group = c.group
    BY <1>types, <2>1 DEF ChildRecord
  <2>2. PICK s : s = [child[p] EXCEPT !.state = "ended", !.told = FALSE]
    OBVIOUS
  <2>3. child' = [child EXCEPT ![p] = AtProgram(s)]
    BY <1>types, <2>2 DEF Ends
  <2>4. s \in ChildRecord /\ s.state = "ended" /\ s.told = FALSE /\ s.group = child[p].group
    BY <1>types, <2>1, <2>2
  <2> QED
    BY <1>types, <2>3, <2>4, AtProgramIs DEF Ends, Live
<1>typed. /\ child' \in [Pid -> ChildRecord] /\ foreground' \in Pid \cup {0, Own}
          /\ table' \in [Slot -> JobRecord] /\ shell' \in ShellRecord
          /\ hasTerminal' \in BOOLEAN /\ early' \in BOOLEAN
  BY <1>types, <1>effect DEF JobRecord, Reclaimed, NoJob
<1>1. TableSound'
  BY <1>types, <1>effect, <1>typed DEF TableSound
<1>2. MembersStand'
  BY <1>types, <1>effect, <1>typed DEF MembersStand
<1>3. OneOwner'
  BY <1>types, <1>effect, <1>typed DEF OneOwner
<1>4. ChildrenStand'
  BY <1>types, <1>effect, <1>typed DEF ChildrenStand
<1>5. ShellStands'
  BY <1>types, <1>effect, <1>typed DEF ShellStands, Job
<1>6. TakersWaitedFor'
  BY <1>types, <1>effect, <1>typed DEF TakersWaitedFor, Job
<1>7. TerminalKept'
  BY <1>types, <1>effect, <1>typed DEF TerminalKept, Job
<1>8. ChildrenKnown'
  BY <1>types, <1>effect, <1>typed DEF ChildrenKnown
<1>9. TerminalComesBack'
  BY <1>types, <1>effect, <1>typed DEF TerminalComesBack
<1>10. JobsTypeOK'
  BY <1>typed DEF JobsTypeOK, ChildRecord, JobRecord, ShellRecord
<1> QED
  BY <1>1, <1>2, <1>3, <1>4, <1>5, <1>6, <1>7, <1>8, <1>9, <1>10 DEF JobsInv

(* A job that has no child to collect has none at all.                     *)
LEMMA WaitNoneKeeps ==
    ASSUME JobsAssumption, JobsInv, WaitNone
    PROVE  JobsInv'
<1> USE DEF JobsInv, JobsAssumption
<1>types. /\ child \in [Pid -> ChildRecord] /\ foreground \in Pid \cup {0, Own}
          /\ table \in [Slot -> JobRecord] /\ shell \in ShellRecord
          /\ hasTerminal \in BOOLEAN /\ early \in BOOLEAN
  BY JobsTypes
<1>effect. /\ shell.at = "waits" /\ Job.live = {}
           /\ \A j \in Slot : j # shell.job => table'[j] = table[j]
           /\ table' \in [Slot -> JobRecord] /\ table'[shell.job].state = "done"
           /\ table'[shell.job].used = Job.used /\ table'[shell.job].group = Job.group
           /\ table'[shell.job].live = Job.live /\ table'[shell.job].stopped = Job.stopped
           /\ UNCHANGED <<child, foreground, shell, hasTerminal, early>>
  <2>1. Job.live = {}
    BY <1>types
       DEF WaitNone, Selected, Target, MembersStand, ChildrenStand, ShellRecord, JobRecord,
           Job
  <2> QED
    BY <1>types, <2>1 DEF WaitNone, JobRecord, ShellRecord, Job
<1>typed. /\ child' \in [Pid -> ChildRecord] /\ foreground' \in Pid \cup {0, Own}
          /\ table' \in [Slot -> JobRecord] /\ shell' \in ShellRecord
          /\ hasTerminal' \in BOOLEAN /\ early' \in BOOLEAN
  BY <1>types, <1>effect DEF JobRecord, Reclaimed, NoJob
<1>1. TableSound'
  BY <1>types, <1>effect, <1>typed DEF TableSound, ShellStands, Job
<1>2. MembersStand'
  BY <1>types, <1>effect, <1>typed DEF MembersStand, ChildRecord
<1>3. OneOwner'
  BY <1>types, <1>effect, <1>typed DEF OneOwner
<1>4. ChildrenStand'
  BY <1>types, <1>effect, <1>typed DEF ChildrenStand
<1>5. ShellStands'
  BY <1>types, <1>effect, <1>typed DEF ShellStands, Job, Building
<1>6. TakersWaitedFor'
  BY <1>types, <1>effect, <1>typed DEF TakersWaitedFor
<1>7. TerminalKept'
  BY <1>types, <1>effect, <1>typed DEF TerminalKept
<1>8. ChildrenKnown'
  BY <1>types, <1>effect, <1>typed DEF ChildrenKnown, Job
<1>9. TerminalComesBack'
  BY <1>types, <1>effect, <1>typed DEF TerminalComesBack
<1>10. JobsTypeOK'
  BY <1>typed DEF JobsTypeOK, ChildRecord, JobRecord, ShellRecord
<1> QED
  BY <1>1, <1>2, <1>3, <1>4, <1>5, <1>6, <1>7, <1>8, <1>9, <1>10 DEF JobsInv

(* The shell takes the terminal back from a job whose children are all at  *)
(* their programs, or gone.                                                *)
LEMMA ReturnsKeeps ==
    ASSUME JobsAssumption, JobsInv, Returns
    PROVE  JobsInv'
<1> USE DEF JobsInv, JobsAssumption
<1>types. /\ child \in [Pid -> ChildRecord] /\ foreground \in Pid \cup {0, Own}
          /\ table \in [Slot -> JobRecord] /\ shell \in ShellRecord
          /\ hasTerminal \in BOOLEAN /\ early \in BOOLEAN
  BY JobsTypes
<1>effect. /\ shell.at = "waits" /\ foreground' = Reclaimed
           /\ shell' \in ShellRecord /\ shell'.at = "ready" /\ shell'.pid = 0 /\ ~shell'.background
           /\ \/ UNCHANGED table /\ Job.state = "stopped"
              \/ table' = [table EXCEPT ![shell.job] = NoJob] /\ Job.state = "done"
           /\ UNCHANGED <<child, hasTerminal, early>>
  BY <1>types, GoesIs DEF Returns, Job, JobRecord, ShellRecord
<1>empty. NoJob \in JobRecord /\ Reclaimed \in Pid \cup {0, Own}
  BY <1>types DEF NoJob, JobRecord, Reclaimed
<1>typed. /\ child' \in [Pid -> ChildRecord] /\ foreground' \in Pid \cup {0, Own}
          /\ table' \in [Slot -> JobRecord] /\ shell' \in ShellRecord
          /\ hasTerminal' \in BOOLEAN /\ early' \in BOOLEAN
  BY <1>types, <1>effect, <1>empty
<1>1. TableSound'
  BY <1>types, <1>effect, <1>typed DEF TableSound, NoJob
<1>2. MembersStand'
  BY <1>types, <1>effect, <1>typed DEF MembersStand, NoJob
<1>3. OneOwner'
  BY <1>types, <1>effect, <1>typed DEF OneOwner, NoJob
<1>4. ChildrenStand'
  BY <1>types, <1>effect, <1>typed DEF ChildrenStand
<1>5. ShellStands'
  BY <1>types, <1>effect, <1>typed DEF ShellStands, Building
<1>6. TakersWaitedFor'
  BY <1>types, <1>effect, <1>typed
     DEF TakersWaitedFor, TableSound, MembersStand, ChildrenStand, ShellStands, Job,
         ShellRecord
<1>7. TerminalKept'
  BY <1>types, <1>effect, <1>typed DEF TerminalKept
<1>8. ChildrenKnown'
  BY <1>types, <1>effect, <1>typed DEF ChildrenKnown, TableSound, ShellStands, Job, Building
<1>9. TerminalComesBack'
  BY <1>types, <1>effect, <1>typed DEF TerminalComesBack, Reclaimed
<1>10. JobsTypeOK'
  BY <1>typed DEF JobsTypeOK, ChildRecord, JobRecord, ShellRecord
<1> QED
  BY <1>1, <1>2, <1>3, <1>4, <1>5, <1>6, <1>7, <1>8, <1>9, <1>10 DEF JobsInv

(* Before the prompt the shell looks what has become of its jobs.          *)
LEMMA NotifyKeeps ==
    ASSUME JobsAssumption, JobsInv, Notify
    PROVE  JobsInv'
<1> USE DEF JobsInv, JobsAssumption
<1>types. /\ child \in [Pid -> ChildRecord] /\ foreground \in Pid \cup {0, Own}
          /\ table \in [Slot -> JobRecord] /\ shell \in ShellRecord
          /\ hasTerminal \in BOOLEAN /\ early \in BOOLEAN
  BY JobsTypes
<1>effect. /\ shell.at = "ready" /\ shell' \in ShellRecord /\ shell'.at = "notify"
           /\ shell'.pid = shell.pid /\ shell'.background = shell.background
           /\ UNCHANGED <<child, foreground, table, hasTerminal, early>>
  BY <1>types, GoesIs DEF Notify
<1>typed. /\ child' \in [Pid -> ChildRecord] /\ foreground' \in Pid \cup {0, Own}
          /\ table' \in [Slot -> JobRecord] /\ shell' \in ShellRecord
          /\ hasTerminal' \in BOOLEAN /\ early' \in BOOLEAN
  BY <1>types, <1>effect DEF JobRecord, Reclaimed, NoJob
<1>1. TableSound'
  BY <1>types, <1>effect, <1>typed DEF TableSound
<1>2. MembersStand'
  BY <1>types, <1>effect, <1>typed DEF MembersStand
<1>3. OneOwner'
  BY <1>types, <1>effect, <1>typed DEF OneOwner
<1>4. ChildrenStand'
  BY <1>types, <1>effect, <1>typed DEF ChildrenStand
<1>5. ShellStands'
  BY <1>types, <1>effect, <1>typed DEF ShellStands, Building
<1>6. TakersWaitedFor'
  BY <1>types, <1>effect, <1>typed DEF TakersWaitedFor, Building
<1>7. TerminalKept'
  BY <1>types, <1>effect, <1>typed DEF TerminalKept, Building
<1>8. ChildrenKnown'
  BY <1>types, <1>effect, <1>typed DEF ChildrenKnown
<1>9. TerminalComesBack'
  BY <1>types, <1>effect, <1>typed DEF TerminalComesBack
<1>10. JobsTypeOK'
  BY <1>typed DEF JobsTypeOK, ChildRecord, JobRecord, ShellRecord
<1> QED
  BY <1>1, <1>2, <1>3, <1>4, <1>5, <1>6, <1>7, <1>8, <1>9, <1>10 DEF JobsInv

(* Only jobs without children are forgotten.                               *)
LEMMA NotifiedKeeps ==
    ASSUME JobsAssumption, JobsInv, Notified
    PROVE  JobsInv'
<1> USE DEF JobsInv, JobsAssumption
<1>types. /\ child \in [Pid -> ChildRecord] /\ foreground \in Pid \cup {0, Own}
          /\ table \in [Slot -> JobRecord] /\ shell \in ShellRecord
          /\ hasTerminal \in BOOLEAN /\ early \in BOOLEAN
  BY JobsTypes
<1>effect. /\ shell.at = "notify" /\ shell' \in ShellRecord /\ shell'.at = "ready" /\ shell'.pid = 0
           /\ ~shell'.background
           /\ table' = [j \in Slot |-> IF table[j].state = "done" THEN NoJob ELSE table[j]]
           /\ UNCHANGED <<child, foreground, hasTerminal, early>>
  BY <1>types, GoesIs DEF Notified
<1>typed. /\ child' \in [Pid -> ChildRecord] /\ foreground' \in Pid \cup {0, Own}
          /\ table' \in [Slot -> JobRecord] /\ shell' \in ShellRecord
          /\ hasTerminal' \in BOOLEAN /\ early' \in BOOLEAN
  BY <1>types, <1>effect DEF JobRecord, Reclaimed, NoJob
<1>1. TableSound'
  BY <1>types, <1>effect, <1>typed DEF TableSound, NoJob
<1>2. MembersStand'
  BY <1>types, <1>effect, <1>typed DEF MembersStand, NoJob
<1>3. OneOwner'
  BY <1>types, <1>effect, <1>typed DEF OneOwner, NoJob
<1>4. ChildrenStand'
  BY <1>types, <1>effect, <1>typed DEF ChildrenStand
<1>5. ShellStands'
  BY <1>types, <1>effect, <1>typed DEF ShellStands, Building
<1>6. TakersWaitedFor'
  BY <1>types, <1>effect, <1>typed DEF TakersWaitedFor, Building
<1>7. TerminalKept'
  BY <1>types, <1>effect, <1>typed DEF TerminalKept
<1>8. ChildrenKnown'
  BY <1>types, <1>effect, <1>typed DEF ChildrenKnown, TableSound, ShellStands
<1>9. TerminalComesBack'
  BY <1>types, <1>effect, <1>typed DEF TerminalComesBack
<1>10. JobsTypeOK'
  BY <1>typed DEF JobsTypeOK, ChildRecord, JobRecord, ShellRecord
<1> QED
  BY <1>1, <1>2, <1>3, <1>4, <1>5, <1>6, <1>7, <1>8, <1>9, <1>10 DEF JobsInv

(* Every child of the job is in its group, so all of them are continued.   *)
LEMMA ForegroundContinuesKeeps ==
    ASSUME JobsAssumption, JobsInv, ForegroundContinues
    PROVE  JobsInv'
<1> USE DEF JobsInv, JobsAssumption
<1>types. /\ child \in [Pid -> ChildRecord] /\ foreground \in Pid \cup {0, Own}
          /\ table \in [Slot -> JobRecord] /\ shell \in ShellRecord
          /\ hasTerminal \in BOOLEAN /\ early \in BOOLEAN
  BY JobsTypes
<1>effect. /\ shell.at = "fg" 
           /\ child' \in [Pid -> ChildRecord]
           /\ \A q \in Pid :
                 /\ child'[q].group = child[q].group /\ child'[q].stands = child[q].stands
                 /\ child'[q].aim = child[q].aim /\ child'[q].takes = child[q].takes
                 /\ child'[q].state = "none" <=> child[q].state = "none"
                 /\ child'[q].state = "stopped" => child[q].state = "stopped" /\ q \notin Members(Job.group)
                 /\ child'[q].told => child[q].told
           /\ Continued(Job) \in JobRecord /\ table' = [table EXCEPT ![shell.job] = Continued(Job)]
           /\ shell' \in ShellRecord /\ shell'.at = "waits" /\ shell'.job = shell.job
           /\ shell'.pid = shell.pid /\ shell'.background = shell.background
           /\ UNCHANGED <<foreground, hasTerminal, early>>
  <2>1. /\ shell.at = "fg" /\ child' = Signalled(Members(Job.group))
        /\ table' = [table EXCEPT ![shell.job] = Continued(Job)] /\ Goes("waits")
        /\ UNCHANGED <<foreground, hasTerminal, early>>
    BY <1>types DEF ForegroundContinues, Job
  <2>2. Continued(Job) \in JobRecord
    BY <1>types, ContinuedIs DEF Job, ShellRecord
  <2>3. PICK of : of = Members(Job.group)
    OBVIOUS
  <2>4. /\ child' \in [Pid -> ChildRecord]
        /\ \A q \in Pid :
              /\ child'[q].group = child[q].group /\ child'[q].stands = child[q].stands
              /\ child'[q].aim = child[q].aim /\ child'[q].takes = child[q].takes
              /\ child'[q].state = "none" <=> child[q].state = "none"
              /\ child'[q].state = "stopped" => child[q].state = "stopped" /\ q \notin of
              /\ child'[q].told => child[q].told
    BY <1>types, <2>1, <2>3, SignalledIs
  <2> QED
    BY <1>types, <2>1, <2>2, <2>3, <2>4, GoesIs
<1>typed. /\ child' \in [Pid -> ChildRecord] /\ foreground' \in Pid \cup {0, Own}
          /\ table' \in [Slot -> JobRecord] /\ shell' \in ShellRecord
          /\ hasTerminal' \in BOOLEAN /\ early' \in BOOLEAN
  BY <1>types, <1>effect DEF JobRecord, Reclaimed, NoJob
<1>1. TableSound'
  BY <1>types, <1>effect, <1>typed, ContinuedIs DEF TableSound, ShellStands, Job
<1>2. MembersStand'
  BY <1>types, <1>effect, <1>typed, ContinuedIs DEF MembersStand, Job, JobRecord
<1>3. OneOwner'
  BY <1>types, <1>effect, <1>typed, ContinuedIs DEF OneOwner, Job
<1>4. ChildrenStand'
  BY <1>types, <1>effect, <1>typed, ContinuedIs
     DEF ChildrenStand, TableSound, MembersStand, OneOwner, ShellStands, TakersWaitedFor,
         Job, Building, ChildRecord, JobRecord, ShellRecord, Members, Live
<1>5. ShellStands'
  BY <1>types, <1>effect, <1>typed, ContinuedIs
     DEF ShellStands, MembersStand, Job, Building, JobRecord, Members, Live
<1>6. TakersWaitedFor'
  BY <1>types, <1>effect, <1>typed, ContinuedIs DEF TakersWaitedFor, Building
<1>7. TerminalKept'
  BY <1>types, <1>effect, <1>typed, ContinuedIs DEF TerminalKept, Building
<1>8. ChildrenKnown'
  BY <1>types, <1>effect, <1>typed, ContinuedIs DEF ChildrenKnown, Job
<1>9. TerminalComesBack'
  BY <1>types, <1>effect, <1>typed, ContinuedIs DEF TerminalComesBack
<1>10. JobsTypeOK'
  BY <1>typed DEF JobsTypeOK, ChildRecord, JobRecord, ShellRecord
<1> QED
  BY <1>1, <1>2, <1>3, <1>4, <1>5, <1>6, <1>7, <1>8, <1>9, <1>10 DEF JobsInv

(* fg gives the terminal away, and no prompt comes before the wait.        *)
LEMMA ForegroundKeeps ==
    ASSUME JobsAssumption, JobsInv, NEW j \in Slot, Foreground(j)
    PROVE  JobsInv'
<1> USE DEF JobsInv, JobsAssumption
<1>types. /\ child \in [Pid -> ChildRecord] /\ foreground \in Pid \cup {0, Own}
          /\ table \in [Slot -> JobRecord] /\ shell \in ShellRecord
          /\ hasTerminal \in BOOLEAN /\ early \in BOOLEAN
  BY JobsTypes
<1>effect. /\ shell.at = "ready" /\ hasTerminal /\ table[j].used /\ foreground' \in Pid \cup {0, Own}
           /\ shell' \in ShellRecord /\ shell'.at = "fg" /\ shell'.job = j /\ shell'.pid = 0
           /\ ~shell'.background
           /\ UNCHANGED <<child, table, hasTerminal, early>>
  BY <1>types DEF Foreground, ShellRecord, JobRecord
<1>typed. /\ child' \in [Pid -> ChildRecord] /\ foreground' \in Pid \cup {0, Own}
          /\ table' \in [Slot -> JobRecord] /\ shell' \in ShellRecord
          /\ hasTerminal' \in BOOLEAN /\ early' \in BOOLEAN
  BY <1>types, <1>effect DEF JobRecord, Reclaimed, NoJob
<1>1. TableSound'
  BY <1>types, <1>effect, <1>typed DEF TableSound
<1>2. MembersStand'
  BY <1>types, <1>effect, <1>typed DEF MembersStand
<1>3. OneOwner'
  BY <1>types, <1>effect, <1>typed DEF OneOwner
<1>4. ChildrenStand'
  BY <1>types, <1>effect, <1>typed DEF ChildrenStand
<1>5. ShellStands'
  BY <1>types, <1>effect, <1>typed DEF ShellStands, Job, Building
<1>6. TakersWaitedFor'
  BY <1>types, <1>effect, <1>typed DEF TakersWaitedFor, Building
<1>7. TerminalKept'
  BY <1>types, <1>effect, <1>typed DEF TerminalKept
<1>8. ChildrenKnown'
  BY <1>types, <1>effect, <1>typed DEF ChildrenKnown, ShellStands
<1>9. TerminalComesBack'
  BY <1>types, <1>effect, <1>typed DEF TerminalComesBack
<1>10. JobsTypeOK'
  BY <1>typed DEF JobsTypeOK, ChildRecord, JobRecord, ShellRecord
<1> QED
  BY <1>1, <1>2, <1>3, <1>4, <1>5, <1>6, <1>7, <1>8, <1>9, <1>10 DEF JobsInv

(* bg continues the job, and does not wait for it.                         *)
LEMMA BackgroundKeeps ==
    ASSUME JobsAssumption, JobsInv, NEW j \in Slot, Background(j)
    PROVE  JobsInv'
<1> USE DEF JobsInv, JobsAssumption
<1>types. /\ child \in [Pid -> ChildRecord] /\ foreground \in Pid \cup {0, Own}
          /\ table \in [Slot -> JobRecord] /\ shell \in ShellRecord
          /\ hasTerminal \in BOOLEAN /\ early \in BOOLEAN
  BY JobsTypes
<1>effect. PICK of :
        /\ shell.at = "ready" /\ table[j].used
        /\ child' \in [Pid -> ChildRecord]
        /\ \A q \in Pid :
              /\ child'[q].group = child[q].group /\ child'[q].stands = child[q].stands
              /\ child'[q].aim = child[q].aim /\ child'[q].takes = child[q].takes
              /\ child'[q].state = "none" <=> child[q].state = "none"
              /\ child'[q].state = "stopped" => child[q].state = "stopped" /\ q \notin of
              /\ child'[q].told => child[q].told
        /\ Continued(table[j]) \in JobRecord /\ table' = [table EXCEPT ![j] = Continued(table[j])]
        /\ UNCHANGED <<foreground, shell, hasTerminal, early>>
  <2>1. PICK of : child' = Signalled(of)
    BY <1>types DEF Background
  <2>2. /\ shell.at = "ready" /\ table[j].used
        /\ table' = [table EXCEPT ![j] = Continued(table[j])]
        /\ UNCHANGED <<foreground, shell, hasTerminal, early>>
    BY <1>types DEF Background
  <2>3. Continued(table[j]) \in JobRecord
    BY <1>types, ContinuedIs
  <2>4. /\ child' \in [Pid -> ChildRecord]
        /\ \A q \in Pid :
              /\ child'[q].group = child[q].group /\ child'[q].stands = child[q].stands
              /\ child'[q].aim = child[q].aim /\ child'[q].takes = child[q].takes
              /\ child'[q].state = "none" <=> child[q].state = "none"
              /\ child'[q].state = "stopped" => child[q].state = "stopped" /\ q \notin of
              /\ child'[q].told => child[q].told
    BY <1>types, <2>1, SignalledIs, SMTT(30)
  <2> QED
    BY <1>types, <2>2, <2>3, <2>4
<1>typed. /\ child' \in [Pid -> ChildRecord] /\ foreground' \in Pid \cup {0, Own}
          /\ table' \in [Slot -> JobRecord] /\ shell' \in ShellRecord
          /\ hasTerminal' \in BOOLEAN /\ early' \in BOOLEAN
  BY <1>types, <1>effect DEF JobRecord, Reclaimed, NoJob
<1>1. TableSound'
  BY <1>types, <1>effect, <1>typed, ContinuedIs DEF TableSound
<1>2. MembersStand'
  BY <1>types, <1>effect, <1>typed, ContinuedIs DEF MembersStand, JobRecord
<1>3. OneOwner'
  BY <1>types, <1>effect, <1>typed, ContinuedIs DEF OneOwner
<1>4. ChildrenStand'
  BY <1>types, <1>effect, <1>typed, ContinuedIs DEF ChildrenStand
<1>5. ShellStands'
  BY <1>types, <1>effect, <1>typed, ContinuedIs DEF ShellStands, Building
<1>6. TakersWaitedFor'
  BY <1>types, <1>effect, <1>typed, ContinuedIs DEF TakersWaitedFor, Building
<1>7. TerminalKept'
  BY <1>types, <1>effect, <1>typed, ContinuedIs DEF TerminalKept
<1>8. ChildrenKnown'
  BY <1>types, <1>effect, <1>typed, ContinuedIs DEF ChildrenKnown
<1>9. TerminalComesBack'
  BY <1>types, <1>effect, <1>typed, ContinuedIs DEF TerminalComesBack
<1>10. JobsTypeOK'
  BY <1>typed DEF JobsTypeOK, ChildRecord, JobRecord, ShellRecord
<1> QED
  BY <1>1, <1>2, <1>3, <1>4, <1>5, <1>6, <1>7, <1>8, <1>9, <1>10 DEF JobsInv

(* kill may continue a part of the job, which nobody waits for.            *)
LEMMA KillKeeps ==
    ASSUME JobsAssumption, JobsInv, NEW j \in Slot, Kill(j)
    PROVE  JobsInv'
<1> USE DEF JobsInv, JobsAssumption
<1>types. /\ child \in [Pid -> ChildRecord] /\ foreground \in Pid \cup {0, Own}
          /\ table \in [Slot -> JobRecord] /\ shell \in ShellRecord
          /\ hasTerminal \in BOOLEAN /\ early \in BOOLEAN
  BY JobsTypes
<1>effect. PICK of :
        /\ shell.at = "ready" /\ table[j].used
        /\ child' \in [Pid -> ChildRecord]
        /\ \A q \in Pid :
              /\ child'[q].group = child[q].group /\ child'[q].stands = child[q].stands
              /\ child'[q].aim = child[q].aim /\ child'[q].takes = child[q].takes
              /\ child'[q].state = "none" <=> child[q].state = "none"
              /\ child'[q].state = "stopped" => child[q].state = "stopped" /\ q \notin of
              /\ child'[q].told => child[q].told
        /\ Continued(table[j]) \in JobRecord /\ table' = [table EXCEPT ![j] = Continued(table[j])]
        /\ UNCHANGED <<foreground, shell, hasTerminal, early>>
  <2>1. PICK of : child' = Signalled(of)
    BY <1>types DEF Kill
  <2>2. /\ shell.at = "ready" /\ table[j].used
        /\ table' = [table EXCEPT ![j] = Continued(table[j])]
        /\ UNCHANGED <<foreground, shell, hasTerminal, early>>
    BY <1>types DEF Kill
  <2>3. Continued(table[j]) \in JobRecord
    BY <1>types, ContinuedIs
  <2>4. /\ child' \in [Pid -> ChildRecord]
        /\ \A q \in Pid :
              /\ child'[q].group = child[q].group /\ child'[q].stands = child[q].stands
              /\ child'[q].aim = child[q].aim /\ child'[q].takes = child[q].takes
              /\ child'[q].state = "none" <=> child[q].state = "none"
              /\ child'[q].state = "stopped" => child[q].state = "stopped" /\ q \notin of
              /\ child'[q].told => child[q].told
    BY <1>types, <2>1, SignalledIs, SMTT(30)
  <2> QED
    BY <1>types, <2>2, <2>3, <2>4
<1>typed. /\ child' \in [Pid -> ChildRecord] /\ foreground' \in Pid \cup {0, Own}
          /\ table' \in [Slot -> JobRecord] /\ shell' \in ShellRecord
          /\ hasTerminal' \in BOOLEAN /\ early' \in BOOLEAN
  BY <1>types, <1>effect DEF JobRecord, Reclaimed, NoJob
<1>1. TableSound'
  BY <1>types, <1>effect, <1>typed, ContinuedIs DEF TableSound
<1>2. MembersStand'
  BY <1>types, <1>effect, <1>typed, ContinuedIs DEF MembersStand, JobRecord
<1>3. OneOwner'
  BY <1>types, <1>effect, <1>typed, ContinuedIs DEF OneOwner
<1>4. ChildrenStand'
  BY <1>types, <1>effect, <1>typed, ContinuedIs DEF ChildrenStand
<1>5. ShellStands'
  BY <1>types, <1>effect, <1>typed, ContinuedIs DEF ShellStands, Building
<1>6. TakersWaitedFor'
  BY <1>types, <1>effect, <1>typed, ContinuedIs DEF TakersWaitedFor, Building
<1>7. TerminalKept'
  BY <1>types, <1>effect, <1>typed, ContinuedIs DEF TerminalKept
<1>8. ChildrenKnown'
  BY <1>types, <1>effect, <1>typed, ContinuedIs DEF ChildrenKnown
<1>9. TerminalComesBack'
  BY <1>types, <1>effect, <1>typed, ContinuedIs DEF TerminalComesBack
<1>10. JobsTypeOK'
  BY <1>typed DEF JobsTypeOK, ChildRecord, JobRecord, ShellRecord
<1> QED
  BY <1>1, <1>2, <1>3, <1>4, <1>5, <1>6, <1>7, <1>8, <1>9, <1>10 DEF JobsInv

(* A child that has ended leaves the one job that has it.                  *)
LEMMA CollectEndedKeeps ==
    ASSUME JobsAssumption, JobsInv, NEW p \in Pid, CollectEnded(p)
    PROVE  JobsInv'
<1> USE DEF JobsInv, JobsAssumption
<1>types. /\ child \in [Pid -> ChildRecord] /\ foreground \in Pid \cup {0, Own}
          /\ table \in [Slot -> JobRecord] /\ shell \in ShellRecord
          /\ hasTerminal \in BOOLEAN /\ early \in BOOLEAN
  BY JobsTypes
<1>effect. PICK j \in Slot :
        /\ shell.at \in {"notify", "waits"} /\ child[p].state = "ended" /\ p \in table[j].live
        /\ NoChild \in ChildRecord /\ child' = [child EXCEPT ![p] = NoChild]
        /\ NoChild.state = "none" /\ NoChild.takes = FALSE /\ NoChild.stands = "program"
        /\ table' = Record(p, "ended")
        /\ UNCHANGED <<foreground, shell, hasTerminal, early>>
  <2>1. NoChild \in ChildRecord /\ NoChild.state = "none" /\ NoChild.takes = FALSE /\ NoChild.stands = "program"
    BY <1>types DEF NoChild, ChildRecord
  <2> QED
    BY <1>types, <2>1 DEF CollectEnded, Ended, Asks, ChildrenKnown, ShellStands
<1>record. /\ \A i \in Slot : i # j => table'[i] = table[i]
           /\ table'[j].used = table[j].used /\ table'[j].group = table[j].group
           /\ table'[j].live = table[j].live \ {p} /\ table'[j].stopped = table[j].stopped \ {p}
           /\ table'[j].state = (IF table'[j].live = {} THEN "done"
                                  ELSE IF table'[j].live \subseteq table'[j].stopped THEN "stopped"
                                  ELSE "running")
           /\ table' \in [Slot -> JobRecord]
  <2>1. \A i \in Slot : i # j => table'[i] = table[i]
    <3>1. \A i \in Slot : i # j => Record(p, "ended")[i] = table[i]
      BY <1>effect, OthersStay
    <3> QED
      BY <1>effect, <3>1
  <2>2. table'[j].used = table[j].used /\ table'[j].group = table[j].group
    BY <1>effect, RecordOfOwner
  <2>3. table'[j].live = table[j].live \ {p} /\ table'[j].stopped = table[j].stopped \ {p}
    BY <1>effect, RecordOfOwner
  <2>4. table'[j].state = (IF table'[j].live = {} THEN "done"
                           ELSE IF table'[j].live \subseteq table'[j].stopped THEN "stopped"
                           ELSE "running")
    BY <1>effect, RecordOfOwner
  <2>5. table' \in [Slot -> JobRecord]
    BY <1>effect, RecordOfOwner DEF JobRecord
  <2> QED
    BY <2>1, <2>2, <2>3, <2>4, <2>5
<1>typed. /\ child' \in [Pid -> ChildRecord] /\ foreground' \in Pid \cup {0, Own}
          /\ table' \in [Slot -> JobRecord] /\ shell' \in ShellRecord
          /\ hasTerminal' \in BOOLEAN /\ early' \in BOOLEAN
  BY <1>types, <1>effect, <1>record DEF JobRecord, Reclaimed, NoJob
<1>1. TableSound'
  <2>1. ASSUME NEW i \in Slot, i # j
        PROVE  table'[i] = table[i]
    BY <1>record, <2>1
  <2>2. table[j].used
    BY <1>types, <1>effect DEF TableSound, NoJob
  <2>3. /\ table'[j].used /\ table'[j].stopped \subseteq table'[j].live
        /\ table'[j].state = "done" => table'[j].live = {}
        /\ table'[j].state = "stopped" => table'[j].live \subseteq table'[j].stopped
        /\ table'[j].state = "running" => ~(table'[j].live \subseteq table'[j].stopped)
    BY <1>types, <1>effect, <1>record, <2>2 DEF TableSound
  <2> QED
    BY <2>1, <2>3 DEF TableSound
<1>2. MembersStand'
  BY <1>types, <1>effect, <1>typed, <1>record DEF MembersStand, OneOwner
<1>3. OneOwner'
  BY <1>types, <1>effect, <1>typed, <1>record DEF OneOwner
<1>4. ChildrenStand'
  BY <1>types, <1>effect, <1>typed, <1>record DEF ChildrenStand
<1>5. ShellStands'
  BY <1>types, <1>effect, <1>typed, <1>record
     DEF ShellStands, OneOwner, Job, Building, ShellRecord
<1>6. TakersWaitedFor'
  BY <1>types, <1>effect, <1>typed, <1>record DEF TakersWaitedFor, Job, ShellRecord
<1>7. TerminalKept'
  BY <1>types, <1>effect, <1>typed, <1>record DEF TerminalKept
<1>8. ChildrenKnown'
  BY <1>types, <1>effect, <1>typed, <1>record DEF ChildrenKnown
<1>9. TerminalComesBack'
  BY <1>types, <1>effect, <1>typed, <1>record DEF TerminalComesBack
<1>10. JobsTypeOK'
  BY <1>typed DEF JobsTypeOK, ChildRecord, JobRecord, ShellRecord
<1> QED
  BY <1>1, <1>2, <1>3, <1>4, <1>5, <1>6, <1>7, <1>8, <1>9, <1>10 DEF JobsInv

(* A stop is reported once, and the job that has the child knows of it.    *)
LEMMA CollectStoppedKeeps ==
    ASSUME JobsAssumption, JobsInv, NEW p \in Pid, CollectStopped(p)
    PROVE  JobsInv'
<1> USE DEF JobsInv, JobsAssumption
<1>types. /\ child \in [Pid -> ChildRecord] /\ foreground \in Pid \cup {0, Own}
          /\ table \in [Slot -> JobRecord] /\ shell \in ShellRecord
          /\ hasTerminal \in BOOLEAN /\ early \in BOOLEAN
  BY JobsTypes
<1>effect. PICK j \in Slot, r \in ChildRecord :
        /\ shell.at \in {"notify", "waits"} /\ child[p].state = "stopped" /\ p \in table[j].live
        /\ child' = [child EXCEPT ![p] = r]
        /\ r.told = TRUE /\ r.state = child[p].state /\ r.group = child[p].group
        /\ r.stands = child[p].stands /\ r.aim = child[p].aim /\ r.takes = child[p].takes
        /\ table' = Record(p, "stopped")
        /\ UNCHANGED <<foreground, shell, hasTerminal, early>>
  <2>1. PICK j \in Slot : p \in table[j].live
    BY <1>types DEF CollectStopped, StoppedAnew, Asks, ChildrenKnown, ShellStands
  <2>2. ASSUME NEW c \in ChildRecord, NEW s, s = [c EXCEPT !.told = TRUE]
        PROVE  /\ s \in ChildRecord /\ s.told = TRUE /\ s.state = c.state /\ s.group = c.group
               /\ s.stands = c.stands /\ s.aim = c.aim /\ s.takes = c.takes
    BY <1>types, <2>2 DEF ChildRecord
  <2>3. PICK s : s = [child[p] EXCEPT !.told = TRUE]
    OBVIOUS
  <2>4. child' = [child EXCEPT ![p] = s]
    BY <1>types, <2>3 DEF CollectStopped
  <2>5. /\ s \in ChildRecord /\ s.told = TRUE /\ s.state = child[p].state /\ s.group = child[p].group
        /\ s.stands = child[p].stands /\ s.aim = child[p].aim /\ s.takes = child[p].takes
    BY <1>types, <2>2, <2>3
  <2>6. /\ shell.at \in {"notify", "waits"} /\ child[p].state = "stopped"
        /\ table' = Record(p, "stopped")
        /\ UNCHANGED <<foreground, shell, hasTerminal, early>>
    BY <1>types DEF CollectStopped, StoppedAnew, Asks
  <2> QED
    BY <1>types, <2>1, <2>4, <2>5, <2>6
<1>record. /\ \A i \in Slot : i # j => table'[i] = table[i]
           /\ table'[j].used = table[j].used /\ table'[j].group = table[j].group
           /\ table'[j].live = table[j].live /\ table'[j].stopped = table[j].stopped \cup {p}
           /\ table'[j].state = (IF table'[j].live = {} THEN "done"
                                  ELSE IF table'[j].live \subseteq table'[j].stopped THEN "stopped"
                                  ELSE "running")
           /\ table' \in [Slot -> JobRecord]
  BY <1>effect, RecordOfOwner DEF JobRecord
<1>typed. /\ child' \in [Pid -> ChildRecord] /\ foreground' \in Pid \cup {0, Own}
          /\ table' \in [Slot -> JobRecord] /\ shell' \in ShellRecord
          /\ hasTerminal' \in BOOLEAN /\ early' \in BOOLEAN
  BY <1>types, <1>effect, <1>record DEF JobRecord, Reclaimed, NoJob
<1>1. TableSound'
  <2>1. ASSUME NEW i \in Slot, i # j
        PROVE  table'[i] = table[i]
    BY <1>record, <2>1
  <2>2. table[j].used
    BY <1>types, <1>effect DEF TableSound, NoJob
  <2>3. /\ table'[j].used /\ table'[j].stopped \subseteq table'[j].live
        /\ table'[j].state = "done" => table'[j].live = {}
        /\ table'[j].state = "stopped" => table'[j].live \subseteq table'[j].stopped
        /\ table'[j].state = "running" => ~(table'[j].live \subseteq table'[j].stopped)
    <3>0. table[j].stopped \subseteq table[j].live
      BY <2>2 DEF TableSound
    <3>1. table'[j].used /\ table'[j].stopped \subseteq table'[j].live
      BY <1>effect, <1>record, <2>2, <3>0
    <3>2. PICK live, stopped, state : /\ live = table'[j].live /\ stopped = table'[j].stopped
                                      /\ state = table'[j].state
      OBVIOUS
    <3>3. state = IF live = {} THEN "done" ELSE IF live \subseteq stopped THEN "stopped" ELSE "running"
      BY <1>record, <3>2
    <3>4. /\ state = "done" => live = {}
          /\ state = "stopped" => live \subseteq stopped
          /\ state = "running" => ~(live \subseteq stopped)
      BY <3>3
    <3> QED
      BY <3>1, <3>2, <3>4
  <2> QED
    BY <2>1, <2>3 DEF TableSound
<1>2. MembersStand'
  BY <1>types, <1>effect, <1>typed, <1>record DEF MembersStand, ChildrenStand, ShellRecord
<1>3. OneOwner'
  BY <1>types, <1>effect, <1>typed, <1>record DEF OneOwner, ChildRecord
<1>4. ChildrenStand'
  BY <1>types, <1>effect, <1>typed, <1>record DEF ChildrenStand, JobRecord
<1>5. ShellStands'
  BY <1>types, <1>effect, <1>typed, <1>record
     DEF ShellStands, OneOwner, Job, Building, ShellRecord
<1>6. TakersWaitedFor'
  BY <1>types, <1>effect, <1>typed, <1>record DEF TakersWaitedFor, Job, ShellRecord
<1>7. TerminalKept'
  BY <1>types, <1>effect, <1>typed, <1>record DEF TerminalKept
<1>8. ChildrenKnown'
  <2>1. \A q \in Pid : child'[q].state # "none" => child[q].state # "none"
    BY <1>types, <1>effect, <1>typed
  <2>2. \A i \in Slot : table'[i].live = table[i].live /\ table'[i].used = table[i].used
    BY <1>record
  <2> QED
    BY <1>effect, <2>1, <2>2 DEF ChildrenKnown
<1>9. TerminalComesBack'
  BY <1>types, <1>effect, <1>typed, <1>record DEF TerminalComesBack
<1>10. JobsTypeOK'
  BY <1>typed DEF JobsTypeOK, ChildRecord, JobRecord, ShellRecord
<1> QED
  BY <1>1, <1>2, <1>3, <1>4, <1>5, <1>6, <1>7, <1>8, <1>9, <1>10 DEF JobsInv

(* Nothing is known at first, and there is nothing to know.                *)
LEMMA JobsInitially ==
    ASSUME JobsAssumption, JobsInit
    PROVE  JobsInv
<1>1. /\ child = [p \in Pid |-> NoChild] /\ table = [j \in Slot |-> NoJob]
      /\ foreground = (IF hasTerminal THEN Own ELSE 0) /\ shell = AtPrompt
      /\ hasTerminal \in BOOLEAN /\ early = FALSE
  BY DEF JobsInit
<1>2. NoChild \in ChildRecord /\ NoJob \in JobRecord /\ AtPrompt \in ShellRecord
  BY DEF NoChild, NoJob, AtPrompt, ChildRecord, JobRecord, ShellRecord, Slot, JobsAssumption
<1>3. JobsTypeOK
  BY <1>1, <1>2, JobsTypes
<1> QED
  BY <1>1, <1>3 DEF JobsInv, TableSound, MembersStand, OneOwner, ChildrenStand, ShellStands,
     TakersWaitedFor, TerminalKept, ChildrenKnown, TerminalComesBack, NoChild, NoJob, AtPrompt,
     Job, Building

(* Every step keeps the invariant.                                         *)
LEMMA JobsStep ==
    ASSUME JobsAssumption, JobsInv, [JobsNext]_jobVars
    PROVE  JobsInv'
<1>1. CASE JobsNext
  BY <1>1, BeginKeeps, ForkMemberKeeps, JoinKeeps, GiveKeeps, FinishKeeps, ChildSetsKeeps,
     ChildGivesKeeps, StopsKeeps, ContinuesKeeps, EndsKeeps, CollectEndedKeeps,
     CollectStoppedKeeps, WaitNoneKeeps, ReturnsKeeps, NotifyKeeps, NotifiedKeeps,
     ForegroundContinuesKeeps, ForegroundKeeps, BackgroundKeeps, KillKeeps
     DEF JobsNext
<1>2. CASE UNCHANGED jobVars
  BY <1>2 DEF jobVars, JobsInv, JobsTypeOK, TableSound, MembersStand, OneOwner, ChildrenStand,
     ShellStands, TakersWaitedFor, TerminalKept, ChildrenKnown, TerminalComesBack, Job
<1> QED
  BY <1>1, <1>2

(* The invariant of the jobs, for any children, slots and lengths of       *)
(* pipelines.                                                              *)
THEOREM JobsInvariant == JobsSpec => []JobsInv
<1>1. JobsInit => JobsInv
  BY JobsInitially, JobsAssumption
<1>2. JobsInv /\ [JobsNext]_jobVars => JobsInv'
  BY JobsStep, JobsAssumption
<1> QED
  BY <1>1, <1>2, PTL DEF JobsSpec

(* The shell's table, its children and its place are what jobs.c and run.c *)
(* make them.                                                              *)
THEOREM JobsTypeCorrect == JobsSpec => []JobsTypeOK
<1>1. JobsInv => JobsTypeOK
  BY DEF JobsInv
<1> QED
  BY <1>1, JobsInvariant, PTL

(* No child of the shell is ever forgotten, and the shell never waits for  *)
(* a job all of which is stopped and was reported so (jobs.c:              *)
(* ShellJobRecord, ShellJobWaitForeground).                                *)
THEOREM ChildrenStayKnown == JobsSpec => []JobsAreKnown
<1>1. JobsInv => JobsAreKnown
  BY WaitsForSomeone DEF JobsInv
<1> QED
  BY <1>1, JobsInvariant, PTL

(* At its prompt the shell has the terminal, however the givings by the    *)
(* shell and by the children fell (jobs.c: ShellJobWaitForeground,         *)
(* ShellJobPrepareChild).                                                  *)
THEOREM PromptHasTerminal == JobsSpec => []TerminalComesBack
<1>1. JobsInv => TerminalComesBack
  BY DEF JobsInv
<1> QED
  BY <1>1, JobsInvariant, PTL
=============================================================================
