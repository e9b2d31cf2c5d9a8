-------------------------- MODULE RingBufferProofs ---------------------------
(***************************************************************************)
(* What holds of RingBuffer for every buffer size and word size: its       *)
(* indices, and that it is the bounded queue of BoundedFifo.               *)
(***************************************************************************)
EXTENDS RingBuffer, SequenceTheorems, TLAPS

USE SizeAssumption, ParameterAssumption

-----------------------------------------------------------------------------
(* A remainder lies below its modulus.                                     *)
LEMMA ModRange ==
  ASSUME NEW M \in Nat \ {0}, NEW x \in Int
  PROVE  x % M \in 0 .. M - 1
OBVIOUS

(* A number below the modulus is its own remainder.                        *)
LEMMA ModSmall ==
  ASSUME NEW M \in Nat \ {0}, NEW x \in 0 .. M - 1
  PROVE  x % M = x
OBVIOUS

(* One wrap upwards.                                                       *)
LEMMA ModOver ==
  ASSUME NEW M \in Nat \ {0}, NEW x \in M .. 2 * M - 1
  PROVE  x % M = x - M
OBVIOUS

(* One wrap downwards.                                                     *)
LEMMA ModUnder ==
  ASSUME NEW M \in Nat \ {0}, NEW x \in -M .. -1
  PROVE  x % M = x + M
OBVIOUS

(* The masked indices address slots; indices stay machine words.           *)
LEMMA IndexRange ==
  ASSUME NEW i \in Int, NEW k \in Int
  PROVE  Masked(i) \in Slots /\ Advance(i, k) \in Words
BY ModRange DEF Masked, Advance, Slots, Words

(* Unsigned subtraction of two machine words.                              *)
LEMMA WordDifference ==
  ASSUME NEW a \in Words, NEW b \in Words
  PROVE  /\ (a - b) % W = IF a >= b THEN a - b ELSE a - b + W
         /\ (a - b) % W \in Words
<1>1. W \in Nat \ {0} /\ a - b \in Int
  BY DEF Words
<1>2. CASE a >= b
  <2>1. a - b \in 0 .. W - 1
    BY <1>2 DEF Words
  <2> QED BY <1>1, <1>2, <2>1, ModSmall DEF Words
<1>3. CASE ~(a >= b)
  <2>1. a - b \in -W .. -1 /\ a - b + W \in Words
    BY <1>3 DEF Words
  <2> QED BY <1>1, <1>3, <2>1, ModUnder
<1> QED BY <1>2, <1>3

(* When the indices are no further apart than the buffer holds, masking    *)
(* their distance changes nothing, and the two notions of empty agree.     *)
LEMMA MaskedDistance ==
  ASSUME write_index \in Words, read_index \in Words, IndexInv
  PROVE  Occupied = Distance /\ FreeSize \in 0 .. N - 1 /\ EmptyAgrees
<1>1. Distance \in 0 .. W - 1
  BY WordDifference DEF Distance, Words
<1>2. Occupied = Distance
  BY <1>1, ModSmall DEF IndexInv, Occupied, Masked
<1>3. Distance = IF write_index >= read_index THEN write_index - read_index
                 ELSE write_index - read_index + W
  BY WordDifference DEF Distance
<1>4. EmptyAgrees
  BY <1>2, <1>3 DEF EmptyAgrees, Drained, Words
<1> QED BY <1>1, <1>2, <1>4 DEF FreeSize, IndexInv

(* Moving an index that is a machine word wraps at most once.              *)
LEMMA AdvanceOnce ==
  ASSUME NEW i \in Words, NEW k \in 0 .. N
  PROVE  Advance(i, k) = IF i + k < W THEN i + k ELSE i + k - W
<1> DEFINE x == i + k
<1>1. x \in 0 .. 2 * W - 1 /\ W \in Nat \ {0}
  BY DEF Words
<1> HIDE DEF x
<1>2. x % W = IF x < W THEN x ELSE x - W
  <2>1. CASE x < W
    <3>1. x \in 0 .. W - 1
      BY <1>1, <2>1
    <3> QED BY <1>1, <2>1, <3>1, ModSmall
  <2>2. CASE ~(x < W)
    <3>1. x \in W .. 2 * W - 1
      BY <1>1, <2>2
    <3> QED BY <1>1, <2>2, <3>1, ModOver
  <2> QED BY <2>1, <2>2
<1> QED BY <1>1, <1>2 DEF Advance, x, Words

-----------------------------------------------------------------------------
(* Every array access of every operation hits a slot, and every index is a *)
(* machine word: the type invariant, with overwriting enabled or not.      *)
LEMMA StoredType ==
  ASSUME TypeOK, NEW data \in Seq(Values), NEW n \in 0 .. Len(data)
  PROVE  Stored(data, n) \in [Slots -> Values]
<1> SUFFICES ASSUME NEW s \in Slots
             PROVE  LET age == Masked(write_index + n - 1 - s)
                    IN  (IF age < n THEN data[n - age] ELSE buffer[s])
                           \in Values
  BY DEF Stored
<1> DEFINE age == Masked(write_index + n - 1 - s)
<1>1. age \in 0 .. N - 1
  <2>1. write_index + n - 1 - s \in Int
    BY DEF TypeOK, Words, Slots
  <2> QED BY <2>1, IndexRange DEF Slots
<1> HIDE DEF age
<1>2. buffer[s] \in Values
  BY DEF TypeOK
<1>3. CASE age < n
  <2>1. n - age \in 1 .. Len(data)
    BY <1>1, <1>3
  <2> QED BY <1>3, <2>1 DEF age
<1> QED BY <1>2, <1>3 DEF age

(* The element that Peek and Read take from a slot is an element of the
   buffer, whatever its distance from the read index (lines 133, 124). *)
LEMMA ElementType ==
  ASSUME TypeOK, NEW i \in Nat
  PROVE  ElementAt(i) \in Values
<1>1. read_index \in Int
  BY DEF TypeOK, Words
<1>2. Advance(read_index, i) \in Int
  BY <1>1, IndexRange DEF Words
<1>3. Masked(Advance(read_index, i)) \in Slots
  BY <1>2, IndexRange
<1> QED BY <1>3 DEF ElementAt, TypeOK

(* A Write of any length, overwriting or not (lines 140-154), leaves an array
   of the same size and two machine words: the masked index of line 149 too
   is a word. *)
LEMMA WriteType ==
  ASSUME TypeOK, NEW data \in Seq(Values), Write(data)
  PROVE  TypeOK'
<1> DEFINE stored == IF Overwrite THEN Len(data)
                     ELSE Lesser(Len(data), FreeSize)
           pushed == IF stored > FreeSize THEN stored - FreeSize ELSE 0
<1>1. FreeSize \in 0 .. N - 1
  <2>1. Distance \in Int
    BY WordDifference DEF Distance, TypeOK, Words
  <2>2. Occupied \in Slots
    BY <2>1, IndexRange DEF Occupied
  <2> QED BY <2>2 DEF FreeSize, Slots
<1>2. stored \in 0 .. Len(data) /\ pushed \in Nat
  BY <1>1 DEF Lesser
<1>3. buffer' \in [Slots -> Values]
  BY <1>2, StoredType DEF Write
<1>4. write_index' \in Words
  <2>1. write_index \in Int /\ stored \in Int
    BY <1>2 DEF TypeOK, Words
  <2>2. Advance(write_index, stored) \in Words
    BY <2>1, IndexRange
  <2> QED BY <2>2 DEF Write
<1>5. read_index' \in Words
  <2>1. read_index + pushed \in Int
    BY <1>2 DEF TypeOK, Words
  <2>2. Masked(read_index + pushed) \in Slots
    BY <2>1, IndexRange
  <2>3. Masked(read_index + pushed) \in Words
    BY <2>2 DEF Slots, Words
  <2> QED BY <2>3 DEF Write, TypeOK
<1> QED BY <1>3, <1>4, <1>5 DEF Write, TypeOK, Idle

(* The indices stay machine words and the array keeps its N elements under
   every operation, for every size and width of index (lines 197-200). *)
THEOREM TypeCorrect == Spec => []TypeOK
<1>1. Init => TypeOK
  BY DEF Init, TypeOK, Idle, Words
<1>2. TypeOK /\ [Next]_vars => TypeOK'
  <2> SUFFICES ASSUME TypeOK, [Next]_vars PROVE TypeOK'
    OBVIOUS
  <2>1. CASE Reset
    BY <2>1 DEF Reset, TypeOK, Words, Idle
  <2>2. ASSUME NEW v \in Values, WriteOne(v) PROVE TypeOK'
    <3>1. <<v>> \in Seq(Values) /\ Write(<<v>>)
      BY <2>2 DEF WriteOne
    <3> QED BY <3>1, WriteType
  <2>3. ASSUME NEW data \in Bursts, Write(data) PROVE TypeOK'
    <3>1. data \in Seq(Values)
      BY DEF Bursts
    <3> QED BY <2>3, <3>1, WriteType
  <2>4. ASSUME NEW n \in Nat, Read(n) PROVE TypeOK'
    <3>1. Lesser(n, Distance) \in Int /\ read_index \in Int
      BY WordDifference DEF Distance, TypeOK, Words, Lesser
    <3>2. read_index' \in Words
      BY <2>4, <3>1, IndexRange DEF Read
    <3> QED BY <2>4, <3>2 DEF Read, TypeOK, Idle
  <2>5. ASSUME NEW n \in 1 .. MaxBurst, PeekBegin(n) PROVE TypeOK'
    BY <2>5 DEF PeekBegin, TypeOK, Idle
  <2>6. CASE PeekStep
    <3> DEFINE got == Append(peek.got, ElementAt(Len(peek.got)))
    <3>1. got \in Seq(Values) /\ Len(got) \in Nat
      BY ElementType DEF TypeOK
    <3> HIDE DEF got
    <3>2. CASE peek' = Idle
      BY <2>6, <3>2 DEF PeekStep, PeekEnd, TypeOK, Idle
    <3>3. CASE peek' = [goal |-> peek.goal, got |-> got] /\ Len(got) < peek.goal
      BY <2>6, <3>1, <3>3 DEF PeekStep, PeekEnd, TypeOK, Idle
    <3> QED BY <2>6, <3>2, <3>3 DEF PeekStep, PeekEnd, got
  <2>7. CASE IsEmpty \/ IsFull \/ GetOccupiedSize \/ GetFreeSize
    BY <2>7 DEF IsEmpty, IsFull, GetOccupiedSize, GetFreeSize, Answer, TypeOK,
                Idle
  <2>8. CASE UNCHANGED vars
    BY <2>8 DEF vars, TypeOK, Idle
  <2> QED BY <2>1, <2>2, <2>3, <2>4, <2>5, <2>6, <2>7, <2>8 DEF Next, ReadOne
<1> QED BY <1>1, <1>2, PTL DEF Spec

-----------------------------------------------------------------------------
(* Without overwriting the unmasked indices are never more than the        *)
(* capacity apart, although both wrap around the machine word.             *)
LEMMA WriteIndexInv ==
  ASSUME TypeOK, IndexInv, ~Overwrite, NEW data \in Seq(Values), Write(data)
  PROVE  IndexInv'
<1> DEFINE stored == Lesser(Len(data), FreeSize)
<1>1. Occupied = Distance /\ FreeSize \in 0 .. N - 1
  BY MaskedDistance DEF TypeOK
<1>2. stored \in 0 .. N - 1 /\ stored + Distance < N
  <2>1. Distance \in Nat
    BY WordDifference DEF Distance, TypeOK, Words
  <2> QED BY <1>1, <2>1 DEF Lesser, FreeSize
<1>3. read_index' = read_index /\ write_index' = Advance(write_index, stored)
  BY <1>1 DEF Write, Lesser
<1> HIDE DEF stored
<1>4. write_index' = IF write_index + stored < W THEN write_index + stored
                     ELSE write_index + stored - W
  BY <1>2, <1>3, AdvanceOnce DEF TypeOK
<1>5. Distance = IF write_index >= read_index THEN write_index - read_index
                 ELSE write_index - read_index + W
  BY WordDifference DEF Distance, TypeOK
<1>6. Distance' = IF write_index' >= read_index' THEN write_index' - read_index'
                  ELSE write_index' - read_index' + W
  <2>1. write_index' \in Words /\ read_index' \in Words
    BY <1>2, <1>3, <1>4 DEF TypeOK, Words
  <2> QED BY <2>1, WordDifference DEF Distance
<1> QED BY <1>2, <1>3, <1>4, <1>5, <1>6 DEF IndexInv, TypeOK, Words

(* A Read takes no more than Distance elements (line 121), so the read index
   does not overtake the write index, not even across the wrap of the
   words. *)
LEMMA ReadIndexInv ==
  ASSUME TypeOK, IndexInv, NEW n \in Nat, Read(n)
  PROVE  IndexInv'
<1> DEFINE count == Lesser(n, Distance)
<1>1. Distance \in 0 .. N - 1
  BY WordDifference DEF IndexInv, Distance, TypeOK, Words
<1>2. count \in 0 .. Distance
  BY <1>1 DEF Lesser
<1>3. write_index' = write_index /\ read_index' = Advance(read_index, count)
  BY DEF Read
<1> HIDE DEF count
<1>4. read_index' = IF read_index + count < W THEN read_index + count
                    ELSE read_index + count - W
  BY <1>1, <1>2, <1>3, AdvanceOnce DEF TypeOK
<1>5. Distance = IF write_index >= read_index THEN write_index - read_index
                 ELSE write_index - read_index + W
  BY WordDifference DEF Distance, TypeOK
<1>6. Distance' = IF write_index' >= read_index' THEN write_index' - read_index'
                  ELSE write_index' - read_index' + W
  <2>1. write_index' \in Words /\ read_index' \in Words
    BY <1>1, <1>2, <1>3, <1>4 DEF TypeOK, Words
  <2> QED BY <2>1, WordDifference DEF Distance
<1> QED BY <1>1, <1>2, <1>3, <1>4, <1>5, <1>6 DEF IndexInv, TypeOK, Words

(* Without overwriting the indices are never further apart than N - 1, modulo
   2^w: one slot is always left empty (the comment of lines 39-40), so full
   and empty are told apart. *)
THEOREM IndexInvariant ==
  ASSUME ~Overwrite
  PROVE  Spec => []IndexInv
<1>1. Init => IndexInv
  BY ModSmall DEF Init, IndexInv, Distance
<1>2. TypeOK /\ IndexInv /\ [Next]_vars => IndexInv'
  <2> SUFFICES ASSUME TypeOK, IndexInv, [Next]_vars PROVE IndexInv'
    OBVIOUS
  <2>1. CASE Reset
    BY <2>1, ModSmall DEF Reset, IndexInv, Distance
  <2>2. ASSUME NEW data \in Seq(Values), Write(data) PROVE IndexInv'
    BY <2>2, WriteIndexInv
  <2>3. ASSUME NEW n \in Nat, Read(n) PROVE IndexInv'
    BY <2>3, ReadIndexInv
  <2>4. CASE UNCHANGED <<write_index, read_index>>
    BY <2>4 DEF IndexInv, Distance
  <2>5. CASE \/ \E n \in 1 .. MaxBurst : PeekBegin(n)
             \/ PeekStep
             \/ IsEmpty \/ IsFull \/ GetOccupiedSize \/ GetFreeSize
             \/ UNCHANGED vars
    <3>1. UNCHANGED <<write_index, read_index>>
      BY <2>5 DEF PeekBegin, PeekStep, PeekEnd, IsEmpty, IsFull,
                  GetOccupiedSize, GetFreeSize, Answer, vars
    <3> QED BY <2>4, <3>1
  <2>6. ASSUME NEW v \in Values, WriteOne(v) PROVE IndexInv'
    <3>1. <<v>> \in Seq(Values) /\ Write(<<v>>)
      BY <2>6 DEF WriteOne
    <3> QED BY <2>2, <3>1
  <2>7. ASSUME NEW data \in Bursts, Write(data) PROVE IndexInv'
    <3>1. data \in Seq(Values)
      BY DEF Bursts
    <3> QED BY <2>2, <2>7, <3>1
  <2> QED BY <2>1, <2>3, <2>5, <2>6, <2>7 DEF Next, ReadOne
<1> QED BY <1>1, <1>2, TypeCorrect, PTL DEF Spec

(* Without overwriting, IsEmpty and Read agree with GetOccupiedSize: no    *)
(* Read returns an element the buffer does not report.                     *)
THEOREM EmptyAgreement ==
  ASSUME ~Overwrite
  PROVE  Spec => []EmptyAgrees
<1>1. TypeOK /\ IndexInv => EmptyAgrees
  BY MaskedDistance DEF TypeOK
<1> QED BY <1>1, TypeCorrect, IndexInvariant, PTL

-----------------------------------------------------------------------------
(* Quotient and remainder put a number together again.                     *)
LEMMA Division ==
  ASSUME NEW M \in Nat \ {0}, NEW a \in Int
  PROVE  a = (M * (a \div M)) + (a % M)
OBVIOUS

(* The remainder of a number put together from quotient and remainder.     *)
LEMMA ModOfSum ==
  ASSUME NEW M \in Nat \ {0}, NEW q \in Int, NEW r \in 0 .. M - 1
  PROVE  (M * q + r) % M = r
OBVIOUS

(* Going round any number of times leads to the same remainder.            *)
LEMMA ModPlus ==
  ASSUME NEW M \in Nat \ {0}, NEW q \in Int, NEW a \in Int
  PROVE  (a + M * q) % M = a % M
<1> DEFINE d == a \div M
           r == a % M
<1>1. d \in Int /\ r \in 0 .. M - 1 /\ a = (M * d) + r
  BY Division
<1> HIDE DEF d, r
<1>2. a + M * q = (M * (d + q)) + r
  BY <1>1
<1>3. d + q \in Int
  BY <1>1
<1>4. ((M * (d + q)) + r) % M = r
  BY <1>1, <1>3, ModOfSum
<1> QED BY <1>2, <1>4 DEF r

(* The number of words is a multiple of the number of slots, so a wrap of  *)
(* the word does not move the slot.                                        *)
LEMMA SlotOfWord ==
  ASSUME NEW x \in Int, NEW c \in Int
  PROVE  ((x % W) + c) % N = (x + c) % N
<1> DEFINE k == W \div N
           d == x \div W
           r == x % W
<1>1. k \in Int /\ d \in Int /\ r \in Int
  <2>1. W \in Nat \ {0}
    OBVIOUS
  <2> QED BY <2>1, ModRange
<1>2. W = N * k
  <2>1. W = (N * (W \div N)) + (W % N)
    BY Division
  <2> QED BY <2>1
<1>3. x = (W * d) + r
  <2>1. W \in Nat \ {0}
    OBVIOUS
  <2> QED BY <2>1, Division
<1> HIDE DEF k, d, r
<1> DEFINE a == r + c
           q == k * d
<1>4. a \in Int /\ q \in Int
  BY <1>1
<1>5. x + c = a + N * q
  <2>1. W * d = N * (k * d)
    BY <1>1, <1>2
  <2> QED BY <1>1, <1>3, <2>1
<1> HIDE DEF a, q
<1>6. (a + N * q) % N = a % N
  <2>1. N \in Nat \ {0}
    OBVIOUS
  <2> QED BY <1>4, <2>1, ModPlus, Zenon
<1> QED BY <1>5, <1>6 DEF a, r

(* The slot a word addresses is that of the number it stands for.          *)
LEMMA MaskedWord ==
  ASSUME NEW x \in Int
  PROVE  Masked(x % W) = x % N
<1>1. 0 \in Int
  OBVIOUS
<1>2. ((x % W) + 0) % N = (x + 0) % N
  BY <1>1, SlotOfWord, Zenon
<1>3. x % W \in Int
  BY ModRange
<1> QED BY <1>2, <1>3 DEF Masked

(* Where the element at a distance from an advanced index is.              *)
LEMMA SlotAfter ==
  ASSUME NEW i \in Int, NEW j \in Int, NEW k \in Int
  PROVE  /\ Masked(Advance(i, k)) = (i + k) % N
         /\ Masked(Advance(Advance(i, j), k)) = (i + j + k) % N
<1>1. Masked(Advance(i, k)) = (i + k) % N
  <2>1. i + k \in Int
    OBVIOUS
  <2> QED BY <2>1, MaskedWord DEF Advance
<1>2. Masked(Advance(Advance(i, j), k)) = (Advance(i, j) + k) % N
  <2>1. Advance(i, j) + k \in Int
    BY IndexRange DEF Words
  <2> QED BY <2>1, MaskedWord DEF Advance
<1>3. (Advance(i, j) + k) % N = ((i + j) + k) % N
  <2>1. i + j \in Int
    OBVIOUS
  <2>2. (((i + j) % W) + k) % N = ((i + j) + k) % N
    BY <2>1, SlotOfWord
  <2> QED BY <2>2 DEF Advance
<1> QED BY <1>1, <1>2, <1>3

(* Elements whose indices are less than a buffer apart have different      *)
(* slots.                                                                  *)
LEMMA SameSlot ==
  ASSUME NEW a \in Int, NEW e \in 1 .. N
  PROVE  (a + e) % N = a % N <=> e = N
<1> DEFINE d == a \div N
           r == a % N
<1>1. d \in Int /\ r \in 0 .. N - 1 /\ a = (N * d) + r
  BY Division
<1> HIDE DEF d, r
<1>2. CASE r + e < N
  <2>1. a + e = (N * d) + (r + e) /\ r + e \in 0 .. N - 1
    BY <1>1, <1>2
  <2>2. ((N * d) + (r + e)) % N = r + e
    BY <1>1, <2>1, ModOfSum
  <2> QED BY <1>1, <1>2, <2>1, <2>2 DEF r
<1>3. CASE ~(r + e < N)
  <2>1. a + e = (N * (d + 1)) + (r + e - N) /\ r + e - N \in 0 .. N - 1
    BY <1>1, <1>3
  <2>2. d + 1 \in Int
    BY <1>1
  <2> DEFINE q == d + 1
             t == r + e - N
  <2>3. q \in Int /\ t \in 0 .. N - 1 /\ a + e = (N * q) + t
    BY <2>1, <2>2
  <2> HIDE DEF q, t
  <2>4. ((N * q) + t) % N = t
    BY <2>3, ModOfSum
  <2> QED BY <1>1, <2>3, <2>4 DEF r, t
<1> QED BY <1>2, <1>3

(* How far apart the indices are, as numbers.                              *)
LEMMA IndicesApart ==
  ASSUME TypeOK, IndexInv
  PROVE  /\ Distance \in 0 .. N - 1 /\ Occupied = Distance
         /\ FreeSize = N - 1 - Distance
         /\ write_index \in Int /\ read_index \in Int
         /\ \E q \in Int : write_index = read_index + Distance + N * q
<1>1. Occupied = Distance
  BY MaskedDistance DEF TypeOK
<1>2. Distance = IF write_index >= read_index THEN write_index - read_index
                 ELSE write_index - read_index + W
  BY WordDifference DEF Distance, TypeOK
<1>3. Distance \in 0 .. N - 1
  BY <1>2 DEF IndexInv, TypeOK, Words
<1>4. write_index \in Int /\ read_index \in Int
  BY DEF TypeOK, Words
<1>5. \E q \in Int : write_index = read_index + Distance + N * q
  <2>1. CASE write_index >= read_index
    <3> DEFINE m == 0
    <3>1. m \in Int /\ write_index = read_index + Distance + N * m
      BY <1>2, <1>3, <1>4, <2>1
    <3> HIDE DEF m
    <3> QED BY <3>1
  <2>2. CASE ~(write_index >= read_index)
    <3> DEFINE m == -(W \div N)
    <3>1. m \in Int
      OBVIOUS
    <3>2. W = -(N * m)
      <4>1. W = (N * (W \div N)) + (W % N)
        BY Division
      <4> QED BY <4>1
    <3> HIDE DEF m
    <3>3. write_index = read_index + Distance + N * m
      BY <1>2, <1>3, <1>4, <2>2, <3>1, <3>2
    <3> QED BY <3>1, <3>3
  <2> QED BY <2>1, <2>2
<1> QED BY <1>1, <1>3, <1>4, <1>5 DEF FreeSize

(* The queue the buffer holds.                                             *)
ContentsFacts ==
  /\ Occupied = Distance
  /\ Contents \in Seq(Values) /\ Len(Contents) = Distance
  /\ \A i \in 1 .. Distance : Contents[i] = buffer[(read_index + (i - 1)) % N]

LEMMA ContentsAre == TypeOK /\ IndexInv => ContentsFacts
<1> SUFFICES ASSUME TypeOK, IndexInv PROVE ContentsFacts
  OBVIOUS
<1>1. Distance \in Nat /\ Occupied = Distance /\ read_index \in Int
  BY IndicesApart
<1>2. Contents = [i \in 1 .. Distance |-> ElementAt(i - 1)]
  BY <1>1 DEF Contents
<1> HIDE DEF Distance
<1>3. \A i \in 1 .. Distance : ElementAt(i - 1) \in Values
  <2> SUFFICES ASSUME NEW i \in 1 .. Distance PROVE ElementAt(i - 1) \in Values
    OBVIOUS
  <2>1. i - 1 \in Nat
    BY <1>1
  <2> QED BY <2>1, ElementType
<1>4. \A i \in 1 .. Distance :
        ElementAt(i - 1) = buffer[(read_index + (i - 1)) % N]
  <2> SUFFICES ASSUME NEW i \in 1 .. Distance
               PROVE  ElementAt(i - 1) = buffer[(read_index + (i - 1)) % N]
    OBVIOUS
  <2>1. i - 1 \in Int
    BY <1>1
  <2>2. Masked(Advance(read_index, i - 1)) = (read_index + (i - 1)) % N
    BY <1>1, <2>1, SlotAfter
  <2> QED BY <2>2 DEF ElementAt
<1> QED BY <1>1, <1>2, <1>3, <1>4 DEF ContentsFacts

(* The same of the queue after a step.                                     *)
LEMMA ContentsAreNext == TypeOK' /\ IndexInv' => ContentsFacts'
BY ContentsAre, PTL

(* Where Stored puts n elements behind the Distance elements there are: the*)
(* slot at distance i from the read index keeps its element if i is below  *)
(* Distance and gets the element of the burst whose turn it is otherwise.  *)
LEMMA StoredSlots ==
  ASSUME TypeOK, IndexInv, NEW data \in Seq(Values), NEW n \in 0 .. Len(data),
         Distance + n < N, NEW i \in 0 .. Distance + n - 1
  PROVE  Stored(data, n)[(read_index + i) % N] =
           IF i < Distance THEN buffer[(read_index + i) % N]
           ELSE data[i - Distance + 1]
<1>1. /\ Distance \in 0 .. N - 1 /\ write_index \in Int /\ read_index \in Int
      /\ n \in Nat /\ i \in Nat /\ N \in Nat \ {0}
  BY IndicesApart
<1>2. PICK p \in Int : write_index = read_index + Distance + N * p
  BY IndicesApart
<1> DEFINE s == (read_index + i) % N
           d == (read_index + i) \div N
           a == Distance + n - 1 - i
           D == Distance
<1>3. d \in Int /\ s \in Slots /\ read_index + i = (N * d) + s
  <2> DEFINE x == read_index + i
  <2>1. x \in Int
    BY <1>1
  <2> HIDE DEF x
  <2>2. x % N \in Slots
    BY <1>1, <2>1, ModRange DEF Slots
  <2>3. x \div N \in Int /\ x = (N * (x \div N)) + (x % N)
    BY <1>1, <2>1, Division
  <2> QED BY <2>2, <2>3 DEF x
<1>4. D \in Int /\ s \in Int
  BY <1>1, <1>3 DEF Slots
<1>5. a \in 0 .. N - 1 /\ (a < n <=> ~(i < D)) /\ n - a = i - D + 1
  BY <1>1
<1> HIDE DEF D, s, d
<1>6. write_index + n - 1 - s = N * (p + d) + a
  BY <1>1, <1>2, <1>3, <1>4 DEF a, D
<1>7. p + d \in Int
  BY <1>2, <1>3
<1> HIDE DEF a
<1>8. Masked(write_index + n - 1 - s) = a
  <2> DEFINE q == p + d
  <2>1. q \in Int /\ write_index + n - 1 - s = N * q + a
    BY <1>6, <1>7
  <2> HIDE DEF q
  <2>2. (N * q + a) % N = a
    BY <1>1, <1>5, <2>1, ModOfSum
  <2> QED BY <2>1, <2>2 DEF Masked
<1>9. Stored(data, n)[s] = IF a < n THEN data[n - a] ELSE buffer[s]
  BY <1>3, <1>8 DEF Stored
<1> QED BY <1>5, <1>9 DEF s, D

(* How far the indices are apart after each has moved.                     *)
LEMMA DistanceAfter ==
  ASSUME TypeOK, IndexInv, NEW m \in Nat, NEW k \in Nat,
         k <= Distance, Distance + m < N,
         write_index' = Advance(write_index, m),
         read_index' = Advance(read_index, k)
  PROVE  Distance' = Distance + m - k
<1>1. /\ Distance \in 0 .. N - 1
      /\ Distance = IF write_index >= read_index THEN write_index - read_index
                    ELSE write_index - read_index + W
  BY IndicesApart, WordDifference DEF Distance, TypeOK
<1>2. m \in 0 .. N /\ k \in 0 .. N
  BY <1>1
<1>3. write_index' = IF write_index + m < W THEN write_index + m
                     ELSE write_index + m - W
  BY <1>2, AdvanceOnce DEF TypeOK
<1>4. read_index' = IF read_index + k < W THEN read_index + k
                    ELSE read_index + k - W
  BY <1>2, AdvanceOnce DEF TypeOK
<1>5. write_index' \in Words /\ read_index' \in Words
  BY <1>2, <1>3, <1>4 DEF TypeOK, Words
<1>6. Distance' = IF write_index' >= read_index' THEN write_index' - read_index'
                  ELSE write_index' - read_index' + W
  BY <1>5, WordDifference DEF Distance
<1> DEFINE D == Distance
<1>7. D = Distance /\ D' = Distance'
  OBVIOUS
<1> HIDE DEF D
<1> QED BY <1>1, <1>2, <1>3, <1>4, <1>6, <1>7 DEF TypeOK, Words

(* What a Write stores.                                                    *)
Taken(data) == Lesser(Len(data), FreeSize)

(* A Write appends to the queue the elements there is room for.            *)
LEMMA ContentsAfterWrite ==
  ASSUME TypeOK, IndexInv, ~Overwrite, NEW data \in Seq(Values), Write(data)
  PROVE  /\ Taken(data) \in 0 .. Len(data) /\ Distance + Taken(data) < N
         /\ ret' = [op |-> "Write", n |-> Taken(data)]
         /\ Len(Contents') = Distance + Taken(data)
         /\ Contents' \in Seq(Values)
         /\ \A i \in 1 .. Distance : Contents'[i] = Contents[i]
         /\ \A i \in 1 .. Taken(data) : Contents'[Distance + i] = data[i]
         /\ peek' = peek
<1> DEFINE n == Taken(data)
           D == Distance
<1>1. /\ D \in 0 .. N - 1 /\ FreeSize = N - 1 - D /\ read_index \in Int
  BY IndicesApart
<1>2. n \in 0 .. Len(data) /\ D + n < N /\ n \in Nat /\ n <= FreeSize
  <2>1. Len(data) \in Nat
    OBVIOUS
  <2> QED BY <1>1, <2>1 DEF Taken, Lesser
<1>3. /\ buffer' = Stored(data, n) /\ write_index' = Advance(write_index, n)
      /\ read_index' = read_index /\ peek' = peek
      /\ ret' = [op |-> "Write", n |-> n]
  BY <1>1, <1>2 DEF Write, Taken
<1>4. TypeOK' /\ IndexInv'
  BY WriteType, WriteIndexInv
<1>5. Distance' = D + n
  <2>1. read_index' = Advance(read_index, 0)
    BY <1>3, AdvanceOnce DEF TypeOK, Words
  <2>2. D + n - 0 = D + n /\ 0 \in Nat /\ 0 <= D
    BY <1>1, <1>2
  <2> QED BY <1>2, <1>3, <2>1, <2>2, DistanceAfter
<1>6. /\ Contents' \in Seq(Values) /\ Len(Contents') = D + n
      /\ \A i \in 1 .. D + n :
           Contents'[i] = buffer'[(read_index + (i - 1)) % N]
  <2>1. /\ Contents' \in Seq(Values) /\ Len(Contents') = Distance'
        /\ \A i \in 1 .. Distance' :
             Contents'[i] = buffer'[(read_index' + (i - 1)) % N]
    BY <1>4, ContentsAreNext DEF ContentsFacts
  <2> QED BY <1>3, <1>5, <2>1
<1>7. \A i \in 1 .. D : Contents[i] = buffer[(read_index + (i - 1)) % N]
  BY ContentsAre DEF ContentsFacts
<1> HIDE DEF n
<1>8. ASSUME NEW i \in 1 .. D + n
      PROVE  Contents'[i] = IF i - 1 < D
                            THEN buffer[(read_index + (i - 1)) % N]
                            ELSE data[(i - 1) - D + 1]
  <2> DEFINE j == i - 1
  <2>1. j \in 0 .. D + n - 1
    BY <1>1, <1>2
  <2> HIDE DEF j
  <2>2. buffer'[(read_index + j) % N] =
          IF j < D THEN buffer[(read_index + j) % N] ELSE data[j - D + 1]
    BY <1>2, <1>3, <2>1, StoredSlots
  <2> QED BY <1>6, <2>2 DEF j
<1> HIDE DEF D
<1>9. ASSUME NEW i \in 1 .. D
      PROVE  Contents'[i] = Contents[i]
  <2>1. i \in 1 .. D + n /\ i - 1 < D
    BY <1>1, <1>2
  <2> QED BY <1>7, <1>8, <2>1
<1>10. ASSUME NEW i \in 1 .. n
       PROVE  Contents'[D + i] = data[i]
  <2>1. D + i \in 1 .. D + n /\ ~((D + i) - 1 < D) /\ ((D + i) - 1) - D + 1 = i
    BY <1>1, <1>2
  <2> QED BY <1>8, <2>1
<1> QED BY <1>2, <1>3, <1>6, <1>9, <1>10 DEF n, D

(* A Read takes its elements from the head of the queue.                   *)
LEMMA ContentsAfterRead ==
  ASSUME TypeOK, IndexInv, NEW btr \in Nat, Read(btr)
  PROVE  LET count == Lesser(btr, Distance)
         IN  /\ count \in 0 .. Distance
             /\ Contents' \in Seq(Values) /\ Len(Contents') = Distance - count
             /\ \A i \in 1 .. Distance - count : Contents'[i] = Contents[count + i]
             /\ \E data \in Seq(Values) :
                  /\ ret' = [op |-> "Read", data |-> data]
                  /\ Len(data) = count
                  /\ \A i \in 1 .. count : data[i] = Contents[i]
<1> DEFINE count == Lesser(btr, Distance)
           D == Distance
<1>1. D \in 0 .. N - 1 /\ read_index \in Int /\ write_index \in Int
  BY IndicesApart
<1>2. count \in 0 .. D /\ count \in Nat
  BY <1>1 DEF Lesser
<1>3. /\ write_index' = write_index /\ read_index' = Advance(read_index, count)
      /\ buffer' = buffer /\ peek' = peek /\ peek = Idle
      /\ ret' = [op |-> "Read", data |-> [i \in 1 .. count |-> ElementAt(i - 1)]]
  BY DEF Read
<1>4. IndexInv'
  BY ReadIndexInv
<1>5. TypeOK'
  <2>1. read_index' \in Words
    BY <1>1, <1>2, <1>3, IndexRange
  <2> QED BY <1>3, <2>1 DEF TypeOK, Idle
<1> HIDE DEF count
<1>6. Distance' = D - count
  <2>1. write_index' = Advance(write_index, 0)
    BY <1>3, AdvanceOnce DEF TypeOK, Words
  <2>2. D + 0 - count = D - count /\ 0 \in Nat /\ count <= D /\ D + 0 < N
    BY <1>1, <1>2
  <2> QED BY <1>2, <1>3, <2>1, <2>2, DistanceAfter
<1>7. /\ Contents' \in Seq(Values) /\ Len(Contents') = Distance'
      /\ Contents' = [i \in 1 .. Distance' |-> ElementAt(i - 1)']
  <2>1. Contents' = [i \in 1 .. Occupied' |-> ElementAt(i - 1)']
    BY DEF Contents
  <2>2. Occupied' = Distance'
    BY <1>4, <1>5, ContentsAreNext DEF ContentsFacts
  <2> QED BY <1>4, <1>5, <2>1, <2>2, ContentsAreNext DEF ContentsFacts
<1>8. Contents \in Seq(Values) /\ Len(Contents) = D
      /\ \A i \in 1 .. D : Contents[i] = buffer[(read_index + (i - 1)) % N]
  BY ContentsAre DEF ContentsFacts
<1>9. ASSUME NEW i \in 1 .. D - count
      PROVE  Contents'[i] = Contents[count + i]
  <2> DEFINE j == i - 1
  <2>1. j \in Int /\ count + i \in 1 .. D /\ (count + i) - 1 = count + j
    BY <1>1, <1>2
  <2>2. Contents'[i] = ElementAt(i - 1)'
    BY <1>6, <1>7
  <2> HIDE DEF j
  <2>3. Masked(Advance(Advance(read_index, count), j)) = (read_index + count + j) % N
    BY <1>1, <1>2, <2>1, SlotAfter
  <2>4. Contents'[i] = buffer[(read_index + count + j) % N]
    BY <1>3, <2>2, <2>3 DEF ElementAt, j
  <2>5. read_index + count + j = read_index + ((count + i) - 1)
    BY <1>1, <1>2, <2>1
  <2> QED BY <1>8, <2>1, <2>4, <2>5
<1>10. ASSUME NEW i \in 1 .. count
       PROVE  ElementAt(i - 1) = Contents[i] /\ Contents[i] \in Values
  <2> DEFINE j == i - 1
  <2>1. j \in Int /\ i \in 1 .. D
    BY <1>1, <1>2
  <2> HIDE DEF j
  <2>2. Masked(Advance(read_index, j)) = (read_index + j) % N
    BY <1>1, <2>1, SlotAfter
  <2> QED BY <1>8, <2>1, <2>2 DEF ElementAt, j
<1>11. \E data \in Seq(Values) :
         /\ ret' = [op |-> "Read", data |-> data]
         /\ Len(data) = count
         /\ \A i \in 1 .. count : data[i] = Contents[i]
  <2> DEFINE data == [i \in 1 .. count |-> ElementAt(i - 1)]
  <2>1. data \in Seq(Values) /\ Len(data) = count
    BY <1>2, <1>10
  <2>2. \A i \in 1 .. count : data[i] = Contents[i]
    BY <1>10
  <2>3. ret' = [op |-> "Read", data |-> data]
    BY <1>3
  <2> HIDE DEF data
  <2> QED BY <2>1, <2>2, <2>3
<1> HIDE DEF D
<1> QED BY <1>2, <1>6, <1>7, <1>9, <1>11 DEF count, D

-----------------------------------------------------------------------------
(* An element a Peek copied is the queue's as long as it is not read.      *)
LEMMA CurrentAfterWrite ==
  ASSUME TypeOK, IndexInv, ~Overwrite, PeekIsCurrent, TypeOK', IndexInv',
         NEW data \in Seq(Values), Write(data)
  PROVE  PeekIsCurrent'
<1> DEFINE n == Taken(data)
<1>1. /\ n \in Nat /\ Len(Contents') = Distance + n /\ peek' = peek
      /\ \A i \in 1 .. Distance : Contents'[i] = Contents[i]
  <2>1. Len(data) \in Nat
    OBVIOUS
  <2> QED BY <2>1, ContentsAfterWrite
<1> HIDE DEF n
<1>2. Occupied = Distance /\ Distance \in Nat
  BY IndicesApart
<1>3. Occupied' = Distance + n
  BY <1>1, ContentsAreNext DEF ContentsFacts
<1>4. peek.got \in Seq(Values) /\ Len(peek.got) <= Distance
  BY <1>2 DEF TypeOK, PeekIsCurrent
<1>5. Len(peek.got) \in Nat /\ DOMAIN peek.got = 1 .. Len(peek.got)
  BY <1>4
<1>6. \A i \in DOMAIN peek.got : peek.got[i] = Contents[i] /\ i \in 1 .. Distance
  BY <1>2, <1>4, <1>5 DEF PeekIsCurrent
<1> HIDE DEF Distance, Contents, Occupied
<1>7. Len(peek'.got) <= Occupied'
  BY <1>1, <1>2, <1>3, <1>4, <1>5
<1>8. \A i \in DOMAIN peek'.got : peek'.got[i] = Contents'[i]
  BY <1>1, <1>6
<1> QED BY <1>7, <1>8 DEF PeekIsCurrent

(* With no Peek under way nothing was copied.                              *)
LEMMA CurrentWhenNew ==
  ASSUME TypeOK', IndexInv', peek'.got = <<>>
  PROVE  PeekIsCurrent'
<1>1. Occupied' \in Nat
  <2>1. write_index' - read_index' \in Int /\ W \in Nat \ {0}
    BY DEF TypeOK, Words
  <2>2. Distance' \in Int
    BY <2>1, ModRange DEF Distance
  <2>3. Occupied' \in Slots
    BY <2>2, IndexRange DEF Occupied, Masked
  <2> QED BY <2>3 DEF Slots
<1>2. Len(peek'.got) = 0 /\ DOMAIN peek'.got = {}
  OBVIOUS
<1> QED BY <1>1, <1>2 DEF PeekIsCurrent

(* The element that PeekStep copies is the queue's next one.               *)
LEMMA NextPeeked ==
  ASSUME TypeOK, IndexInv, PeekIsCurrent, Peekable(Len(peek.got))
  PROVE  LET got == Append(peek.got, ElementAt(Len(peek.got)))
         IN  /\ got \in Seq(Values) /\ Len(got) = Len(peek.got) + 1
             /\ Len(got) \in 1 .. Distance
             /\ \A i \in 1 .. Len(got) : got[i] = Contents[i]
<1> DEFINE l == Len(peek.got)
           e == ElementAt(l)
           got == Append(peek.got, e)
<1>1. Occupied = Distance /\ Distance \in Nat /\ read_index \in Int
  BY IndicesApart
<1>2. peek.got \in Seq(Values) /\ l \in Nat /\ l < Distance
  BY DEF TypeOK, Peekable
<1>3. e \in Values
  BY <1>2, ElementType
<1>4. e = Contents[l + 1]
  <2>1. l \in Int /\ l + 1 \in 1 .. Distance /\ (l + 1) - 1 = l
    BY <1>1, <1>2
  <2> HIDE DEF l
  <2>2. Masked(Advance(read_index, l)) = (read_index + l) % N
    BY <1>1, <2>1, SlotAfter
  <2>3. Contents[l + 1] = buffer[(read_index + l) % N]
    BY <2>1, ContentsAre DEF ContentsFacts
  <2> QED BY <2>2, <2>3 DEF ElementAt
<1>5. \A i \in 1 .. l : peek.got[i] = Contents[i]
  BY <1>2 DEF PeekIsCurrent
<1> HIDE DEF e
<1>6. /\ got \in Seq(Values) /\ Len(got) = l + 1 /\ got[l + 1] = e
      /\ \A i \in 1 .. l : got[i] = peek.got[i]
  BY <1>2, <1>3
<1> HIDE DEF got
<1>7. Len(got) \in 1 .. Distance
  BY <1>1, <1>2, <1>6
<1>8. \A i \in 1 .. Len(got) : i \in 1 .. l \/ i = l + 1
  BY <1>2, <1>6
<1> QED BY <1>4, <1>5, <1>6, <1>7, <1>8 DEF got, e

(* A step of the Peek itself copies the next element or ends the Peek.     *)
LEMMA CurrentAfterPeekStep ==
  ASSUME TypeOK, IndexInv, PeekIsCurrent, TypeOK', IndexInv', PeekStep
  PROVE  PeekIsCurrent'
<1> DEFINE got == Append(peek.got, ElementAt(Len(peek.got)))
<1>1. CASE peek' = Idle
  BY <1>1, CurrentWhenNew DEF Idle
<1>2. CASE /\ Peekable(Len(peek.got))
           /\ peek' = [goal |-> peek.goal, got |-> got]
           /\ UNCHANGED <<buffer, write_index, read_index>>
  <2>1. got \in Seq(Values) /\ Len(got) \in 1 .. Distance
        /\ \A i \in 1 .. Len(got) : got[i] = Contents[i]
    BY <1>2, NextPeeked
  <2>2. Occupied' = Occupied /\ Contents' = Contents
    BY <1>2 DEF Occupied, Distance, Contents, ElementAt
  <2>3. Occupied = Distance /\ Distance \in Nat
    BY IndicesApart
  <2>4. peek'.got = got
    BY <1>2
  <2> HIDE DEF got
  <2>5. DOMAIN got = 1 .. Len(got)
    BY <2>1
  <2>6. Len(peek'.got) <= Occupied'
    BY <2>1, <2>2, <2>3, <2>4
  <2>7. \A i \in DOMAIN peek'.got : peek'.got[i] = Contents'[i]
    BY <2>1, <2>2, <2>4, <2>5
  <2> QED BY <2>6, <2>7 DEF PeekIsCurrent
<1> QED BY <1>1, <1>2 DEF PeekStep, PeekEnd

(* Without overwriting, what a Peek has copied so far is the head of the   *)
(* queue, although a producer may write between two of its elements        *)
(* (lines 128-137 take the lock once per element).                         *)
THEOREM PeekInvariant ==
  ASSUME ~Overwrite
  PROVE  Spec => []PeekIsCurrent
<1>1. Init => PeekIsCurrent
  <2> SUFFICES ASSUME Init PROVE PeekIsCurrent
    OBVIOUS
  <2>1. Len(peek.got) = 0 /\ DOMAIN peek.got = {}
    BY DEF Init, Idle
  <2>2. Distance = 0 /\ Occupied = 0
    BY ModSmall DEF Init, Distance, Occupied, Masked
  <2> QED BY <2>1, <2>2 DEF PeekIsCurrent
<1>2. TypeOK /\ IndexInv /\ TypeOK' /\ IndexInv' /\ PeekIsCurrent /\ [Next]_vars
        => PeekIsCurrent'
  <2> SUFFICES ASSUME TypeOK, IndexInv, TypeOK', IndexInv', PeekIsCurrent,
                      [Next]_vars
               PROVE  PeekIsCurrent'
    OBVIOUS
  <2>1. ASSUME NEW data \in Seq(Values), Write(data) PROVE PeekIsCurrent'
    BY <2>1, CurrentAfterWrite
  <2>2. ASSUME NEW v \in Values, WriteOne(v) PROVE PeekIsCurrent'
    <3>1. <<v>> \in Seq(Values) /\ Write(<<v>>)
      BY <2>2 DEF WriteOne
    <3> QED BY <2>1, <3>1
  <2>3. ASSUME NEW data \in Bursts, Write(data) PROVE PeekIsCurrent'
    <3>1. data \in Seq(Values)
      BY DEF Bursts
    <3> QED BY <2>1, <2>3, <3>1
  <2>4. CASE Reset \/ ReadOne \/ \E n \in 1 .. MaxBurst : Read(n) \/ PeekBegin(n)
    <3>1. peek'.got = <<>>
      BY <2>4 DEF Reset, ReadOne, Read, PeekBegin, Idle
    <3> QED BY <3>1, CurrentWhenNew
  <2>5. CASE PeekStep
    BY <2>5, CurrentAfterPeekStep
  <2>6. CASE UNCHANGED <<buffer, write_index, read_index, peek>>
    BY <2>6 DEF PeekIsCurrent, Occupied, Distance, Contents, ElementAt
  <2>7. CASE \/ IsEmpty \/ IsFull \/ GetOccupiedSize \/ GetFreeSize
             \/ UNCHANGED vars
    BY <2>6, <2>7 DEF IsEmpty, IsFull, GetOccupiedSize, GetFreeSize, Answer, vars
  <2> QED BY <2>2, <2>3, <2>4, <2>5, <2>7 DEF Next
<1> QED BY <1>1, <1>2, TypeCorrect, IndexInvariant, PTL DEF Spec

-----------------------------------------------------------------------------
(* A Write stores what the queue takes.                                    *)
LEMMA FifoWrite ==
  ASSUME TypeOK, IndexInv, ~Overwrite, NEW data \in Seq(Values), Write(data)
  PROVE  Fifo!Write(data)
<1> DEFINE n == Taken(data)
           front == SubSeq(data, 1, n)
           all == Contents \o front
           lost == IF Len(all) > N - 1 THEN Len(all) - (N - 1) ELSE 0
<1>1. /\ Contents \in Seq(Values) /\ Len(Contents) = Distance
      /\ Distance \in Nat /\ FreeSize = N - 1 - Distance
  BY ContentsAre, IndicesApart DEF ContentsFacts
<1>2. /\ n \in 0 .. Len(data) /\ Distance + n < N
      /\ ret' = [op |-> "Write", n |-> n]
      /\ Len(Contents') = Distance + n /\ Contents' \in Seq(Values)
      /\ \A i \in 1 .. Distance : Contents'[i] = Contents[i]
      /\ \A i \in 1 .. n : Contents'[Distance + i] = data[i]
  BY ContentsAfterWrite
<1>3. n = IF Overwrite THEN Len(data)
          ELSE Fifo!Lesser(Len(data), N - 1 - Len(Contents))
  BY <1>1 DEF Taken, Lesser, Fifo!Lesser
<1>4. n \in Nat /\ Len(data) \in Nat
  BY <1>2
<1> HIDE DEF n
<1>5. /\ front \in Seq(Values) /\ Len(front) = n
      /\ \A i \in 1 .. n : front[i] = data[i]
  <2>1. \A i \in 1 .. n : data[i] \in Values
    BY <1>2, <1>4
  <2>2. /\ front \in Seq(Values)
        /\ Len(front) = IF 1 <= n THEN n - 1 + 1 ELSE 0
        /\ \A i \in 1 .. n - 1 + 1 : front[i] = data[1 + i - 1]
    BY <1>4, <2>1, SubSeqProperties
  <2>3. \A i \in 1 .. n : 1 + i - 1 = i /\ i \in 1 .. n - 1 + 1
    BY <1>4
  <2> QED BY <1>4, <2>2, <2>3
<1> HIDE DEF front
<1>6. /\ all \in Seq(Values) /\ Len(all) = Distance + n
      /\ \A i \in 1 .. Distance : all[i] = Contents[i]
      /\ \A i \in 1 .. n : all[Distance + i] = data[i]
  <2>1. /\ all \in Seq(Values) /\ Len(all) = Len(Contents) + Len(front)
        /\ \A i \in 1 .. Len(Contents) + Len(front) :
             all[i] = IF i <= Len(Contents) THEN Contents[i]
                      ELSE front[i - Len(Contents)]
    BY <1>1, <1>5, ConcatProperties, ZenonT(30)
  <2> HIDE DEF all, Distance
  <2>2. Len(all) = Distance + n
    BY <1>1, <1>5, <2>1
  <2>3. ASSUME NEW i \in 1 .. Distance PROVE all[i] = Contents[i]
    <3>1. i \in 1 .. Len(Contents) + Len(front) /\ i <= Len(Contents)
      BY <1>1, <1>4, <1>5
    <3> QED BY <2>1, <3>1
  <2>4. ASSUME NEW i \in 1 .. n PROVE all[Distance + i] = data[i]
    <3> DEFINE k == Distance + i
    <3>1. /\ k \in 1 .. Len(Contents) + Len(front) /\ ~(k <= Len(Contents))
          /\ k - Len(Contents) = i
      BY <1>1, <1>4, <1>5
    <3> HIDE DEF k
    <3>2. all[k] = front[i]
      BY <2>1, <3>1
    <3> QED BY <1>5, <3>2 DEF k
  <2> QED BY <2>1, <2>2, <2>3, <2>4
<1> HIDE DEF all
<1>7. Contents' = all
  <2> DEFINE c == Contents'
             D == Distance
  <2>1. c \in Seq(Values) /\ Len(c) = Len(all) /\ D \in Nat /\ Len(all) = D + n
    BY <1>1, <1>2, <1>6
  <2>2. ASSUME NEW i \in 1 .. Len(c) PROVE c[i] = all[i]
    <3>1. CASE i \in 1 .. D
      BY <1>2, <1>6, <3>1
    <3>2. CASE ~(i \in 1 .. D)
      <4> DEFINE j == i - D
      <4>1. j \in 1 .. n /\ i = D + j
        BY <1>4, <2>1, <3>2
      <4> HIDE DEF j
      <4> QED BY <1>2, <1>6, <4>1
    <3> QED BY <3>1, <3>2
  <2> HIDE DEF c, D
  <2>3. c = all
    BY <1>6, <2>1, <2>2, SeqEqual
  <2> QED BY <2>3 DEF c
<1>8. lost = 0
  BY <1>1, <1>2, <1>6
<1>9. SubSeq(all, lost + 1, Len(all)) = all
  <2>1. SubSeq(all, 1, Len(all)) = all
    BY <1>6, SubSeqFull
  <2>2. lost + 1 = 1
    BY <1>8
  <2> QED BY <2>1, <2>2
<1> HIDE DEF lost
<1>10. Contents' = SubSeq(all, lost + 1, Len(all))
  BY <1>7, <1>9
<1> QED BY <1>2, <1>3, <1>10 DEF Fifo!Write, all, front, lost

(* A Read takes what the queue gives.                                      *)
LEMMA FifoRead ==
  ASSUME TypeOK, IndexInv, NEW n \in Nat, Read(n)
  PROVE  Fifo!Read(n)
<1> DEFINE count == Lesser(n, Distance)
           D == Distance
           rest == SubSeq(Contents, count + 1, D)
           front == SubSeq(Contents, 1, count)
<1>1. Contents \in Seq(Values) /\ Len(Contents) = D /\ D \in Nat
  BY ContentsAre, IndicesApart DEF ContentsFacts
<1>2. /\ count \in 0 .. D
      /\ Contents' \in Seq(Values) /\ Len(Contents') = D - count
      /\ \A i \in 1 .. D - count : Contents'[i] = Contents[count + i]
  BY ContentsAfterRead
<1>3. PICK data \in Seq(Values) :
        /\ ret' = [op |-> "Read", data |-> data] /\ Len(data) = count
        /\ \A i \in 1 .. count : data[i] = Contents[i]
  BY ContentsAfterRead
<1>4. count = Fifo!Lesser(n, Len(Contents))
  BY <1>1 DEF Lesser, Fifo!Lesser
<1> HIDE DEF count, D
<1>5. count \in Nat /\ \A i \in 1 .. D : Contents[i] \in Values
  BY <1>1, <1>2
<1>6. /\ rest \in Seq(Values) /\ Len(rest) = D - count
      /\ \A i \in 1 .. D - count : rest[i] = Contents[count + i]
  <2>1. \A i \in count + 1 .. D : Contents[i] \in Values
    BY <1>1, <1>2, <1>5
  <2>2. /\ rest \in Seq(Values)
        /\ Len(rest) = IF count + 1 <= D THEN D - (count + 1) + 1 ELSE 0
        /\ \A i \in 1 .. D - (count + 1) + 1 : rest[i] = Contents[(count + 1) + i - 1]
    BY <1>1, <1>5, <2>1, SubSeqProperties
  <2>3. \A i \in 1 .. D - count : /\ i \in 1 .. D - (count + 1) + 1
                                  /\ (count + 1) + i - 1 = count + i
    BY <1>1, <1>5
  <2>4. Len(rest) = D - count
    BY <1>1, <1>2, <2>2
  <2> QED BY <2>2, <2>3, <2>4
<1>7. /\ front \in Seq(Values) /\ Len(front) = count
      /\ \A i \in 1 .. count : front[i] = Contents[i]
  <2>1. \A i \in 1 .. count : Contents[i] \in Values
    BY <1>1, <1>2, <1>5
  <2>2. /\ front \in Seq(Values)
        /\ Len(front) = IF 1 <= count THEN count - 1 + 1 ELSE 0
        /\ \A i \in 1 .. count - 1 + 1 : front[i] = Contents[1 + i - 1]
    BY <1>5, <2>1, SubSeqProperties
  <2>3. \A i \in 1 .. count : i \in 1 .. count - 1 + 1 /\ 1 + i - 1 = i
    BY <1>5
  <2>4. Len(front) = count
    BY <1>5, <2>2
  <2> QED BY <2>2, <2>3, <2>4
<1> HIDE DEF rest, front
<1>8. Contents' = rest
  <2> DEFINE c == Contents'
  <2>1. /\ c \in Seq(Values) /\ Len(c) = Len(rest)
        /\ \A i \in 1 .. Len(c) : c[i] = rest[i]
    BY <1>2, <1>6
  <2> HIDE DEF c
  <2>2. c = rest
    BY <1>6, <2>1, SeqEqual
  <2> QED BY <2>2 DEF c
<1>9. data = front
  BY <1>3, <1>7, SeqEqual
<1> QED BY <1>1, <1>3, <1>4, <1>8, <1>9
        DEF Fifo!Read, Fifo!FirstOf, rest, front

(* What a Peek returns when it ends is what the queue holds at that moment.*)
LEMMA FifoPeek ==
  ASSUME TypeOK, IndexInv, PeekIsCurrent, PeekStep, peek' = Idle
  PROVE  \E n \in 1 .. MaxBurst : Fifo!Peek(n)
<1> DEFINE D == Distance
           l == Len(peek.got)
           next == Append(peek.got, ElementAt(l))
           goal == peek.goal
<1>1. /\ Contents \in Seq(Values) /\ Len(Contents) = D
      /\ Occupied = D /\ D \in Nat
  BY ContentsAre, IndicesApart DEF ContentsFacts
<1>2. /\ peek # Idle /\ peek.got \in Seq(Values) /\ l \in Nat
      /\ goal \in 1 .. MaxBurst /\ l < goal
  BY DEF PeekStep, TypeOK
<1>3. l <= D /\ \A i \in 1 .. l : peek.got[i] = Contents[i]
  BY <1>1, <1>2 DEF PeekIsCurrent
<1>4. ASSUME NEW got \in Seq(Values), PeekEnd(got),
             Len(got) = Fifo!Lesser(goal, D),
             \A i \in 1 .. Len(got) : got[i] = Contents[i]
      PROVE  Fifo!Peek(goal)
  <2> DEFINE k == Fifo!Lesser(goal, D)
             front == SubSeq(Contents, 1, k)
  <2>1. k \in Nat /\ k <= D
    BY <1>1, <1>2 DEF Fifo!Lesser
  <2> HIDE DEF k
  <2>2. \A i \in 1 .. k : Contents[i] \in Values
    BY <1>1, <2>1
  <2>3. /\ front \in Seq(Values)
        /\ Len(front) = IF 1 <= k THEN k - 1 + 1 ELSE 0
        /\ \A i \in 1 .. k - 1 + 1 : front[i] = Contents[1 + i - 1]
    BY <2>1, <2>2, SubSeqProperties
  <2>4. \A i \in 1 .. k : i \in 1 .. k - 1 + 1 /\ 1 + i - 1 = i
    BY <2>1
  <2>5. Len(front) = k /\ \A i \in 1 .. k : front[i] = Contents[i]
    BY <2>1, <2>3, <2>4
  <2> HIDE DEF front
  <2>6. Len(got) = k
    BY <1>4 DEF k
  <2>7. got = front
    BY <1>4, <2>3, <2>5, <2>6, SeqEqual
  <2>8. UNCHANGED Contents
    BY <1>4 DEF PeekEnd, Contents, Occupied, Distance, ElementAt
  <2>9. ret' = [op |-> "Peek", data |-> front]
    BY <1>4, <2>7 DEF PeekEnd
  <2> QED BY <1>1, <2>8, <2>9 DEF Fifo!Peek, Fifo!FirstOf, front, k
<1>5. CASE ~Peekable(l) /\ PeekEnd(peek.got)
  <2>1. l = D
    BY <1>1, <1>2, <1>3, <1>5 DEF Peekable
  <2>2. l = Fifo!Lesser(goal, D)
    BY <1>1, <1>2, <2>1 DEF Fifo!Lesser
  <2> QED BY <1>2, <1>3, <1>4, <1>5, <2>2
<1>6. CASE Peekable(l) /\ Len(next) = goal /\ PeekEnd(next)
  <2>1. /\ next \in Seq(Values) /\ Len(next) \in 1 .. D
        /\ \A i \in 1 .. Len(next) : next[i] = Contents[i]
    BY <1>6, NextPeeked
  <2> HIDE DEF next
  <2>2. Len(next) = Fifo!Lesser(goal, D)
    BY <1>1, <1>2, <1>6, <2>1 DEF Fifo!Lesser
  <2> QED BY <1>2, <1>4, <1>6, <2>1, <2>2
<1>7. CASE peek' = [goal |-> peek.goal, got |-> next]
  <2>1. goal = 0
    BY <1>7 DEF Idle
  <2> QED BY <1>2, <2>1
<1> QED BY <1>5, <1>6, <1>7 DEF PeekStep

(* The full buffer is the one with an element less than it has slots.      *)
LEMMA FullMeans ==
  ASSUME TypeOK, IndexInv
  PROVE  Full <=> Distance = N - 1
<1>1. /\ Distance \in 0 .. N - 1 /\ read_index \in Int /\ write_index \in Int
      /\ N \in Nat \ {0}
  BY IndicesApart
<1>2. PICK q \in Int : write_index = read_index + Distance + N * q
  BY IndicesApart
<1>3. Masked(Advance(write_index, 1)) = (write_index + 1) % N
  BY <1>1, SlotAfter
<1> DEFINE e == Distance + 1
           a == read_index + e
<1>4. e \in 1 .. N /\ a \in Int /\ (e = N <=> Distance = N - 1)
  BY <1>1
<1> HIDE DEF e
<1>5. write_index + 1 = a + N * q
  BY <1>1, <1>2, <1>4 DEF e
<1> HIDE DEF a
<1>6. (a + N * q) % N = a % N
  BY <1>1, <1>4, ModPlus, Zenon
<1>7. (read_index + e) % N = read_index % N <=> e = N
  BY <1>1, <1>4, SameSlot
<1> QED BY <1>3, <1>4, <1>5, <1>6, <1>7 DEF Full, Masked, a

(* The four queries answer about the queue.                                *)
LEMMA FifoQuery ==
  ASSUME TypeOK, IndexInv, IsEmpty \/ IsFull \/ GetOccupiedSize \/ GetFreeSize
  PROVE  Fifo!Query
<1>1. /\ Contents \in Seq(Values) /\ Len(Contents) = Distance
      /\ Occupied = Distance /\ Distance \in Nat /\ FreeSize = N - 1 - Distance
  BY ContentsAre, IndicesApart DEF ContentsFacts
<1>2. Drained <=> Contents = <<>>
  <2>1. Drained <=> Distance = 0
    BY <1>1, MaskedDistance DEF EmptyAgrees, TypeOK
  <2>2. Contents = <<>> <=> Len(Contents) = 0
    BY <1>1
  <2> QED BY <1>1, <2>1, <2>2
<1>3. Full <=> Len(Contents) = N - 1
  BY <1>1, FullMeans
<1>4. UNCHANGED Contents
  BY DEF IsEmpty, IsFull, GetOccupiedSize, GetFreeSize, Answer, Contents,
         Occupied, Distance, ElementAt
<1>5. CASE IsEmpty
  <2>1. Drained = (Contents = <<>>)
    BY <1>2 DEF Drained
  <2> QED BY <1>4, <1>5, <2>1 DEF IsEmpty, Answer, Fifo!Query
<1>6. CASE IsFull
  <2>1. Full = (Len(Contents) = N - 1)
    BY <1>3 DEF Full
  <2> QED BY <1>4, <1>6, <2>1 DEF IsFull, Answer, Fifo!Query
<1>7. CASE GetOccupiedSize
  BY <1>1, <1>4, <1>7 DEF GetOccupiedSize, Answer, Fifo!Query
<1>8. CASE GetFreeSize
  BY <1>1, <1>4, <1>8 DEF GetFreeSize, Answer, Fifo!Query
<1> QED BY <1>5, <1>6, <1>7, <1>8

(* Without overwriting, the buffer is the bounded queue for every number of*)
(* slots and every width of index: every operation, a Peek included that   *)
(* producers interleave with, answers as the queue does (lines 50-154).    *)
THEOREM ImplementsQueue ==
  ASSUME ~Overwrite
  PROVE  Spec => ImplementsFifo
<1>1. Init => Fifo!Init
  <2> SUFFICES ASSUME Init PROVE Contents = <<>> /\ ret = [op |-> "Reset"]
    BY DEF Fifo!Init
  <2>1. Occupied = 0
    BY ModSmall DEF Init, Distance, Occupied, Masked
  <2> QED BY <2>1 DEF Init, Contents
<1>2. TypeOK /\ IndexInv /\ PeekIsCurrent /\ [Next]_vars
        => [Fifo!Next]_(Fifo!vars)
  <2> SUFFICES ASSUME TypeOK, IndexInv, PeekIsCurrent, [Next]_vars
               PROVE  [Fifo!Next]_(Fifo!vars)
    OBVIOUS
  <2>1. CASE Reset
    <3>1. Occupied' = 0
      BY <2>1, ModSmall DEF Reset, Distance, Occupied, Masked
    <3>2. Contents' = <<>>
      BY <3>1 DEF Contents
    <3> QED BY <2>1, <3>2 DEF Reset, Fifo!Reset, Fifo!Next
  <2>2. ASSUME NEW v \in Values, WriteOne(v) PROVE Fifo!Next
    <3>1. <<v>> \in Seq(Values) /\ <<v>> \in [1 .. 1 -> Values] /\ 1 \in 1 .. MaxBurst
      OBVIOUS
    <3>2. Fifo!Write(<<v>>)
      BY <2>2, <3>1, FifoWrite DEF WriteOne
    <3> QED BY <3>1, <3>2 DEF Fifo!Next
  <2>3. ASSUME NEW data \in Bursts, Write(data) PROVE Fifo!Next
    <3>1. PICK n \in 1 .. MaxBurst : data \in [1 .. n -> Values]
      BY DEF Bursts
    <3>2. data \in Seq(Values)
      BY <3>1
    <3>3. Fifo!Write(data)
      BY <2>3, <3>2, FifoWrite
    <3> QED BY <3>1, <3>3 DEF Fifo!Next
  <2>4. ASSUME NEW n \in 1 .. MaxBurst, Read(n) PROVE Fifo!Next
    BY <2>4, FifoRead DEF Fifo!Next
  <2>5. CASE ReadOne
    <3>1. 1 \in 1 .. MaxBurst
      OBVIOUS
    <3> QED BY <2>4, <2>5, <3>1 DEF ReadOne
  <2>6. CASE UNCHANGED <<buffer, write_index, read_index, ret>>
    BY <2>6 DEF Fifo!vars, Contents, Occupied, Distance, ElementAt
  <2>7. CASE PeekStep
    <3>1. CASE peek' = Idle
      BY <2>7, <3>1, FifoPeek DEF Fifo!Next
    <3>2. CASE UNCHANGED <<buffer, write_index, read_index, ret>>
      BY <2>6, <3>2
    <3> QED BY <2>7, <3>1, <3>2 DEF PeekStep, PeekEnd
  <2>8. CASE IsEmpty \/ IsFull \/ GetOccupiedSize \/ GetFreeSize
    BY <2>8, FifoQuery DEF Fifo!Next
  <2>9. CASE (\E n \in 1 .. MaxBurst : PeekBegin(n)) \/ UNCHANGED vars
    BY <2>6, <2>9 DEF PeekBegin, vars
  <2> QED BY <2>1, <2>2, <2>3, <2>4, <2>5, <2>7, <2>8, <2>9 DEF Next
<1> QED BY <1>1, <1>2, TypeCorrect, IndexInvariant, PeekInvariant, PTL
        DEF Spec, ImplementsFifo, Fifo!Spec
=============================================================================
