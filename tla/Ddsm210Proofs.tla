--------------------------- MODULE Ddsm210Proofs -----------------------------
(***************************************************************************)
(* What holds of the feedback path of Ddsm210 for every length of a frame, *)
(* size of the ring and of its indices, and however many frames are sent   *)
(* and bytes are lost: the ring holds the newest bytes of the stream, and  *)
(* no whole frame with a checksum below 128 is passed over.                *)
(***************************************************************************)
EXTENDS Ddsm210, SequenceTheorems, TLAPS

-----------------------------------------------------------------------------
(* Division with remainder.                                                *)
LEMMA DivMod ==
  ASSUME NEW M \in Nat \ {0}, NEW a \in Int
  PROVE  /\ a \div M \in Int /\ a % M \in 0..M - 1
         /\ a = (M * (a \div M)) + (a % M)
OBVIOUS

(* A number below the modulus is its own remainder.                        *)
LEMMA ModSmall ==
  ASSUME NEW M \in Nat \ {0}, NEW x \in 0..M - 1
  PROVE  x % M = x
OBVIOUS

(* A quotient and a remainder are those of their number.                   *)
LEMMA ModOf ==
  ASSUME NEW M \in Nat \ {0}, NEW q \in Int, NEW r \in 0..M - 1
  PROVE  ((M * q) + r) % M = r
OBVIOUS

(* Multiples of the modulus do not count.                                  *)
LEMMA ModPlus ==
  ASSUME NEW M \in Nat \ {0}, NEW q \in Int, NEW a \in Int
  PROVE  (a + (M * q)) % M = a % M
<1> DEFINE d == a \div M
           r == a % M
<1>1. d \in Int /\ r \in 0..M - 1 /\ a = (M * d) + r
  BY DivMod
<1> HIDE DEF d, r
<1>2. d + q \in Int /\ a + (M * q) = (M * (d + q)) + r
  BY <1>1
<1>3. ((M * (d + q)) + r) % M = r
  BY <1>1, <1>2, ModOf
<1> QED BY <1>2, <1>3 DEF r

(* Numbers that differ by a multiple have the same remainder.              *)
LEMMA ModEqual ==
  ASSUME NEW M \in Nat \ {0}, NEW a \in Int, NEW b \in Int, NEW q \in Int,
         b = a + (M * q)
  PROVE  b % M = a % M
BY ModPlus

(* A word wraps around at a multiple of the number of slots.               *)
LEMMA ModMod ==
  ASSUME NEW M \in Nat \ {0}, NEW V \in Nat \ {0}, V % M = 0, NEW a \in Int
  PROVE  \E q \in Int : a % V = a + (M * q)
<1> DEFINE k == V \div M
           d == a \div V
<1>1. k \in Int /\ V = M * k
  <2>1. k \in Int /\ V = (M * k) + 0
    BY DivMod
  <2> HIDE DEF k
  <2> QED BY <2>1
<1>2. d \in Int /\ a % V \in Int /\ a = (V * d) + (a % V)
  BY DivMod
<1> HIDE DEF k, d
<1>3. k * d \in Int /\ V * d = M * (k * d)
  BY <1>1, <1>2
<1>4. -(k * d) \in Int /\ M * (-(k * d)) = -(M * (k * d))
  BY <1>3
<1>5. \A e, r \in Int : a = e + r => r = a + (-e)
  OBVIOUS
<1>6. V * d \in Int /\ M * (k * d) \in Int
  BY <1>1, <1>2, <1>3
<1>7. a % V = a + (-(V * d))
  BY <1>2, <1>5, <1>6, Zenon
<1> QED BY <1>3, <1>4, <1>7

-----------------------------------------------------------------------------
(* A part of a sequence.                                                   *)
LEMMA PartOf ==
  ASSUME NEW S, NEW s \in Seq(S), NEW m \in 1..Len(s) + 1, NEW n \in m - 1..Len(s)
  PROVE  /\ SubSeq(s, m, n) \in Seq(S) /\ Len(SubSeq(s, m, n)) = n - m + 1
         /\ \A j \in 1..n - m + 1 : SubSeq(s, m, n)[j] = s[m + j - 1]
<1> DEFINE part == SubSeq(s, m, n)
<1>1. Len(s) \in Nat /\ \A i \in 1..Len(s) : s[i] \in S
  BY LenProperties, ElementOfSeq
<1>2. m \in Int /\ n \in Int
  BY <1>1
<1>3. \A i \in m..n : s[i] \in S
  BY <1>1
<1>4. /\ part \in Seq(S) /\ Len(part) = IF m <= n THEN n - m + 1 ELSE 0
      /\ \A i \in 1..n - m + 1 : part[i] = s[m + i - 1]
  BY <1>2, <1>3, SubSeqProperties
<1> HIDE DEF part
<1>5. Len(part) = n - m + 1
  BY <1>1, <1>2, <1>4
<1> QED BY <1>4, <1>5 DEF part

(* A sequence without one of its elements.                                 *)
LEMMA WithoutOne ==
  ASSUME NEW S, NEW s \in Seq(S), NEW k \in 1..Len(s)
  PROVE  LET r == SubSeq(s, 1, k - 1) \o SubSeq(s, k + 1, Len(s))
         IN  /\ r \in Seq(S) /\ Len(r) = Len(s) - 1
             /\ \A j \in 1..k - 1 : r[j] = s[j]
             /\ \A j \in k..Len(s) - 1 : r[j] = s[j + 1]
<1> DEFINE a == SubSeq(s, 1, k - 1)
           b == SubSeq(s, k + 1, Len(s))
           r == a \o b
<1>1. Len(s) \in Nat
  OBVIOUS
<1>2. /\ a \in Seq(S) /\ Len(a) = k - 1
      /\ \A j \in 1..k - 1 : a[j] = s[j]
  <2>1. 1 \in 1..Len(s) + 1 /\ k - 1 \in 1 - 1..Len(s) /\ (k - 1) - 1 + 1 = k - 1
    BY <1>1
  <2>2. /\ a \in Seq(S) /\ Len(a) = (k - 1) - 1 + 1
        /\ \A j \in 1..(k - 1) - 1 + 1 : a[j] = s[1 + j - 1]
    BY <2>1, PartOf, Zenon
  <2> HIDE DEF a
  <2> QED BY <1>1, <2>2
<1>3. /\ b \in Seq(S) /\ Len(b) = Len(s) - k
      /\ \A j \in 1..Len(s) - k : b[j] = s[k + j]
  <2>1. k + 1 \in 1..Len(s) + 1 /\ Len(s) \in (k + 1) - 1..Len(s)
    BY <1>1
  <2>2. /\ b \in Seq(S) /\ Len(b) = Len(s) - (k + 1) + 1
        /\ \A j \in 1..Len(s) - (k + 1) + 1 : b[j] = s[(k + 1) + j - 1]
    BY <2>1, PartOf, Zenon
  <2> HIDE DEF b
  <2>3. Len(s) - (k + 1) + 1 = Len(s) - k /\ \A j \in Int : (k + 1) + j - 1 = k + j
    BY <1>1
  <2> QED BY <2>2, <2>3
<1> HIDE DEF a, b
<1>4. /\ r \in Seq(S) /\ Len(r) = Len(a) + Len(b)
      /\ \A i \in 1..Len(a) + Len(b) : r[i] = IF i <= Len(a) THEN a[i] ELSE b[i - Len(a)]
  BY <1>2, <1>3, ConcatProperties, Zenon
<1> HIDE DEF r
<1>5. ASSUME NEW j \in 1..k - 1 PROVE r[j] = s[j]
  <2>1. j \in 1..Len(a) + Len(b) /\ j <= Len(a)
    BY <1>1, <1>2, <1>3
  <2>2. r[j] = a[j]
    BY <1>4, <2>1
  <2> QED BY <1>2, <2>2
<1>6. ASSUME NEW j \in k..Len(s) - 1 PROVE r[j] = s[j + 1]
  <2> DEFINE i == j - (k - 1)
  <2>1. i \in 1..Len(s) - k /\ k + i = j + 1
    BY <1>1
  <2>2. r[j] = b[i]
    BY <1>1, <1>2, <1>3, <1>4, SMTT(30)
  <2> HIDE DEF i
  <2> QED BY <1>3, <2>1, <2>2
<1>7. Len(r) = Len(s) - 1
  BY <1>1, <1>2, <1>3, <1>4
<1> QED BY <1>4, <1>5, <1>6, <1>7, Zenon DEF r, a, b

-----------------------------------------------------------------------------
(* The indices of the ring, after traffic of any length.                   *)
IndicesOK == write_index \in 0..WordSize - 1 /\ read_index \in 0..WordSize - 1

(* The sizes as the lemmas on remainders want them.                        *)
LEMMA Sizes ==
  /\ RxSize \in Nat \ {0} /\ WordSize \in Nat \ {0} /\ WordSize % RxSize = 0
  /\ RxSize > FrameLength /\ FrameLength \in Nat \ {0} /\ WordSize > RxSize
BY DdsmAssumption

(* A word wraps by a whole number of slots.                                *)
LEMMA WordInSlots ==
  ASSUME NEW a \in Int
  PROVE  \E q \in Int : a % WordSize = a + (RxSize * q)
BY Sizes, ModMod, Zenon

(* What the masks and the words come to: places counted modulo the slots.  *)
LEMMA RingPlaces ==
  ASSUME IndicesOK
  PROVE  /\ Rx!Occupied = (write_index - read_index) % RxSize
         /\ Rx!Occupied \in 0..RxSize - 1 /\ Rx!Occupied <= Rx!Distance
         /\ Rx!Distance \in Nat
         /\ \A i \in Int : Rx!ElementAt(i) = buffer[(read_index + i) % RxSize]
<1>1. write_index - read_index \in Int /\ read_index \in Int
  BY Sizes DEF IndicesOK
<1>2. \A a \in Int : (a % WordSize) % RxSize = a % RxSize
  <2> TAKE a \in Int
  <2>1. PICK q \in Int : a % WordSize = a + (RxSize * q)
    BY WordInSlots
  <2>2. (a + (RxSize * q)) % RxSize = a % RxSize
    BY Sizes, ModPlus
  <2> QED BY <2>1, <2>2
<1>3. Rx!Occupied = (write_index - read_index) % RxSize
  BY <1>1, <1>2 DEF Rx!Occupied, Rx!Masked, Rx!Distance
<1>4. Rx!Occupied \in 0..RxSize - 1
  BY <1>1, <1>3, Sizes, DivMod
<1>5. Rx!Distance \in Nat
  <2>1. Rx!Distance \in 0..WordSize - 1
    BY <1>1, Sizes, DivMod DEF Rx!Distance
  <2> QED BY <2>1, Sizes
<1>6. Rx!Occupied <= Rx!Distance
  <2> DEFINE D == Rx!Distance
  <2>1. D \in Nat
    BY <1>5
  <2>2. Rx!Occupied = D % RxSize
    BY DEF Rx!Occupied, Rx!Masked
  <2> HIDE DEF D
  <2>3. D % RxSize <= D
    <3>1. CASE D < RxSize
      <4>1. D \in 0..RxSize - 1
        BY <2>1, <3>1, Sizes
      <4>2. D % RxSize = D
        BY <4>1, Sizes, ModSmall
      <4> QED BY <2>1, <4>2
    <3>2. CASE ~(D < RxSize)
      <4>1. D % RxSize \in 0..RxSize - 1
        BY <2>1, Sizes, DivMod
      <4> QED BY <2>1, <3>2, <4>1, Sizes
    <3> QED BY <3>1, <3>2
  <2> QED BY <2>2, <2>3 DEF D
<1>7. \A i \in Int : Rx!ElementAt(i) = buffer[(read_index + i) % RxSize]
  BY <1>1, <1>2 DEF Rx!ElementAt, Rx!Masked, Rx!Advance
<1> QED BY <1>3, <1>4, <1>5, <1>6, <1>7

(* The number of bytes held, as the next state has it too.                 *)
LEMMA OccupiedNow ==
  IndicesOK => Rx!Occupied = (write_index - read_index) % RxSize
BY RingPlaces

(* The bytes by their age: the newest was written last, and so on back.    *)
AgesInv ==
  /\ Rx!Occupied <= Len(received)
  /\ \A a \in 1..Rx!Occupied :
       buffer[(write_index - a) % RxSize] = received[Len(received) + 1 - a]

(* By its distance from the read index a byte is found in the stream.      *)
LEMMA RingElements ==
  ASSUME IndicesOK, AgesInv, received \in Seq(Bytes), NEW i \in 0..Rx!Occupied - 1
  PROVE  Rx!ElementAt(i) = received[Len(received) - Rx!Occupied + 1 + i]
<1> DEFINE O == Rx!Occupied
           R == Len(received)
           a == O - i
           x == write_index - read_index
           d == x \div RxSize
<1>1. /\ O \in 0..RxSize - 1 /\ O = x % RxSize
      /\ Rx!ElementAt(i) = buffer[(read_index + i) % RxSize]
  BY RingPlaces
<1>2. write_index \in Int /\ read_index \in Int /\ x \in Int /\ R \in Nat
  BY Sizes DEF IndicesOK
<1>3. d \in Int /\ x = (RxSize * d) + (x % RxSize)
  BY <1>2, Sizes, DivMod
<1> HIDE DEF d
<1>4. x = (RxSize * d) + O
  BY <1>1, <1>3
<1>5. a \in 1..O /\ i \in Int
  BY <1>1, Sizes
<1>6. buffer[(write_index - a) % RxSize] = received[R + 1 - a]
  BY <1>5 DEF AgesInv
<1>7. (write_index - a) % RxSize = (read_index + i) % RxSize
  <2>1. RxSize * d \in Int
    BY <1>3, Sizes
  <2>2. \A m \in Int : write_index - read_index = m + O => write_index - (O - i) = (read_index + i) + m
    BY <1>1, <1>2, <1>5, Sizes, SMTT(30)
  <2>3. write_index - a = (read_index + i) + (RxSize * d)
    BY <1>4, <2>1, <2>2
  <2>4. write_index - a \in Int /\ read_index + i \in Int
    BY <1>1, <1>2, <1>5, Sizes
  <2> QED BY <1>3, <2>3, <2>4, Sizes, ModEqual
<1>8. R + 1 - a = R - O + 1 + i
  BY <1>1, <1>2, <1>5, Sizes
<1> QED BY <1>1, <1>6, <1>7, <1>8

(* The bytes by their age are the newest of the stream, in order.          *)
LEMMA AgesMeanStream ==
  ASSUME IndicesOK, AgesInv, received \in Seq(Bytes)
  PROVE  RxIsStream
<1> DEFINE O == Rx!Occupied
           R == Len(received)
           part == SubSeq(received, R - O + 1, R)
<1>1. O \in 0..RxSize - 1 /\ O <= R /\ R \in Nat
  BY RingPlaces DEF AgesInv
<1>2. /\ part \in Seq(Bytes) /\ Len(part) = O
      /\ \A j \in 1..O : part[j] = received[R - O + j]
  <2>1. /\ R - O + 1 \in 1..R + 1 /\ R \in (R - O + 1) - 1..R
        /\ R - (R - O + 1) + 1 = O
    BY <1>1, Sizes
  <2>2. /\ part \in Seq(Bytes) /\ Len(part) = R - (R - O + 1) + 1
        /\ \A j \in 1..R - (R - O + 1) + 1 : part[j] = received[(R - O + 1) + j - 1]
    BY <2>1, PartOf, Zenon
  <2>3. \A j \in 1..O : (R - O + 1) + j - 1 = R - O + j
    BY <1>1, Sizes
  <2> HIDE DEF part, O
  <2> QED BY <2>1, <2>2, <2>3
<1> HIDE DEF part
<1>3. Rx!Contents = part
  <2>1. Rx!Contents = [i \in 1..O |-> Rx!ElementAt(i - 1)]
    BY DEF Rx!Contents
  <2>2. part = [i \in 1..O |-> part[i]]
    BY <1>1, <1>2, Sizes
  <2>3. ASSUME NEW i \in 1..O PROVE Rx!ElementAt(i - 1) = part[i]
    <3>1. i - 1 \in 0..O - 1 /\ R - O + 1 + (i - 1) = R - O + i
      BY <1>1, Sizes
    <3>2. Rx!ElementAt(i - 1) = received[R - O + 1 + (i - 1)]
      BY <3>1, RingElements
    <3> QED BY <1>2, <3>1, <3>2
  <2> HIDE DEF O
  <2> QED BY <2>1, <2>2, <2>3
<1> QED BY <1>1, <1>3 DEF RxIsStream, part

(* The lesser of what there is and what there is room for.                 *)
LEMMA LesserIs ==
  ASSUME NEW a \in Nat, NEW b \in Nat
  PROVE  /\ Rx!Lesser(a, b) \in Nat /\ Rx!Lesser(a, b) <= a /\ Rx!Lesser(a, b) <= b
         /\ Rx!Lesser(a, b) \in {a, b}
BY DEF Rx!Lesser

(* A write of any length: what of the ring is the oldest makes room.       *)
LEMMA RingWritten ==
  ASSUME IndicesOK, NEW data \in Seq(Bytes), Rx!Write(data)
  PROVE  /\ IndicesOK'
         /\ (Rx!Occupied)' = Rx!Lesser(Rx!Occupied + Len(data), RxSize - 1)
<1> DEFINE O == Rx!Occupied
           L == Len(data)
           free == RxSize - 1 - O
           pushed == IF L > free THEN L - free ELSE 0
           x == write_index - read_index
<1>1. O \in 0..RxSize - 1 /\ O = x % RxSize /\ Rx!FreeSize = free
  BY RingPlaces DEF Rx!FreeSize
<1>2. L \in Nat /\ write_index \in Int /\ read_index \in Int /\ pushed \in Nat /\ free \in Nat
  BY <1>1, Sizes DEF IndicesOK
<1>3. /\ write_index' = (write_index + L) % WordSize
      /\ read_index' = IF pushed = 0 THEN read_index ELSE (read_index + pushed) % RxSize
  BY <1>1 DEF Rx!Write, Rx!Advance, Rx!Masked
<1> HIDE DEF O, free, pushed
<1>4. IndicesOK'
  <2>1. (write_index + L) % WordSize \in 0..WordSize - 1
    BY <1>2, Sizes, DivMod
  <2>2. (read_index + pushed) % RxSize \in 0..RxSize - 1
    BY <1>2, Sizes, DivMod
  <2>3. read_index' \in 0..WordSize - 1
    BY <1>3, <2>2, Sizes DEF IndicesOK
  <2> QED BY <1>3, <2>1, <2>3 DEF IndicesOK
<1>5. PICK q \in Int : write_index' = write_index + L + (RxSize * q)
  <2>1. write_index + L \in Int
    BY <1>2
  <2> QED BY <1>3, <2>1, WordInSlots, Zenon
<1>6. PICK p \in Int : read_index' = read_index + pushed + (RxSize * p)
  <2>1. CASE pushed = 0
    <3>1. 0 \in Int /\ read_index' = read_index + pushed + (RxSize * 0)
      BY <1>2, <1>3, <2>1, Sizes
    <3> QED BY <3>1
  <2>2. CASE pushed # 0
    <3> DEFINE b == read_index + pushed
    <3>1. b \in Int /\ read_index' = b % RxSize
      BY <1>2, <1>3, <2>2
    <3> HIDE DEF b
    <3>2. b \div RxSize \in Int /\ b = (RxSize * (b \div RxSize)) + (b % RxSize)
      BY <3>1, Sizes, DivMod
    <3> DEFINE d == b \div RxSize
    <3>3. d \in Int /\ b % RxSize \in Int /\ b = (RxSize * d) + (b % RxSize)
      BY <3>1, <3>2, Sizes, DivMod
    <3> HIDE DEF d
    <3>4. RxSize * d \in Int /\ -d \in Int /\ RxSize * (-d) = -(RxSize * d)
      BY <3>3, Sizes
    <3>5. \A e, r \in Int : b = e + r => r = b + (-e)
      BY <3>1
    <3>6. b % RxSize = b + (RxSize * (-d))
      BY <3>3, <3>4, <3>5
    <3> QED BY <3>1, <3>4, <3>6 DEF b
  <2> QED BY <2>1, <2>2
<1>7. PICK d \in Int : x = O + (RxSize * d)
  <2>1. x \in Int
    BY <1>2
  <2>2. x \div RxSize \in Int /\ x = (RxSize * (x \div RxSize)) + (x % RxSize)
    BY <2>1, Sizes, DivMod
  <2> DEFINE d == x \div RxSize
  <2>3. d \in Int /\ x = (RxSize * d) + O
    BY <1>1, <2>2
  <2> HIDE DEF d, x
  <2>4. RxSize * d \in Int /\ O \in Int
    BY <1>1, <2>3, Sizes
  <2>5. x = O + (RxSize * d)
    BY <2>3, <2>4
  <2> QED BY <2>3, <2>5 DEF d
<1> DEFINE l == O + L - pushed
           s == d + q - p
<1>8. l = Rx!Lesser(O + L, RxSize - 1) /\ l \in 0..RxSize - 1
  BY <1>1, <1>2, Sizes DEF Rx!Lesser, free, pushed
<1>9. write_index' - read_index' = l + (RxSize * s)
  <2>1. /\ RxSize * d \in Int /\ RxSize * q \in Int /\ RxSize * p \in Int
        /\ RxSize * s = (RxSize * d) + (RxSize * q) - (RxSize * p)
    BY <1>5, <1>6, <1>7, Sizes
  <2>2. \A e, f, g \in Int :
          write_index - read_index = O + e =>
            (write_index + L + f) - (read_index + pushed + g) = (O + L - pushed) + (e + f - g)
    BY <1>1, <1>2, Sizes
  <2> QED BY <1>5, <1>6, <1>7, <2>1, <2>2
<1> HIDE DEF l
<1>10. (write_index' - read_index') % RxSize = l
  <2>1. s \in Int /\ l \in Int
    BY <1>5, <1>6, <1>7, <1>8, Sizes
  <2> HIDE DEF s
  <2>2. (l + (RxSize * s)) % RxSize = l % RxSize
    BY <2>1, Sizes, ModPlus
  <2>3. l % RxSize = l
    BY <1>8, Sizes, ModSmall
  <2> QED BY <1>9, <2>2, <2>3
<1>11. (IndicesOK => Rx!Occupied = (write_index - read_index) % RxSize)'
  BY OccupiedNow, PTL
<1> QED BY <1>4, <1>8, <1>10, <1>11 DEF O

(* A number and its remainder are a multiple of the modulus apart.         *)
LEMMA ModApart ==
  ASSUME NEW M \in Nat \ {0}, NEW a \in Int
  PROVE  \E q \in Int : a % M = a + (M * q)
<1> DEFINE d == a \div M
<1>1. d \in Int /\ a % M \in Int /\ a = (M * d) + (a % M)
  BY DivMod
<1> HIDE DEF d
<1>2. M * d \in Int /\ -d \in Int /\ M * (-d) = -(M * d)
  BY <1>1
<1>3. \A e, r \in Int : a = e + r => r = a + (-e)
  OBVIOUS
<1>4. a % M = a + (M * (-d))
  BY <1>1, <1>2, <1>3
<1> QED BY <1>2, <1>4

(* The slot of a byte that was just written, and the byte in it.           *)
LEMMA StoredAt ==
  ASSUME IndicesOK, NEW data \in Seq(Bytes), Rx!Write(data), NEW a \in 1..RxSize
  PROVE  buffer'[(write_index' - a) % RxSize] =
           IF a <= Len(data) THEN data[Len(data) + 1 - a]
           ELSE buffer[(write_index - (a - Len(data))) % RxSize]
<1> DEFINE L == Len(data)
           s == (write_index' - a) % RxSize
           age == (write_index + L - 1 - s) % RxSize
<1>1. /\ write_index' = (write_index + L) % WordSize
      /\ buffer' = [t \in 0..RxSize - 1 |->
           LET old == (write_index + L - 1 - t) % RxSize
           IN  IF old < L THEN data[L - old] ELSE buffer[t]]
  BY DEF Rx!Write, Rx!Stored, Rx!Advance, Rx!Masked, Rx!Slots
<1>2. L \in Nat /\ write_index \in Int
  BY Sizes DEF IndicesOK
<1>3. PICK q \in Int : write_index' = write_index + L + (RxSize * q)
  <2>1. write_index + L \in Int
    BY <1>2
  <2> QED BY <1>1, <2>1, WordInSlots, Zenon
<1>4. RxSize * q \in Int /\ write_index' \in Int /\ a \in Int
  BY <1>2, <1>3, Sizes
<1>5. s \in 0..RxSize - 1
  <2>1. write_index' - a \in Int
    BY <1>4
  <2> QED BY <2>1, Sizes, DivMod
<1>6. buffer'[s] = IF age < L THEN data[L - age] ELSE buffer[s]
  BY <1>1, <1>5
<1>7. PICK p \in Int : s = write_index' - a + (RxSize * p)
  <2>1. write_index' - a \in Int
    BY <1>4
  <2> QED BY <2>1, Sizes, ModApart
<1> HIDE DEF s
<1>8. age = a - 1
  <2> DEFINE m == -(q + p)
  <2>1. m \in Int /\ RxSize * m = -((RxSize * q) + (RxSize * p)) /\ RxSize * p \in Int
    BY <1>3, <1>7, Sizes
  <2>2. \A e, f \in Int : s = (write_index + L + e) - a + f =>
          write_index + L - 1 - s = (a - 1) + (-(e + f))
    BY <1>2, <1>4, <1>5, Sizes
  <2>3. write_index + L - 1 - s = (a - 1) + (RxSize * m)
    BY <1>3, <1>4, <1>7, <2>1, <2>2, SMTT(30)
  <2> HIDE DEF m
  <2>4. a - 1 \in 0..RxSize - 1 /\ a - 1 \in Int
    BY Sizes
  <2>5. ((a - 1) + (RxSize * m)) % RxSize = (a - 1) % RxSize
    BY <2>1, <2>4, Sizes, ModPlus
  <2>6. (a - 1) % RxSize = a - 1
    BY <2>4, Sizes, ModSmall
  <2> QED BY <2>3, <2>5, <2>6
<1> HIDE DEF age
<1>9. age < L <=> a <= L
  BY <1>2, <1>4, <1>8
<1>10. L - age = L + 1 - a
  BY <1>2, <1>4, <1>8
<1>11. s = (write_index - (a - L)) % RxSize
  <2>1. write_index' - a = (write_index - (a - L)) + (RxSize * q)
    BY <1>2, <1>3, <1>4
  <2>2. write_index - (a - L) \in Int
    BY <1>2, <1>4
  <2>3. ((write_index - (a - L)) + (RxSize * q)) % RxSize = (write_index - (a - L)) % RxSize
    BY <1>3, <2>2, Sizes, ModPlus
  <2> QED BY <2>1, <2>3 DEF s
<1> QED BY <1>6, <1>9, <1>10, <1>11 DEF s

(* The newest bytes of the longer stream are in the ring.                  *)
LEMMA AgesWritten ==
  ASSUME IndicesOK, AgesInv, received \in Seq(Bytes),
         NEW data \in Seq(Bytes), Rx!Write(data), received' = received \o data
  PROVE  AgesInv'
<1> DEFINE O == Rx!Occupied
           L == Len(data)
           R == Len(received)
           all == received \o data
           kept == Rx!Lesser(O + L, RxSize - 1)
<1>1. O \in 0..RxSize - 1 /\ O <= R /\ R \in Nat /\ L \in Nat
  BY RingPlaces DEF AgesInv
<1>2. (Rx!Occupied)' = kept
  BY RingWritten
<1>3. kept \in 0..RxSize - 1 /\ kept <= O + L
  <2>1. O + L \in Nat /\ RxSize - 1 \in Nat
    BY <1>1, Sizes
  <2>2. kept \in Nat /\ kept <= O + L /\ kept <= RxSize - 1
    BY <2>1, LesserIs, Zenon
  <2> HIDE DEF kept
  <2> QED BY <2>1, <2>2
<1>4. /\ Len(all) = R + L
      /\ \A i \in 1..R + L : all[i] = IF i <= R THEN received[i] ELSE data[i - R]
  BY ConcatProperties
<1> HIDE DEF all, kept
<1>5. ASSUME NEW a \in 1..kept
      PROVE  buffer'[(write_index' - a) % RxSize] = all[Len(all) + 1 - a]
  <2>1. a \in 1..RxSize
    BY <1>3, Sizes
  <2>2. buffer'[(write_index' - a) % RxSize] =
          IF a <= L THEN data[L + 1 - a]
          ELSE buffer[(write_index - (a - L)) % RxSize]
    BY <2>1, StoredAt
  <2> DEFINE i == Len(all) + 1 - a
             b == a - L
  <2>3. i \in 1..R + L /\ (i <= R <=> ~(a <= L))
    BY <1>1, <1>3, <1>4, <2>1, Sizes
  <2>4. CASE a <= L
    <3>1. i - R = L + 1 - a
      BY <1>1, <1>4, <2>1, Sizes
    <3>2. all[i] = data[i - R]
      BY <1>4, <2>3, <2>4
    <3> QED BY <2>2, <2>4, <3>1, <3>2
  <2>5. CASE ~(a <= L)
    <3>1. b \in 1..O /\ i = R + 1 - b
      BY <1>1, <1>3, <1>4, <2>1, <2>5, Sizes
    <3>2. all[i] = received[i]
      BY <1>4, <2>3, <2>5
    <3> HIDE DEF b, i
    <3>3. buffer[(write_index - b) % RxSize] = received[R + 1 - b]
      BY <3>1 DEF AgesInv
    <3> QED BY <2>2, <2>5, <3>1, <3>2, <3>3 DEF b, i
  <2> QED BY <2>4, <2>5
<1>6. kept <= Len(all)
  BY <1>1, <1>3, <1>4, Sizes
<1> QED BY <1>2, <1>5, <1>6 DEF AgesInv, all

(* A read takes the oldest bytes.                                          *)
LEMMA RingRead ==
  ASSUME IndicesOK, NEW n \in 0..Rx!Occupied, Rx!Read(n)
  PROVE  /\ IndicesOK' /\ (Rx!Occupied)' = Rx!Occupied - n
         /\ buffer' = buffer /\ write_index' = write_index
<1> DEFINE O == Rx!Occupied
           x == write_index - read_index
<1>1. O \in 0..RxSize - 1 /\ O = x % RxSize /\ O <= Rx!Distance /\ Rx!Distance \in Nat
  BY RingPlaces
<1>2. n \in Nat /\ Rx!Lesser(n, Rx!Distance) = n
  BY <1>1, Sizes DEF Rx!Lesser
<1>3. buffer' = buffer /\ write_index' = write_index
      /\ read_index' = (read_index + n) % WordSize
  BY <1>2 DEF Rx!Read, Rx!Advance
<1>4. write_index \in Int /\ read_index \in Int /\ x \in Int
  BY Sizes DEF IndicesOK
<1>5. IndicesOK'
  <2>1. (read_index + n) % WordSize \in 0..WordSize - 1
    BY <1>2, <1>4, Sizes, DivMod
  <2> QED BY <1>3, <2>1 DEF IndicesOK
<1>6. PICK q \in Int : read_index' = read_index + n + (RxSize * q)
  <2>1. read_index + n \in Int
    BY <1>2, <1>4
  <2> QED BY <1>3, <2>1, WordInSlots, Zenon
<1>7. PICK d \in Int : O = x + (RxSize * d)
  BY <1>1, <1>4, Sizes, ModApart
<1> HIDE DEF O
<1>8. write_index' - read_index' = (O - n) + (RxSize * (-(d + q)))
  <2>1. /\ RxSize * d \in Int /\ RxSize * q \in Int
        /\ RxSize * (-(d + q)) = -((RxSize * d) + (RxSize * q))
    BY <1>6, <1>7, Sizes
  <2>2. \A e, f \in Int :
          O = write_index - read_index + e =>
            write_index - (read_index + n + f) = (O - n) + (-(e + f))
    BY <1>1, <1>2, <1>4, Sizes
  <2> QED BY <1>3, <1>6, <1>7, <2>1, <2>2
<1>9. (write_index' - read_index') % RxSize = O - n
  <2> DEFINE m == -(d + q)
  <2>1. m \in Int /\ O - n \in 0..RxSize - 1 /\ O - n \in Int
    BY <1>1, <1>2, <1>6, <1>7, Sizes DEF O
  <2> HIDE DEF m
  <2>2. ((O - n) + (RxSize * m)) % RxSize = (O - n) % RxSize
    BY <2>1, Sizes, ModPlus
  <2>3. (O - n) % RxSize = O - n
    BY <2>1, Sizes, ModSmall
  <2> QED BY <1>8, <2>2, <2>3 DEF m
<1>10. (IndicesOK => Rx!Occupied = (write_index - read_index) % RxSize)'
  BY OccupiedNow, PTL
<1> QED BY <1>3, <1>5, <1>9, <1>10 DEF O

(* What is left keeps its age.                                             *)
LEMMA AgesRead ==
  ASSUME IndicesOK, AgesInv, received \in Seq(Bytes), received' = received,
         NEW n \in 0..Rx!Occupied, Rx!Read(n)
  PROVE  AgesInv'
<1>1. /\ (Rx!Occupied)' = Rx!Occupied - n
      /\ buffer' = buffer /\ write_index' = write_index
  BY RingRead
<1>2. Rx!Occupied \in Nat /\ Len(received) \in Nat
  BY RingPlaces, Sizes
<1>3. \A a \in 1..Rx!Occupied - n : a \in 1..Rx!Occupied
  BY <1>2
<1>4. Rx!Occupied - n <= Len(received)
  BY <1>2 DEF AgesInv
<1> QED BY <1>1, <1>3, <1>4 DEF AgesInv

-----------------------------------------------------------------------------
(* All bytes that were sent and not lost, and how many of them have left   *)
(* the ring.                                                               *)
Stream == received \o arriving

Taken == Len(received) - Rx!Occupied

(* A byte names its frame, or is noise.                                    *)
LEMMA ByteIs ==
  /\ Noise \in Bytes /\ Noise[1] = 0 /\ Noise = <<0, 0>>
  /\ \A b \in Bytes : b[1] \in 0..MaxFrames /\ (b # Noise => b[1] > 0)
  /\ \A n \in 1..MaxFrames, i \in 1..FrameLength :
       <<n, i>> \in Bytes /\ <<n, i>> # Noise /\ <<n, i>>[1] = n /\ <<n, i>>[2] = i
BY DdsmAssumption DEF Bytes, Noise

(* The types, in the form that the other lemmas use.                       *)
LEMMA TypesAre ==
  ASSUME TypeOK
  PROVE  /\ IndicesOK /\ received \in Seq(Bytes) /\ arriving \in Seq(Bytes)
         /\ Len(received) \in Nat /\ Len(arriving) \in Nat
         /\ Rx!Occupied \in 0..RxSize - 1
         /\ Len(line) \in 0..MaxFrames /\ DOMAIN line = 1..Len(line)
<1>1. IndicesOK /\ received \in Seq(Bytes) /\ arriving \in Seq(Bytes)
  BY DEF TypeOK, IndicesOK, Rx!Words
<1>2. Rx!Occupied \in 0..RxSize - 1
  BY <1>1, RingPlaces
<1>3. line \in Seq(Frames) /\ Len(line) <= MaxFrames
  BY DEF TypeOK
<1>4. Len(line) \in 0..MaxFrames /\ DOMAIN line = 1..Len(line)
  <2> DEFINE F == Frames
  <2> HIDE DEF F
  <2>1. line \in Seq(F) => Len(line) \in Nat /\ DOMAIN line = 1..Len(line)
    BY LenProperties
  <2> QED BY <1>3, <2>1, DdsmAssumption DEF F
<1>5. Len(received) \in Nat /\ Len(arriving) \in Nat
  BY <1>1, LenProperties
<1> QED BY <1>1, <1>2, <1>4, <1>5

(* The stream, place by place.                                             *)
LEMMA StreamIs ==
  ASSUME received \in Seq(Bytes), arriving \in Seq(Bytes)
  PROVE  /\ Stream \in Seq(Bytes) /\ Len(Stream) = Len(received) + Len(arriving)
         /\ DOMAIN Stream = 1..Len(received) + Len(arriving)
         /\ \A i \in 1..Len(received) : Stream[i] = received[i]
         /\ \A i \in 1..Len(arriving) : Stream[Len(received) + i] = arriving[i]
         /\ \A i \in 1..Len(received) + Len(arriving) :
              Stream[i] \in Bytes
              /\ Stream[i] = IF i <= Len(received) THEN received[i]
                             ELSE arriving[i - Len(received)]
<1> DEFINE s == received \o arriving
           R == Len(received)
           A == Len(arriving)
<1>1. R \in Nat /\ A \in Nat
  BY LenProperties
<1>2. /\ s \in Seq(Bytes) /\ Len(s) = R + A
      /\ \A i \in 1..R + A : s[i] = IF i <= R THEN received[i] ELSE arriving[i - R]
  BY ConcatProperties
<1>3. DOMAIN s = 1..Len(s) /\ \A i \in 1..Len(s) : s[i] \in Bytes
  BY <1>2, LenProperties, ElementOfSeq
<1> HIDE DEF s
<1>4. \A i \in 1..R : s[i] = received[i]
  BY <1>1, <1>2
<1>5. ASSUME NEW i \in 1..A PROVE s[R + i] = arriving[i]
  <2>1. R + i \in 1..R + A /\ ~(R + i <= R) /\ (R + i) - R = i
    BY <1>1
  <2> QED BY <1>2, <2>1
<1> QED BY <1>2, <1>3, <1>4, <1>5 DEF s, Stream

(* What StoreFeedback hands to the ring, and what the ring drops for it.   *)
LEMMA StoreTakes ==
  ASSUME TypeOK, AgesInv, NEW len \in 1..Len(arriving), StoreFeedback(len)
  PROVE  /\ \E data \in Seq(Bytes) :
              /\ Len(data) = len /\ Rx!Write(data) /\ received' = received \o data
              /\ \A i \in 1..len : data[i] = arriving[i]
         /\ arriving' \in Seq(Bytes) /\ Len(arriving') = Len(arriving) - len
         /\ \A i \in 1..Len(arriving) - len : arriving'[i] = arriving[len + i]
         /\ damaged' = damaged \cup
              {Stream[Taken + i][1] : i \in 1..Rx!Occupied + len - (RxSize - 1)}
<1> DEFINE data == SubSeq(arriving, 1, len)
           rest == SubSeq(arriving, len + 1, Len(arriving))
           O == Rx!Occupied
           R == Len(received)
           C == Rx!Contents
           k == O + len - (RxSize - 1)
<1>1. /\ IndicesOK /\ received \in Seq(Bytes) /\ arriving \in Seq(Bytes)
      /\ R \in Nat /\ Len(arriving) \in Nat /\ O \in 0..RxSize - 1 /\ O <= R
  BY TypesAre DEF AgesInv
<1>2. /\ data \in Seq(Bytes) /\ Len(data) = len
      /\ \A i \in 1..len : data[i] = arriving[i]
  <2>1. 1 \in 1..Len(arriving) + 1 /\ len \in 1 - 1..Len(arriving) /\ len - 1 + 1 = len
    BY <1>1
  <2>2. /\ data \in Seq(Bytes) /\ Len(data) = len - 1 + 1
        /\ \A j \in 1..len - 1 + 1 : data[j] = arriving[1 + j - 1]
    BY <1>1, <2>1, PartOf, Zenon
  <2>3. \A j \in 1..len : 1 + j - 1 = j
    BY <1>1
  <2> HIDE DEF data
  <2> QED BY <2>1, <2>2, <2>3
<1>3. /\ rest \in Seq(Bytes) /\ Len(rest) = Len(arriving) - len
      /\ \A i \in 1..Len(arriving) - len : rest[i] = arriving[len + i]
  <2>1. len + 1 \in 1..Len(arriving) + 1 /\ Len(arriving) \in (len + 1) - 1..Len(arriving)
    BY <1>1
  <2>2. /\ rest \in Seq(Bytes) /\ Len(rest) = Len(arriving) - (len + 1) + 1
        /\ \A j \in 1..Len(arriving) - (len + 1) + 1 : rest[j] = arriving[(len + 1) + j - 1]
    BY <1>1, <2>1, PartOf, Zenon
  <2>3. /\ Len(arriving) - (len + 1) + 1 = Len(arriving) - len
        /\ \A j \in 1..Len(arriving) - len : (len + 1) + j - 1 = len + j
    BY <1>1
  <2> HIDE DEF rest
  <2> QED BY <2>2, <2>3
<1>4. /\ C \in Seq(Bytes) /\ Len(C) = O
      /\ \A i \in 1..O : C[i] = Stream[Taken + i]
  <2>1. C = SubSeq(received, R - O + 1, R)
    BY <1>1, AgesMeanStream DEF RxIsStream
  <2>2. R - O + 1 \in 1..R + 1 /\ R \in (R - O + 1) - 1..R /\ R - (R - O + 1) + 1 = O
    BY <1>1, Sizes
  <2>3. /\ SubSeq(received, R - O + 1, R) \in Seq(Bytes)
        /\ Len(SubSeq(received, R - O + 1, R)) = R - (R - O + 1) + 1
        /\ \A j \in 1..R - (R - O + 1) + 1 :
             SubSeq(received, R - O + 1, R)[j] = received[(R - O + 1) + j - 1]
    BY <1>1, <2>2, PartOf, Zenon
  <2> HIDE DEF C, O
  <2>4. C \in Seq(Bytes) /\ Len(C) = O /\ \A j \in 1..O : C[j] = received[(R - O + 1) + j - 1]
    BY <2>1, <2>2, <2>3
  <2>5. ASSUME NEW i \in 1..O PROVE C[i] = Stream[Taken + i]
    <3>1. /\ Taken + i = (R - O + 1) + i - 1 /\ Taken + i \in 1..R
      BY <1>1, Sizes DEF Taken, O
    <3>2. Stream[Taken + i] = received[Taken + i]
      BY <1>1, <3>1, StreamIs
    <3> QED BY <2>4, <3>1, <3>2
  <2> QED BY <2>4, <2>5
<1> DEFINE all == C \o data
           out == SubSeq(all, 1, Len(all) - (RxSize - 1))
<1>5. damaged' = damaged \cup {out[i][1] : i \in DOMAIN out}
  BY DEF StoreFeedback, Overwritten
<1>6. received' = received \o data /\ arriving' = rest /\ Rx!Write(data)
  BY DEF StoreFeedback
<1> HIDE DEF data, rest, C
<1>7. /\ all \in Seq(Bytes) /\ Len(all) = O + len
      /\ \A i \in 1..O + len : all[i] = IF i <= O THEN C[i] ELSE data[i - O]
  BY <1>2, <1>4, ConcatProperties
<1> HIDE DEF all
<1>8. ASSUME NEW i \in 1..O + len PROVE all[i] = Stream[Taken + i]
  <2>1. CASE i <= O
    BY <1>1, <1>4, <1>7, <2>1, Sizes
  <2>2. CASE ~(i <= O)
    <3>1. i - O \in 1..len /\ i - O \in 1..Len(arriving) /\ Taken + i = R + (i - O)
      BY <1>1, <2>2, Sizes DEF Taken
    <3>2. Stream[R + (i - O)] = arriving[i - O]
      BY <1>1, <3>1, StreamIs
    <3> QED BY <1>2, <1>7, <2>2, <3>1, <3>2
  <2> QED BY <2>1, <2>2
<1>9. k \in Int /\ k <= O + len /\ Len(all) - (RxSize - 1) = k
  BY <1>1, <1>7, Sizes
<1> HIDE DEF k
<1>10. {out[i][1] : i \in DOMAIN out} = {Stream[Taken + i][1] : i \in 1..k}
  <2>1. CASE k < 1
    <3>1. out = <<>>
      BY <1>9, <2>1, SubSeqEmpty
    <3> HIDE DEF out
    <3>2. 1..k = {} /\ DOMAIN out = {}
      BY <1>9, <2>1, <3>1
    <3> QED BY <3>2, Zenon
  <2>2. CASE ~(k < 1)
    <3>1. 1 \in 1..Len(all) + 1 /\ k \in 1 - 1..Len(all) /\ k - 1 + 1 = k
      BY <1>1, <1>7, <1>9, <2>2, Sizes
    <3>2. /\ SubSeq(all, 1, k) \in Seq(Bytes) /\ Len(SubSeq(all, 1, k)) = k - 1 + 1
          /\ \A j \in 1..k - 1 + 1 : SubSeq(all, 1, k)[j] = all[1 + j - 1]
      BY <1>7, <3>1, PartOf, Zenon
    <3>3. out = SubSeq(all, 1, k)
      BY <1>9
    <3> HIDE DEF out
    <3>4. DOMAIN out = 1..k
      BY <3>1, <3>2, <3>3, LenProperties
    <3>5. ASSUME NEW j \in 1..k PROVE out[j] = Stream[Taken + j]
      <4>1. 1 + j - 1 = j /\ j \in 1..O + len
        BY <1>1, <1>9, Sizes
      <4> QED BY <1>8, <3>1, <3>2, <3>3, <4>1
    <3>6. \A j \in 1..k : out[j][1] = Stream[Taken + j][1]
      BY <3>5
    <3>7. {out[j][1] : j \in 1..k} = {Stream[Taken + j][1] : j \in 1..k}
      BY <3>6, Zenon
    <3> QED BY <3>4, <3>7, Zenon
  <2> QED BY <2>1, <2>2
<1>11. damaged' = damaged \cup {Stream[Taken + i][1] : i \in 1..k}
  BY <1>5, <1>10
<1> QED BY <1>2, <1>3, <1>6, <1>11 DEF k

-----------------------------------------------------------------------------
(* What the ring shows depends on the ring alone.                          *)
LEMMA RingQuiet ==
  ASSUME UNCHANGED rxVars
  PROVE  (Rx!Occupied)' = Rx!Occupied
BY DEF rxVars, Rx!Occupied, Rx!Masked, Rx!Distance

(* A write stores bytes.                                                   *)
LEMMA StoredBytes ==
  ASSUME IndicesOK, buffer \in [Rx!Slots -> Bytes], NEW data \in Seq(Bytes),
         Rx!Write(data)
  PROVE  buffer' \in [Rx!Slots -> Bytes]
<1> DEFINE L == Len(data)
           age(s) == (write_index + L - 1 - s) % RxSize
<1>1. buffer' = [s \in Rx!Slots |-> IF age(s) < L THEN data[L - age(s)] ELSE buffer[s]]
  BY DEF Rx!Write, Rx!Stored, Rx!Masked
<1>2. L \in Nat /\ \A i \in 1..L : data[i] \in Bytes
  BY LenProperties, ElementOfSeq
<1>3. ASSUME NEW s \in Rx!Slots
      PROVE  (IF age(s) < L THEN data[L - age(s)] ELSE buffer[s]) \in Bytes
  <2>1. write_index + L - 1 - s \in Int
    BY <1>2, Sizes DEF IndicesOK, Rx!Slots
  <2>2. age(s) \in 0..RxSize - 1
    BY <2>1, Sizes, DivMod
  <2> HIDE DEF age
  <2>3. CASE age(s) < L
    <3>1. L - age(s) \in 1..L
      BY <1>2, <2>2, <2>3, Sizes
    <3> QED BY <1>2, <2>3, <3>1
  <2>4. CASE ~(age(s) < L)
    BY <2>4
  <2> QED BY <2>3, <2>4
<1> HIDE DEF age
<1> QED BY <1>1, <1>3

(* A frame that is sent comes last, on the line and under way.             *)
LEMMA SendAppends ==
  ASSUME TypeOK, NEW frame \in Frames, Send(frame)
  PROVE  /\ line' \in Seq(Frames) /\ Len(line') = Len(line) + 1
         /\ \A n \in 1..Len(line) : line'[n] = line[n]
         /\ arriving' \in Seq(Bytes) /\ Len(arriving') = Len(arriving) + FrameLength
         /\ \A i \in 1..Len(arriving) : arriving'[i] = arriving[i]
         /\ \A i \in 1..FrameLength : arriving'[Len(arriving) + i] = <<Len(line) + 1, i>>
<1> DEFINE new == [i \in 1..FrameLength |-> <<Len(line) + 1, i>>]
           A == Len(arriving)
           F == Frames
<1>1. /\ line' = Append(line, frame) /\ arriving' = arriving \o new
      /\ Len(line) < MaxFrames
  BY DEF Send
<1>2. line \in Seq(F) /\ arriving \in Seq(Bytes) /\ A \in Nat /\ Len(line) \in Nat
      /\ frame \in F
  BY TypesAre DEF TypeOK
<1>3. FrameLength \in Nat
  BY Sizes
<1>4. new \in Seq(Bytes) /\ Len(new) = FrameLength
  <2>1. Len(line) + 1 \in 1..MaxFrames
    BY <1>1, <1>2, DdsmAssumption
  <2>2. \A i \in 1..FrameLength : <<Len(line) + 1, i>> \in Bytes
    BY <2>1, ByteIs
  <2>3. new \in Seq(Bytes)
    BY <1>3, <2>2, IsASeq
  <2>4. Len(new) = FrameLength
    BY <1>3
  <2> QED BY <2>3, <2>4
<1>5. \A i \in 1..FrameLength : new[i] = <<Len(line) + 1, i>>
  OBVIOUS
<1> HIDE DEF new, F
<1>6. /\ line' \in Seq(F) /\ Len(line') = Len(line) + 1
      /\ \A n \in 1..Len(line) : line'[n] = line[n]
  BY <1>1, <1>2, AppendProperties
<1>7. /\ arriving' \in Seq(Bytes) /\ Len(arriving') = A + FrameLength
      /\ \A i \in 1..A + FrameLength :
           arriving'[i] = IF i <= A THEN arriving[i] ELSE new[i - A]
  BY <1>1, <1>2, <1>4, ConcatProperties
<1>8. \A i \in 1..A : arriving'[i] = arriving[i]
  BY <1>2, <1>3, <1>7
<1>9. ASSUME NEW i \in 1..FrameLength PROVE arriving'[A + i] = <<Len(line) + 1, i>>
  <2>1. A + i \in 1..A + FrameLength /\ ~(A + i <= A) /\ (A + i) - A = i
    BY <1>2, <1>3
  <2> QED BY <1>5, <1>7, <2>1
<1> QED BY <1>6, <1>7, <1>8, <1>9 DEF F

(* A fault on the line garbles the byte at one place or takes it away.     *)
LEMMA DisturbsOne ==
  ASSUME TypeOK, NEW k \in 1..Len(arriving), Disturb(k)
  PROVE  /\ arriving' \in Seq(Bytes)
         /\ damaged' = damaged \cup {arriving[k][1]}
         /\ \A j \in 1..k - 1 : arriving'[j] = arriving[j]
         /\ \/ /\ Len(arriving') = Len(arriving) /\ arriving'[k] = Noise
               /\ \A j \in k + 1..Len(arriving) : arriving'[j] = arriving[j]
            \/ /\ Len(arriving') = Len(arriving) - 1
               /\ \A j \in k..Len(arriving) - 1 : arriving'[j] = arriving[j + 1]
<1> DEFINE A == Len(arriving)
<1>1. arriving \in Seq(Bytes) /\ A \in Nat
  BY TypesAre
<1>2. damaged' = damaged \cup {arriving[k][1]}
  BY DEF Disturb
<1>3. CASE arriving' = [arriving EXCEPT ![k] = Noise]
  <2>1. Noise \in Bytes
    BY ByteIs
  <2>2. /\ arriving' \in Seq(Bytes) /\ Len(arriving') = A /\ arriving'[k] = Noise
        /\ \A j \in 1..A : j # k => arriving'[j] = arriving[j]
    BY <1>1, <1>3, <2>1, ExceptSeq
  <2> QED BY <1>1, <1>2, <2>2
<1>4. CASE arriving' = SubSeq(arriving, 1, k - 1) \o SubSeq(arriving, k + 1, Len(arriving))
  <2> DEFINE r == SubSeq(arriving, 1, k - 1) \o SubSeq(arriving, k + 1, Len(arriving))
  <2>1. /\ r \in Seq(Bytes) /\ Len(r) = Len(arriving) - 1
        /\ \A j \in 1..k - 1 : r[j] = arriving[j]
        /\ \A j \in k..Len(arriving) - 1 : r[j] = arriving[j + 1]
    BY <1>1, WithoutOne, Zenon
  <2>2. arriving' = r
    BY <1>4
  <2> HIDE DEF r
  <2> QED BY <1>2, <2>1, <2>2
<1> QED BY <1>3, <1>4 DEF Disturb

-----------------------------------------------------------------------------
(* A frame that passes is in the ring, for a type that is kept.            *)
LEMMA ValidFrame ==
  ASSUME NEW n \in DOMAIN line, IsValid(n)
  PROVE  /\ line[n].type \in Types /\ line[n].id = MotorId
         /\ Window = [i \in 1..FrameLength |-> <<n, i>>]
BY Zenon DEF IsValid

(* Types and ages are kept by every step.                                  *)
LEMMA TypeStep ==
  ASSUME TypeOK, AgesInv, [Next]_vars
  PROVE  TypeOK' /\ AgesInv'
<1>1. /\ IndicesOK /\ received \in Seq(Bytes) /\ arriving \in Seq(Bytes)
      /\ Len(received) \in Nat /\ Len(arriving) \in Nat
      /\ Rx!Occupied \in 0..RxSize - 1
      /\ Len(line) \in 0..MaxFrames /\ DOMAIN line = 1..Len(line)
  BY TypesAre
<1>2. MaxFrames \in Nat /\ MaxFaults \in Nat /\ Rx!Words = 0..WordSize - 1
  BY DdsmAssumption DEF Rx!Words
<1>3. \A b \in Bytes : b[1] \in 0..MaxFrames
  BY ByteIs
<1>4. DOMAIN arriving = 1..Len(arriving) /\ \A i \in 1..Len(arriving) : arriving[i] \in Bytes
  BY <1>1, LenProperties, ElementOfSeq
<1>5. ASSUME UNCHANGED rxVars, UNCHANGED received PROVE AgesInv'
  <2>1. UNCHANGED <<buffer, write_index>> /\ (Rx!Occupied)' = Rx!Occupied
    BY <1>5, RingQuiet DEF rxVars
  <2> QED BY <1>5, <2>1 DEF AgesInv
<1>6. CASE UNCHANGED vars
  <2>1. UNCHANGED rxVars /\ UNCHANGED received
    BY <1>6 DEF vars
  <2>2. (Rx!Occupied)' = Rx!Occupied
    BY <2>1, RingQuiet
  <2>3. TypeOK'
    BY <1>6, <2>2 DEF vars, lineVars, rxVars, TypeOK
  <2> QED BY <1>5, <2>1, <2>3
<1>7. ASSUME NEW frame \in Frames, Send(frame) PROVE TypeOK' /\ AgesInv'
  <2>1. UNCHANGED rxVars /\ UNCHANGED <<faults, decoding, raw_feedback, received, damaged>>
    BY <1>7 DEF Send
  <2>2. (Rx!Occupied)' = Rx!Occupied
    BY <2>1, RingQuiet
  <2>3. line' \in Seq(Frames) /\ Len(line') <= MaxFrames /\ arriving' \in Seq(Bytes)
    <3>1. line' \in Seq(Frames) /\ Len(line') = Len(line) + 1 /\ arriving' \in Seq(Bytes)
      BY <1>7, SendAppends
    <3>2. Len(line) < MaxFrames
      BY <1>7 DEF Send
    <3>3. Len(line') <= MaxFrames
      BY <1>1, <1>2, <3>1, <3>2
    <3> QED BY <3>1, <3>3
  <2>4. TypeOK'
    BY <2>1, <2>2, <2>3 DEF TypeOK, rxVars
  <2> QED BY <1>5, <2>1, <2>4
<1>8. ASSUME NEW k \in DOMAIN arriving, Disturb(k) PROVE TypeOK' /\ AgesInv'
  <2>1. /\ UNCHANGED rxVars /\ UNCHANGED <<line, decoding, raw_feedback, received>>
        /\ faults' = faults + 1 /\ faults < MaxFaults
    BY <1>8 DEF Disturb
  <2>2. (Rx!Occupied)' = Rx!Occupied
    BY <2>1, RingQuiet
  <2>3. k \in 1..Len(arriving)
    BY <1>4, <1>8
  <2>4. arriving' \in Seq(Bytes) /\ damaged' = damaged \cup {arriving[k][1]}
    BY <1>8, <2>3, DisturbsOne
  <2>5. damaged' \subseteq 0..MaxFrames
    BY <1>3, <1>4, <2>3, <2>4 DEF TypeOK
  <2>6. faults' \in 0..MaxFaults
    BY <1>2, <2>1 DEF TypeOK
  <2>7. TypeOK'
    BY <2>1, <2>2, <2>4, <2>5, <2>6 DEF TypeOK, rxVars
  <2> QED BY <1>5, <2>1, <2>7
<1>9. ASSUME NEW len \in 1..Len(arriving), StoreFeedback(len) PROVE TypeOK' /\ AgesInv'
  <2>1. UNCHANGED <<line, faults, raw_feedback>> /\ decoding' = TRUE
    BY <1>9 DEF StoreFeedback
  <2>2. PICK data \in Seq(Bytes) :
          Len(data) = len /\ Rx!Write(data) /\ received' = received \o data
    BY <1>9, StoreTakes
  <2>3. /\ arriving' \in Seq(Bytes)
        /\ damaged' = damaged \cup
             {Stream[Taken + i][1] : i \in 1..Rx!Occupied + len - (RxSize - 1)}
    BY <1>9, StoreTakes
  <2>4. AgesInv' /\ IndicesOK'
    BY <1>1, <2>2, AgesWritten, RingWritten
  <2>5. received' \in Seq(Bytes)
    BY <1>1, <2>2, ConcatProperties
  <2>6. buffer' \in [Rx!Slots -> Bytes]
    BY <1>1, <2>2, StoredBytes DEF TypeOK
  <2>7. ASSUME NEW i \in 1..Rx!Occupied + len - (RxSize - 1)
        PROVE  Stream[Taken + i][1] \in 0..MaxFrames
    <3>1. Rx!Occupied <= Len(received)
      BY DEF AgesInv
    <3>2. Taken + i \in 1..Len(received) + Len(arriving)
      BY <1>1, <3>1, Sizes DEF Taken
    <3>3. Stream[Taken + i] \in Bytes
      BY <1>1, <3>2, StreamIs
    <3> QED BY <1>3, <3>3
  <2>8. damaged' \subseteq 0..MaxFrames
    BY <2>3, <2>7 DEF TypeOK
  <2>9. TypeOK'
    BY <1>2, <2>1, <2>3, <2>4, <2>5, <2>6, <2>8 DEF TypeOK, IndicesOK
  <2> QED BY <2>4, <2>9
<1>10. ASSUME NEW n \in 0..Rx!Occupied, Rx!Read(n), decoding,
              raw_feedback' \in [Types -> 0..MaxFrames],
              UNCHANGED <<lineVars, decoding, received, damaged>>
       PROVE  TypeOK' /\ AgesInv'
  <2>1. AgesInv' /\ IndicesOK' /\ buffer' = buffer
    BY <1>1, <1>10, AgesRead, RingRead
  <2>2. TypeOK'
    BY <1>2, <1>10, <2>1 DEF TypeOK, lineVars, IndicesOK
  <2> QED BY <2>1, <2>2
<1>11. CASE Decode
  <2>1. /\ decoding /\ UNCHANGED <<lineVars, decoding, received, damaged>>
        /\ FrameLength \in 0..Rx!Occupied /\ 1 \in 0..Rx!Occupied
    BY <1>1, <1>11, Sizes DEF Decode
  <2>2. ASSUME NEW n \in DOMAIN line, IsValid(n), Rx!Read(FrameLength),
               raw_feedback' = [raw_feedback EXCEPT ![line[n].type] = n]
        PROVE  TypeOK' /\ AgesInv'
    <3>1. n \in 0..MaxFrames
      BY <1>1, <1>2
    <3>2. raw_feedback' \in [Types -> 0..MaxFrames]
      BY <2>2, <3>1 DEF TypeOK
    <3> QED BY <1>10, <2>1, <2>2, <3>2
  <2>3. ASSUME Rx!Read(1), UNCHANGED raw_feedback PROVE TypeOK' /\ AgesInv'
    BY <1>10, <2>1, <2>3 DEF TypeOK
  <2> QED BY <1>11, <2>2, <2>3 DEF Decode
<1>12. CASE Return
  <2>1. /\ UNCHANGED rxVars /\ UNCHANGED <<lineVars, raw_feedback, received, damaged>>
        /\ decoding' = FALSE /\ Rx!Occupied < FrameLength
    BY <1>12 DEF Return
  <2>2. (Rx!Occupied)' = Rx!Occupied
    BY <2>1, RingQuiet
  <2>3. TypeOK'
    BY <2>1, <2>2 DEF TypeOK, lineVars, rxVars
  <2> QED BY <1>5, <2>1, <2>3
<1> QED BY <1>6, <1>7, <1>8, <1>9, <1>11, <1>12 DEF Next, ProcessFeedback

(* Initially the ring is empty: its indices lie a multiple of the slots    *)
(* apart.                                                                  *)
LEMMA TypeInit ==
  ASSUME Init
  PROVE  TypeOK /\ AgesInv /\ Rx!Occupied = 0
<1>1. IndicesOK /\ Rx!Occupied = 0
  <2>1. write_index \in 0..WordSize - 1 /\ write_index \in Int
    BY Sizes, DdsmAssumption DEF Init
  <2>2. Rx!Masked(write_index) = write_index % RxSize
    BY DEF Rx!Masked
  <2>3. write_index % RxSize \in 0..RxSize - 1
    BY <2>1, Sizes, DivMod
  <2>4. read_index \in 0..WordSize - 1
    BY <2>1, <2>2, <2>3, Sizes DEF Init
  <2>5. IndicesOK
    BY <2>1, <2>4 DEF IndicesOK
  <2>6. PICK q \in Int : write_index - read_index = 0 + (RxSize * q)
    <3>1. CASE read_index = write_index
      <4>1. 0 \in Int /\ write_index - read_index = 0 + (RxSize * 0)
        BY <2>1, <3>1, Sizes
      <4> QED BY <4>1
    <3>2. CASE read_index = write_index % RxSize
      <4> DEFINE d == write_index \div RxSize
      <4>1. d \in Int /\ write_index = (RxSize * d) + (write_index % RxSize)
        BY <2>1, Sizes, DivMod
      <4> HIDE DEF d
      <4>2. RxSize * d \in Int
        BY <4>1, Sizes
      <4>3. write_index = (RxSize * d) + read_index
        BY <3>2, <4>1
      <4>4. write_index - read_index = 0 + (RxSize * d)
        BY <2>1, <2>4, <4>2, <4>3, Sizes
      <4> QED BY <4>1, <4>4
    <3> QED BY <2>2, <3>1, <3>2 DEF Init
  <2>7. (write_index - read_index) % RxSize = 0 % RxSize
    <3>1. 0 \in Int
      OBVIOUS
    <3>2. (0 + (RxSize * q)) % RxSize = 0 % RxSize
      BY <2>6, <3>1, Sizes, ModPlus
    <3> QED BY <2>6, <3>2
  <2>8. 0 % RxSize = 0
    BY Sizes, ModSmall
  <2> QED BY <2>5, <2>7, <2>8, OccupiedNow
<1>2. <<>> \in Seq(Bytes) /\ <<>> \in Seq(Frames) /\ Len(<<>>) = 0
  OBVIOUS
<1>3. buffer \in [Rx!Slots -> Bytes]
  BY ByteIs DEF Init
<1>4. raw_feedback \in [Types -> 0..MaxFrames] /\ 0 \in 0..MaxFaults
  BY DdsmAssumption DEF Init
<1>5. TypeOK
  <2>1. /\ line = <<>> /\ arriving = <<>> /\ faults = 0 /\ received = <<>>
        /\ decoding = FALSE /\ damaged = {}
    BY DEF Init
  <2>2. write_index \in Rx!Words /\ read_index \in Rx!Words
    BY <1>1 DEF IndicesOK, Rx!Words
  <2>3. Rx!Occupied < FrameLength /\ 0 <= MaxFrames
    BY <1>1, DdsmAssumption
  <2>4. line \in Seq(Frames) /\ Len(line) <= MaxFrames
    BY <1>2, <2>1, <2>3
  <2>5. arriving \in Seq(Bytes) /\ received \in Seq(Bytes)
    BY <1>2, <2>1
  <2> QED BY <1>3, <1>4, <2>1, <2>2, <2>3, <2>4, <2>5 DEF TypeOK
<1>6. AgesInv
  BY <1>1, <1>2 DEF Init, AgesInv
<1> QED BY <1>1, <1>5, <1>6

(* Types and ages, always.                                                 *)
LEMMA TypeInvariant == Spec => [](TypeOK /\ AgesInv)
<1>1. Init => TypeOK /\ AgesInv
  BY TypeInit
<1>2. TypeOK /\ AgesInv /\ [Next]_vars => (TypeOK /\ AgesInv)'
  BY TypeStep
<1> QED BY <1>1, <1>2, PTL DEF Spec

(* Variables have their types, and ProcessFeedback leaves less than a      *)
(* frame in the ring.                                                      *)
THEOREM TypeCorrect == Spec => []TypeOK
BY TypeInvariant, PTL

(* The ring holds the newest bytes of the stream, in order and without a   *)
(* gap, also after bursts that did not fit and after the indices wrapped.  *)
THEOREM StreamKept == Spec => []RxIsStream
<1>1. TypeOK /\ AgesInv => RxIsStream
  BY TypesAre, AgesMeanStream
<1> QED BY <1>1, TypeInvariant, PTL

-----------------------------------------------------------------------------
(* The frame n is whole in the stream s, after its first p bytes.          *)
FrameAt(s, n, p) == \A i \in 1..FrameLength : s[p + i] = <<n, i>>

(* The frame n is still to be looked at, or the feedback, of which f is    *)
(* the frame it is from, is as new; t bytes of s have been looked at.      *)
Passed(s, t, f, n) ==
  \E p \in 0..Len(s) - FrameLength :
    /\ FrameAt(s, n, p)
    /\ (p >= t) \/ (p + FrameLength <= t /\ f >= n)

(* A frame of this motor whose checksum is below 128.                      *)
Mine(n) ==
  line[n].id = MotorId /\ line[n].type \in Types /\ line[n].checksum < 128

(* The bytes are of frames that were sent, frame after frame; what is not  *)
(* looked at is no older than the feedback; no whole frame is passed over. *)
SentBytes == \A i \in 1..Len(Stream) : Stream[i][1] <= Len(line)

FramesInOrder ==
  \A i, j \in 1..Len(Stream) :
    i < j /\ Stream[j] # Noise => Stream[i][1] <= Stream[j][1]

SentFeedback == \A t \in Types : raw_feedback[t] <= Len(line)

FeedbackIsOlder ==
  \A t \in Types, j \in 1..Len(Stream) :
    j > Taken /\ Stream[j] # Noise => raw_feedback[t] <= Stream[j][1]

FramesPassed ==
  \A n \in 1..Len(line) :
    Mine(n) /\ n \notin damaged
      => Passed(Stream, Taken, raw_feedback[line[n].type], n)

StreamInv ==
  /\ SentBytes /\ FramesInOrder /\ SentFeedback /\ FeedbackIsOlder
  /\ FramesPassed

-----------------------------------------------------------------------------
(* The stream, in a form that the next state has too.                      *)
LEMMA StreamNow ==
  received \in Seq(Bytes) /\ arriving \in Seq(Bytes) =>
    /\ Stream \in Seq(Bytes) /\ Len(Stream) = Len(received) + Len(arriving)
    /\ \A i \in 1..Len(received) + Len(arriving) :
         Stream[i] \in Bytes
         /\ Stream[i] = IF i <= Len(received) THEN received[i]
                        ELSE arriving[i - Len(received)]
BY StreamIs

(* What the proofs of the steps use of the stream.                         *)
LEMMA StreamFacts ==
  ASSUME TypeOK, AgesInv
  PROVE  /\ Len(Stream) \in Nat /\ Len(Stream) = Len(received) + Len(arriving)
         /\ Taken \in 0..Len(received) /\ Taken + Rx!Occupied = Len(received)
         /\ Len(received) \in Nat /\ Len(arriving) \in Nat
         /\ \A i \in 1..Len(Stream) : Stream[i] \in Bytes /\ Stream[i][1] \in 0..MaxFrames
         /\ \A i \in 1..Len(Stream) :
              Stream[i] = IF i <= Len(received) THEN received[i]
                          ELSE arriving[i - Len(received)]
         /\ \A t \in Types : raw_feedback[t] \in 0..MaxFrames
         /\ Len(line) \in 0..MaxFrames /\ DOMAIN line = 1..Len(line)
<1>1. /\ received \in Seq(Bytes) /\ arriving \in Seq(Bytes)
      /\ Len(received) \in Nat /\ Len(arriving) \in Nat
      /\ Rx!Occupied \in 0..RxSize - 1
      /\ Len(line) \in 0..MaxFrames /\ DOMAIN line = 1..Len(line)
  BY TypesAre
<1>2. Taken \in 0..Len(received) /\ Taken + Rx!Occupied = Len(received)
  BY <1>1, Sizes DEF AgesInv, Taken
<1>3. /\ Len(Stream) = Len(received) + Len(arriving)
      /\ \A i \in 1..Len(received) + Len(arriving) :
           Stream[i] \in Bytes
           /\ Stream[i] = IF i <= Len(received) THEN received[i]
                          ELSE arriving[i - Len(received)]
  BY <1>1, StreamIs
<1>4. \A b \in Bytes : b[1] \in 0..MaxFrames
  BY ByteIs
<1>5. \A t \in Types : raw_feedback[t] \in 0..MaxFrames
  BY DEF TypeOK
<1> QED BY <1>1, <1>2, <1>3, <1>4, <1>5

(* The window shows the bytes that are looked at next.                     *)
LEMMA WindowIs ==
  ASSUME TypeOK, AgesInv, Rx!Occupied >= FrameLength
  PROVE  \A i \in 1..FrameLength : Window[i] = Stream[Taken + i]
<1> TAKE i \in 1..FrameLength
<1>1. /\ IndicesOK /\ received \in Seq(Bytes)
      /\ Rx!Occupied \in 0..RxSize - 1 /\ Len(received) \in Nat
  BY TypesAre
<1>2. i - 1 \in 0..Rx!Occupied - 1 /\ Len(received) - Rx!Occupied + 1 + (i - 1) = Taken + i
  BY <1>1, Sizes DEF Taken
<1>3. Rx!ElementAt(i - 1) = received[Taken + i]
  BY <1>1, <1>2, RingElements
<1>4. Taken + i \in 1..Len(Stream) /\ Taken + i <= Len(received)
  BY <1>1, StreamFacts, Sizes
<1>5. Stream[Taken + i] = received[Taken + i]
  BY <1>4, StreamFacts
<1> QED BY <1>3, <1>5 DEF Window

(* A step that leaves the stream, what was looked at and the feedback.     *)
LEMMA StreamQuiet ==
  ASSUME StreamInv, UNCHANGED <<line, raw_feedback, damaged>>,
         Stream' = Stream, Taken' = Taken
  PROVE  StreamInv'
BY DEF StreamInv, SentBytes, FramesInOrder, SentFeedback, FeedbackIsOlder,
       FramesPassed, Mine

(* StoreFeedback moves bytes on along the stream; it overwrites only bytes *)
(* of frames that it damages thereby.                                      *)
LEMMA StreamStored ==
  ASSUME TypeOK, AgesInv, StreamInv, NEW len \in 1..Len(arriving), StoreFeedback(len)
  PROVE  StreamInv'
<1> DEFINE k == Rx!Occupied + len - (RxSize - 1)
           L == Len(Stream)
<1>1. /\ IndicesOK /\ received \in Seq(Bytes) /\ arriving \in Seq(Bytes)
      /\ Rx!Occupied \in 0..RxSize - 1
  BY TypesAre
<1>2. PICK data \in Seq(Bytes) :
        /\ Len(data) = len /\ Rx!Write(data) /\ received' = received \o data
        /\ \A i \in 1..len : data[i] = arriving[i]
  BY StoreTakes
<1>3. /\ arriving' \in Seq(Bytes) /\ Len(arriving') = Len(arriving) - len
      /\ \A i \in 1..Len(arriving) - len : arriving'[i] = arriving[len + i]
      /\ damaged' = damaged \cup {Stream[Taken + i][1] : i \in 1..k}
  BY StoreTakes
<1>4. /\ L \in Nat /\ L = Len(received) + Len(arriving)
      /\ Taken \in 0..Len(received) /\ Taken + Rx!Occupied = Len(received)
      /\ Len(received) \in Nat /\ Len(arriving) \in Nat
      /\ \A i \in 1..L : Stream[i] = IF i <= Len(received) THEN received[i]
                                     ELSE arriving[i - Len(received)]
  BY StreamFacts
<1>5. /\ received' \in Seq(Bytes) /\ Len(received') = Len(received) + len
      /\ \A i \in 1..Len(received) + len :
           received'[i] = IF i <= Len(received) THEN received[i] ELSE data[i - Len(received)]
  <2> DEFINE all == received \o data
  <2>1. /\ all \in Seq(Bytes) /\ Len(all) = Len(received) + Len(data)
        /\ \A i \in 1..Len(received) + Len(data) :
             all[i] = IF i <= Len(received) THEN received[i] ELSE data[i - Len(received)]
    BY <1>1, ConcatProperties
  <2>2. received' = all /\ Len(data) = len
    BY <1>2
  <2> HIDE DEF all
  <2> QED BY <2>1, <2>2
<1>6. Taken' >= Taken /\ (k < 1 => Taken' = Taken) /\ (k >= 1 => Taken' = Taken + k)
      /\ Taken' \in Int
  <2>1. (Rx!Occupied)' = Rx!Lesser(Rx!Occupied + Len(data), RxSize - 1)
    BY <1>1, <1>2, RingWritten
  <2> DEFINE O == Rx!Occupied
             l == Rx!Lesser(O + len, RxSize - 1)
  <2>2. l = IF O + len < RxSize - 1 THEN O + len ELSE RxSize - 1
    BY DEF Rx!Lesser
  <2>3. (Rx!Occupied)' = l /\ Len(received') = Len(received) + len
    BY <1>2, <1>5, <2>1, Zenon
  <2> HIDE DEF l
  <2>4. O \in Int /\ RxSize \in Int /\ len \in Int /\ Taken \in Int /\ O <= RxSize - 1
        /\ Len(received) = Taken + O /\ Len(received) \in Int
    BY <1>1, <1>4, Sizes
  <2>5. l \in Int
    BY <2>2, <2>4
  <2>6. Taken' = Len(received) + len - l
    BY <2>3, <2>4, <2>5 DEF Taken
  <2> HIDE DEF O
  <2>7. CASE O + len < RxSize - 1
    BY <2>2, <2>4, <2>6, <2>7 DEF O
  <2>8. CASE ~(O + len < RxSize - 1)
    BY <2>2, <2>4, <2>6, <2>8 DEF O
  <2> QED BY <2>7, <2>8
<1>7. Stream' = Stream
  <2>1. (received \in Seq(Bytes) /\ arriving \in Seq(Bytes) =>
           /\ Stream \in Seq(Bytes) /\ Len(Stream) = Len(received) + Len(arriving)
           /\ \A i \in 1..Len(received) + Len(arriving) :
                Stream[i] \in Bytes
                /\ Stream[i] = IF i <= Len(received) THEN received[i]
                               ELSE arriving[i - Len(received)])'
    BY StreamNow, PTL
  <2>2. /\ Stream' \in Seq(Bytes) /\ Len(Stream') = Len(received') + Len(arriving')
        /\ \A i \in 1..Len(received') + Len(arriving') :
             Stream'[i] = IF i <= Len(received') THEN received'[i]
                          ELSE arriving'[i - Len(received')]
    BY <1>3, <1>5, <2>1
  <2>3. Stream \in Seq(Bytes)
    BY <1>1, StreamIs
  <2>4. Len(Stream') = L /\ Len(received') + Len(arriving') = L
    BY <1>3, <1>4, <1>5, <2>2
  <2>5. ASSUME NEW i \in 1..L PROVE Stream'[i] = Stream[i]
    <3>1. Stream'[i] = IF i <= Len(received) + len THEN received'[i]
                       ELSE arriving'[i - (Len(received) + len)]
      BY <1>5, <2>2, <2>4
    <3>2. CASE i <= Len(received)
      BY <1>4, <1>5, <3>1, <3>2
    <3>3. CASE ~(i <= Len(received)) /\ i <= Len(received) + len
      <4>1. i - Len(received) \in 1..len /\ i \in 1..Len(received) + len
        BY <1>4, <3>3
      <4>2. received'[i] = data[i - Len(received)]
        BY <1>5, <3>3, <4>1
      <4>3. data[i - Len(received)] = arriving[i - Len(received)]
        BY <1>2, <4>1
      <4>4. Stream[i] = arriving[i - Len(received)]
        BY <1>4, <3>3
      <4> QED BY <3>1, <3>3, <4>2, <4>3, <4>4
    <3>4. CASE ~(i <= Len(received) + len)
      <4>1. /\ i - (Len(received) + len) \in 1..Len(arriving) - len
            /\ len + (i - (Len(received) + len)) = i - Len(received)
            /\ ~(i <= Len(received))
        BY <1>4, <3>4
      <4>2. arriving'[i - (Len(received) + len)] = arriving[i - Len(received)]
        BY <1>3, <4>1
      <4> QED BY <1>4, <3>1, <3>4, <4>1, <4>2
    <3> QED BY <3>2, <3>3, <3>4
  <2> QED BY <2>2, <2>3, <2>4, <2>5, SeqEqual
<1>8. UNCHANGED <<line, raw_feedback>>
  BY DEF StoreFeedback
<1>9. SentBytes' /\ FramesInOrder' /\ SentFeedback'
  BY <1>7, <1>8 DEF StreamInv, SentBytes, FramesInOrder, SentFeedback
<1>10. FeedbackIsOlder'
  <2>1. \A j \in 1..L : j > Taken' => j > Taken
    BY <1>4, <1>6
  <2> QED BY <1>7, <1>8, <2>1 DEF StreamInv, FeedbackIsOlder
<1>11. ASSUME NEW n \in 1..Len(line), Mine(n), n \notin damaged'
       PROVE  Passed(Stream, Taken', raw_feedback[line[n].type], n)
  <2>1. n \notin damaged
    BY <1>3, <1>11
  <2>2. PICK p \in 0..L - FrameLength :
          /\ FrameAt(Stream, n, p)
          /\ (p >= Taken) \/ (p + FrameLength <= Taken /\ raw_feedback[line[n].type] >= n)
    BY <1>11, <2>1 DEF StreamInv, FramesPassed, Passed
  <2>3. p \in Int /\ FrameLength \in Nat
    BY <1>4, Sizes
  <2>4. CASE p + FrameLength <= Taken /\ raw_feedback[line[n].type] >= n
    <3>1. p + FrameLength <= Taken'
      BY <1>4, <1>6, <2>3, <2>4
    <3> QED BY <2>2, <2>4, <3>1 DEF Passed
  <2>5. CASE p >= Taken
    <3>1. CASE p >= Taken'
      BY <2>2, <3>1 DEF Passed
    <3>2. CASE ~(p >= Taken')
      <4>1. k >= 1 /\ Taken' = Taken + k
        BY <1>1, <1>4, <1>6, <2>3, <2>5, <3>2, Sizes
      <4>2. p + 1 - Taken \in 1..k /\ Taken + (p + 1 - Taken) = p + 1
        BY <1>1, <1>4, <2>3, <2>5, <3>2, <4>1, Sizes
      <4>3. Stream[p + 1] = <<n, 1>>
        BY <2>2, Sizes DEF FrameAt
      <4>4. Stream[p + 1][1] = n
        BY <4>3
      <4> HIDE DEF k
      <4>5. n \in damaged'
        BY <1>3, <4>2, <4>4
      <4> QED BY <1>11, <4>5
    <3> QED BY <3>1, <3>2
  <2> QED BY <2>2, <2>4, <2>5
<1>12. FramesPassed'
  BY <1>7, <1>8, <1>11 DEF FramesPassed, Mine
<1> QED BY <1>9, <1>10, <1>12 DEF StreamInv

(* A read of n bytes moves on along the stream by n.                       *)
LEMMA StreamRead ==
  ASSUME TypeOK, AgesInv, NEW n \in 0..Rx!Occupied, Rx!Read(n),
         UNCHANGED <<received, arriving>>
  PROVE  Stream' = Stream /\ Taken' = Taken + n
<1>1. IndicesOK /\ Rx!Occupied \in 0..RxSize - 1 /\ Len(received) \in Nat
  BY TypesAre
<1>2. (Rx!Occupied)' = Rx!Occupied - n
  BY <1>1, RingRead
<1>3. Rx!Occupied \in Int /\ n \in Int
  BY <1>1, Sizes
<1>4. Stream' = Stream
  BY DEF Stream
<1>5. Taken' = Taken + n
  <2>1. Rx!Occupied - n \in Int /\ Len(received') = Len(received) /\ Len(received) \in Int
    BY <1>1, <1>3
  <2>2. Taken' = Len(received) - (Rx!Occupied - n)
    BY <1>2, <2>1 DEF Taken
  <2> QED BY <1>1, <1>3, <2>2 DEF Taken
<1> QED BY <1>4, <1>5

(* A frame that passes is the next in the stream, and its type gets it.    *)
LEMMA StreamDecoded ==
  ASSUME TypeOK, AgesInv, StreamInv, Rx!Occupied >= FrameLength,
         NEW m \in DOMAIN line, IsValid(m), Rx!Read(FrameLength),
         raw_feedback' = [raw_feedback EXCEPT ![line[m].type] = m],
         UNCHANGED <<line, received, arriving, damaged>>
  PROVE  StreamInv'
<1> DEFINE L == Len(Stream)
           T == Taken
           u == line[m].type
<1>1. /\ L \in Nat /\ T \in 0..Len(received) /\ T + Rx!Occupied = Len(received)
      /\ Len(received) \in Nat /\ Len(received) <= L
      /\ \A i \in 1..L : Stream[i][1] \in 0..MaxFrames
      /\ \A t \in Types : raw_feedback[t] \in 0..MaxFrames
      /\ m \in 1..Len(line) /\ Len(line) \in Nat
  BY StreamFacts
<1>2. FrameLength \in Nat \ {0} /\ T + FrameLength <= Len(received)
  BY <1>1, TypesAre, Sizes
<1>3. Stream' = Stream /\ Taken' = T + FrameLength
  <2>1. FrameLength \in 0..Rx!Occupied
    BY <1>1, TypesAre, Sizes
  <2> QED BY <2>1, StreamRead
<1>4. u \in Types /\ \A i \in 1..FrameLength : Stream[T + i] = <<m, i>>
  <2>1. u \in Types /\ Window = [i \in 1..FrameLength |-> <<m, i>>]
    BY ValidFrame
  <2>2. \A i \in 1..FrameLength : Window[i] = Stream[T + i]
    BY WindowIs
  <2>3. \A i \in 1..FrameLength : Window[i] = <<m, i>>
    BY <2>1
  <2> QED BY <2>1, <2>2, <2>3
<1>5. T + 1 \in 1..L /\ Stream[T + 1] = <<m, 1>> /\ Stream[T + 1][1] = m
      /\ Stream[T + 1] # Noise
  <2>1. T + 1 \in 1..L /\ 1 \in 1..FrameLength
    BY <1>1, <1>2
  <2>2. Stream[T + 1] = <<m, 1>>
    BY <1>4, <2>1
  <2> QED BY <1>1, <2>1, <2>2 DEF Noise
<1>6. \A t \in Types : raw_feedback'[t] = IF t = u THEN m ELSE raw_feedback[t]
  BY <1>4 DEF TypeOK
<1>7. \A t \in Types : raw_feedback[t] <= m
  <2>1. T + 1 > Taken
    BY <1>1
  <2>2. \A t \in Types : raw_feedback[t] <= Stream[T + 1][1]
    BY <1>5, <2>1, Zenon DEF StreamInv, FeedbackIsOlder
  <2> QED BY <1>5, <2>2
<1>8. \A t \in Types : raw_feedback'[t] >= raw_feedback[t] /\ raw_feedback'[t] <= m
  BY <1>1, <1>6, <1>7
<1> HIDE DEF L, T, u
<1>9. SentBytes' /\ FramesInOrder'
  BY <1>3 DEF StreamInv, SentBytes, FramesInOrder
<1>10. SentFeedback'
  <2>1. \A t \in Types : raw_feedback'[t] <= Len(line)
    BY <1>1, <1>6 DEF StreamInv, SentFeedback
  <2> QED BY <2>1 DEF SentFeedback
<1>11. FeedbackIsOlder'
  <2>1. ASSUME NEW t \in Types, NEW j \in 1..L, j > T + FrameLength, Stream[j] # Noise
        PROVE  raw_feedback'[t] <= Stream[j][1]
    <3>1. T + 1 < j
      BY <1>1, <1>2, <2>1
    <3>2. Stream[T + 1][1] <= Stream[j][1]
      BY <1>5, <2>1, <3>1 DEF StreamInv, FramesInOrder, L
    <3>3. Stream[j][1] \in 0..MaxFrames
      BY <1>1
    <3> QED BY <1>1, <1>5, <1>6, <1>8, <3>2, <3>3
  <2> QED BY <1>3, <2>1 DEF FeedbackIsOlder, L
<1>12. ASSUME NEW n \in 1..Len(line), Mine(n), n \notin damaged
       PROVE  Passed(Stream, T + FrameLength, raw_feedback'[line[n].type], n)
  <2> DEFINE f == raw_feedback'[line[n].type]
  <2>1. PICK p \in 0..L - FrameLength :
          /\ FrameAt(Stream, n, p)
          /\ (p >= T) \/ (p + FrameLength <= T /\ raw_feedback[line[n].type] >= n)
    BY <1>12 DEF StreamInv, FramesPassed, Passed, L, T
  <2>2. p \in Int /\ T \in Int /\ FrameLength \in Int /\ n \in Int
    BY <1>1, <1>2
  <2>3. line[n].type \in Types
    BY <1>12 DEF Mine
  <2>4. CASE p + FrameLength <= T /\ raw_feedback[line[n].type] >= n
    <3>1. f >= raw_feedback[line[n].type] /\ f \in Int /\ raw_feedback[line[n].type] \in Int
      BY <1>1, <1>6, <1>8, <2>3
    <3> HIDE DEF f
    <3>2. f >= n /\ p + FrameLength <= T + FrameLength
      BY <1>2, <2>2, <2>4, <3>1
    <3> QED BY <2>1, <3>2 DEF Passed, f, L
  <2>5. CASE p >= T + FrameLength
    BY <2>1, <2>5 DEF Passed, L
  <2>6. CASE p >= T /\ ~(p >= T + FrameLength)
    <3>1. p + 1 - T \in 1..FrameLength /\ T + (p + 1 - T) = p + 1
      BY <2>2, <2>6
    <3>2. Stream[p + 1] = <<m, p + 1 - T>>
      BY <1>4, <3>1 DEF T
    <3>3. Stream[p + 1] = <<n, 1>>
      <4>1. 1 \in 1..FrameLength
        BY <1>2
      <4> QED BY <2>1, <4>1 DEF FrameAt
    <3>4. n = m /\ p = T
      <4>1. n = m /\ 1 = p + 1 - T
        BY <3>2, <3>3
      <4> QED BY <2>2, <4>1
    <3>5. f = m
      BY <1>4, <1>6, <3>4 DEF u
    <3>6. f >= n /\ p + FrameLength <= T + FrameLength
      BY <2>2, <3>4, <3>5
    <3> HIDE DEF f
    <3> QED BY <2>1, <3>6 DEF Passed, f, L
  <2> QED BY <2>1, <2>4, <2>5, <2>6
<1>13. FramesPassed'
  BY <1>3, <1>12 DEF FramesPassed, Mine, T
<1> QED BY <1>9, <1>10, <1>11, <1>13 DEF StreamInv

(* When no frame passes, the byte that is thrown away begins no frame of   *)
(* this motor that counts.                                                 *)
LEMMA StreamSkipped ==
  ASSUME TypeOK, AgesInv, StreamInv, Rx!Occupied >= FrameLength,
         ~ \E m \in DOMAIN line : IsValid(m), Rx!Read(1),
         UNCHANGED <<line, received, arriving, damaged, raw_feedback>>
  PROVE  StreamInv'
<1> DEFINE L == Len(Stream)
           T == Taken
<1>1. /\ L \in Nat /\ T \in 0..Len(received) /\ T + Rx!Occupied = Len(received)
      /\ Len(received) \in Nat /\ Len(received) <= L
      /\ DOMAIN line = 1..Len(line) /\ Len(line) \in Nat
  BY StreamFacts
<1>2. FrameLength \in Nat \ {0} /\ T + FrameLength <= Len(received)
  BY <1>1, TypesAre, Sizes
<1>3. Stream' = Stream /\ Taken' = T + 1
  <2>1. 1 \in 0..Rx!Occupied
    BY <1>1, TypesAre, Sizes
  <2> QED BY <2>1, StreamRead
<1>4. SentBytes' /\ FramesInOrder' /\ SentFeedback'
  BY <1>3 DEF StreamInv, SentBytes, FramesInOrder, SentFeedback
<1>5. FeedbackIsOlder'
  <2>1. \A j \in 1..L : j > T + 1 => j > T
    BY <1>1
  <2> QED BY <1>3, <2>1 DEF StreamInv, FeedbackIsOlder
<1> HIDE DEF L, T
<1>6. ASSUME NEW n \in 1..Len(line), Mine(n), n \notin damaged
      PROVE  Passed(Stream, T + 1, raw_feedback[line[n].type], n)
  <2>1. PICK p \in 0..L - FrameLength :
          /\ FrameAt(Stream, n, p)
          /\ (p >= T) \/ (p + FrameLength <= T /\ raw_feedback[line[n].type] >= n)
    BY <1>6 DEF StreamInv, FramesPassed, Passed, L, T
  <2>2. p \in Int /\ T \in Int /\ FrameLength \in Int
    BY <1>1, <1>2
  <2>3. CASE p + FrameLength <= T /\ raw_feedback[line[n].type] >= n
    <3>1. p + FrameLength <= T + 1
      BY <2>2, <2>3
    <3> QED BY <2>1, <2>3, <3>1 DEF Passed, L
  <2>4. CASE p >= T + 1
    BY <2>1, <2>4 DEF Passed, L
  <2>5. CASE p = T
    <3>1. \A i \in 1..FrameLength : Window[i] = Stream[T + i]
      BY WindowIs DEF T
    <3>2. \A i \in 1..FrameLength : Window[i] = <<n, i>>
      BY <2>1, <2>5, <3>1 DEF FrameAt
    <3>3. Window = [i \in 1..FrameLength |-> <<n, i>>]
      <4>1. Window = [i \in 1..FrameLength |-> Window[i]]
        BY DEF Window
      <4> HIDE DEF Window
      <4> QED BY <3>2, <4>1
    <3>4. line[n].id = MotorId /\ line[n].type \in Types /\ line[n].checksum < 128
      BY <1>6 DEF Mine
    <3>5. ChecksumMatches(line[n])
      BY <3>4 DEF ChecksumMatches, SignedByte
    <3>6. IsValid(n)
      BY <3>3, <3>4, <3>5, Zenon DEF IsValid
    <3> QED BY <1>1, <3>6
  <2> QED BY <2>1, <2>2, <2>3, <2>4, <2>5
<1>7. FramesPassed'
  BY <1>3, <1>6 DEF FramesPassed, Mine, T
<1> QED BY <1>4, <1>5, <1>7 DEF StreamInv

(* A frame that is sent comes last in the stream.                          *)
LEMMA StreamSent ==
  ASSUME TypeOK, AgesInv, StreamInv, NEW frame \in Frames, Send(frame)
  PROVE  StreamInv'
<1> DEFINE L == Len(Stream)
           K == Len(line)
           T == Taken
<1>1. /\ L \in Nat /\ T \in 0..L /\ L = Len(received) + Len(arriving)
      /\ Len(received) \in Nat /\ Len(arriving) \in Nat
      /\ \A i \in 1..L : Stream[i][1] \in 0..MaxFrames
      /\ \A t \in Types : raw_feedback[t] \in 0..MaxFrames
      /\ K \in Nat
      /\ \A i \in 1..L : Stream[i] = IF i <= Len(received) THEN received[i]
                                     ELSE arriving[i - Len(received)]
  BY StreamFacts
<1>2. FrameLength \in Nat \ {0} /\ received \in Seq(Bytes)
  BY Sizes, TypesAre
<1>3. UNCHANGED <<received, raw_feedback, damaged>> /\ UNCHANGED rxVars
  BY DEF Send
<1>4. /\ Len(line') = K + 1 /\ \A n \in 1..K : line'[n] = line[n]
      /\ arriving' \in Seq(Bytes) /\ Len(arriving') = Len(arriving) + FrameLength
      /\ \A i \in 1..Len(arriving) : arriving'[i] = arriving[i]
      /\ \A i \in 1..FrameLength : arriving'[Len(arriving) + i] = <<K + 1, i>>
  BY SendAppends
<1>5. Taken' = T
  BY <1>3, RingQuiet DEF Taken
<1>6. /\ Len(Stream') = L + FrameLength
      /\ \A i \in 1..L : Stream'[i] = Stream[i]
      /\ \A i \in 1..FrameLength : Stream'[L + i] = <<K + 1, i>>
  <2>1. (received \in Seq(Bytes) /\ arriving \in Seq(Bytes) =>
           /\ Stream \in Seq(Bytes) /\ Len(Stream) = Len(received) + Len(arriving)
           /\ \A i \in 1..Len(received) + Len(arriving) :
                Stream[i] \in Bytes
                /\ Stream[i] = IF i <= Len(received) THEN received[i]
                               ELSE arriving[i - Len(received)])'
    BY StreamNow, PTL
  <2>2. /\ Len(Stream') = Len(received) + Len(arriving')
        /\ \A i \in 1..Len(received) + Len(arriving') :
             Stream'[i] = IF i <= Len(received) THEN received[i]
                          ELSE arriving'[i - Len(received)]
    BY <1>2, <1>3, <1>4, <2>1
  <2>3. Len(received) + Len(arriving') = L + FrameLength
    BY <1>1, <1>2, <1>4
  <2>4. ASSUME NEW i \in 1..L PROVE Stream'[i] = Stream[i]
    <3>1. i \in 1..L + FrameLength
      BY <1>1, <1>2
    <3>2. CASE i <= Len(received)
      BY <1>1, <2>2, <2>3, <3>1, <3>2
    <3>3. CASE ~(i <= Len(received))
      <4>1. i - Len(received) \in 1..Len(arriving)
        BY <1>1, <3>3
      <4> QED BY <1>1, <1>4, <2>2, <2>3, <3>1, <3>3, <4>1
    <3> QED BY <3>2, <3>3
  <2>5. ASSUME NEW i \in 1..FrameLength PROVE Stream'[L + i] = <<K + 1, i>>
    <3>1. /\ L + i \in 1..L + FrameLength /\ ~(L + i <= Len(received))
          /\ (L + i) - Len(received) = Len(arriving) + i
      BY <1>1, <1>2
    <3> QED BY <1>4, <2>2, <2>3, <3>1
  <2> QED BY <2>2, <2>3, <2>4, <2>5
<1> DEFINE s == Stream'
<1>7. \A i \in 1..L + FrameLength :
        (i \in 1..L /\ s[i] = Stream[i])
          \/ (i > L /\ s[i] = <<K + 1, i - L>> /\ s[i][1] = K + 1)
  <2> TAKE i \in 1..L + FrameLength
  <2>1. CASE i <= L
    BY <1>1, <1>6, <2>1
  <2>2. CASE ~(i <= L)
    <3>1. i - L \in 1..FrameLength /\ L + (i - L) = i /\ i > L
      BY <1>1, <1>2, <2>2
    <3>2. s[i] = <<K + 1, i - L>>
      BY <1>6, <3>1
    <3> HIDE DEF s
    <3> QED BY <3>1, <3>2
  <2> QED BY <2>1, <2>2
<1>8. \A i \in 1..L : Stream[i][1] <= K
  BY DEF StreamInv, SentBytes
<1>9. \A t \in Types : raw_feedback[t] <= K
  BY DEF StreamInv, SentFeedback
<1> HIDE DEF s, L, K, T
<1>10. SentBytes'
  <2>1. ASSUME NEW i \in 1..L + FrameLength PROVE s[i][1] <= K + 1
    <3>1. CASE i \in 1..L /\ s[i] = Stream[i]
      <4>1. Stream[i][1] <= K /\ Stream[i][1] \in Int /\ K \in Int
        BY <1>1, <1>8, <3>1
      <4> QED BY <3>1, <4>1
    <3>2. CASE s[i][1] = K + 1
      BY <1>1, <3>2
    <3> QED BY <1>7, <3>1, <3>2
  <2> QED BY <1>4, <1>6, <2>1 DEF SentBytes, s
<1>11. FramesInOrder'
  <2>1. ASSUME NEW i \in 1..L + FrameLength, NEW j \in 1..L + FrameLength,
               i < j, s[j] # Noise
        PROVE  s[i][1] <= s[j][1]
    <3>1. CASE j > L /\ s[j][1] = K + 1
      BY <1>1, <1>7, <1>8, <3>1
    <3>2. CASE j \in 1..L /\ s[j] = Stream[j]
      <4>1. i \in 1..L
        BY <1>1, <2>1, <3>2
      <4>2. s[i] = Stream[i]
        BY <1>1, <1>7, <4>1
      <4>3. Stream[i][1] <= Stream[j][1]
        BY <2>1, <3>2, <4>1 DEF StreamInv, FramesInOrder, L
      <4> QED BY <3>2, <4>2, <4>3
    <3> QED BY <1>7, <3>1, <3>2
  <2> QED BY <1>6, <2>1 DEF FramesInOrder, s
<1>12. SentFeedback'
  <2>1. \A t \in Types : raw_feedback[t] <= K + 1
    BY <1>1, <1>9
  <2> QED BY <1>3, <1>4, <2>1 DEF SentFeedback
<1>13. FeedbackIsOlder'
  <2>1. ASSUME NEW t \in Types, NEW j \in 1..L + FrameLength, j > T, s[j] # Noise
        PROVE  raw_feedback[t] <= s[j][1]
    <3>1. CASE j > L /\ s[j][1] = K + 1
      BY <1>1, <1>9, <3>1
    <3>2. CASE j \in 1..L /\ s[j] = Stream[j]
      BY <2>1, <3>2 DEF StreamInv, FeedbackIsOlder, L, T
    <3> QED BY <1>7, <3>1, <3>2
  <2> QED BY <1>3, <1>5, <1>6, <2>1 DEF FeedbackIsOlder, s
<1>14. ASSUME NEW n \in 1..K + 1,
              line'[n].id = MotorId, line'[n].type \in Types,
              line'[n].checksum < 128, n \notin damaged
       PROVE  Passed(s, T, raw_feedback[line'[n].type], n)
  <2>1. Len(s) = L + FrameLength
    BY <1>6 DEF s
  <2>2. CASE n \in 1..K
    <3>1. line'[n] = line[n]
      BY <1>4, <2>2
    <3>2. Mine(n)
      BY <1>14, <3>1 DEF Mine
    <3>3. PICK p \in 0..L - FrameLength :
            /\ FrameAt(Stream, n, p)
            /\ (p >= T) \/ (p + FrameLength <= T /\ raw_feedback[line[n].type] >= n)
      BY <1>14, <2>2, <3>2 DEF StreamInv, FramesPassed, Passed, L, T, K
    <3>4. p \in 0..Len(s) - FrameLength
      BY <1>1, <1>2, <2>1
    <3>5. \A i \in 1..FrameLength : s[p + i] = <<n, i>>
      <4> TAKE i \in 1..FrameLength
      <4>1. p + i \in 1..L
        BY <1>1, <1>2
      <4>2. s[p + i] = Stream[p + i]
        BY <1>6, <4>1 DEF s
      <4> QED BY <3>3, <4>2 DEF FrameAt
    <3> QED BY <3>1, <3>3, <3>4, <3>5 DEF Passed, FrameAt
  <2>3. CASE n = K + 1
    <3>1. L \in 0..Len(s) - FrameLength /\ L >= T
      BY <1>1, <1>2, <2>1
    <3>2. \A i \in 1..FrameLength : s[L + i] = <<n, i>>
      BY <1>6, <2>3 DEF s
    <3> QED BY <3>1, <3>2 DEF Passed, FrameAt
  <2> QED BY <1>1, <2>2, <2>3
<1>15. FramesPassed'
  BY <1>3, <1>4, <1>5, <1>14 DEF FramesPassed, Mine, s
<1> QED BY <1>10, <1>11, <1>12, <1>13, <1>15 DEF StreamInv

(* A byte garbled or lost under way belongs to no frame that still counts. *)
LEMMA StreamDisturbed ==
  ASSUME TypeOK, AgesInv, StreamInv, NEW k \in DOMAIN arriving, Disturb(k)
  PROVE  StreamInv'
<1> DEFINE L == Len(Stream)
           T == Taken
           K == Len(received) + k
           s == Stream'
<1>1. /\ L \in Nat /\ T \in 0..Len(received) /\ L = Len(received) + Len(arriving)
      /\ Len(received) \in Nat /\ Len(arriving) \in Nat
      /\ \A i \in 1..L : Stream[i][1] \in 0..MaxFrames
      /\ \A t \in Types : raw_feedback[t] \in 0..MaxFrames
      /\ Len(line) \in Nat
      /\ \A i \in 1..L : Stream[i] = IF i <= Len(received) THEN received[i]
                                     ELSE arriving[i - Len(received)]
  BY StreamFacts
<1>2. FrameLength \in Nat \ {0} /\ received \in Seq(Bytes)
  BY Sizes, TypesAre
<1>3. UNCHANGED <<received, raw_feedback, line>> /\ UNCHANGED rxVars
  BY DEF Disturb
<1>4. k \in 1..Len(arriving)
  <2>1. arriving \in Seq(Bytes)
    BY TypesAre
  <2> QED BY <2>1, LenProperties
<1>5. K \in 1..L /\ K > T /\ K \in Int /\ Stream[K] = arriving[k]
  <2>1. K \in 1..L /\ K > T /\ ~(K <= Len(received)) /\ K - Len(received) = k
    BY <1>1, <1>4
  <2> QED BY <1>1, <2>1
<1>6. Taken' = T
  BY <1>3, RingQuiet DEF Taken
<1>7. /\ Len(Stream') = Len(received) + Len(arriving')
      /\ \A i \in 1..Len(received) + Len(arriving') :
           Stream'[i] = IF i <= Len(received) THEN received[i]
                        ELSE arriving'[i - Len(received)]
  <2>1. (received \in Seq(Bytes) /\ arriving \in Seq(Bytes) =>
           /\ Stream \in Seq(Bytes) /\ Len(Stream) = Len(received) + Len(arriving)
           /\ \A i \in 1..Len(received) + Len(arriving) :
                Stream[i] \in Bytes
                /\ Stream[i] = IF i <= Len(received) THEN received[i]
                               ELSE arriving[i - Len(received)])'
    BY StreamNow, PTL
  <2>2. arriving' \in Seq(Bytes)
    BY <1>4, DisturbsOne
  <2> QED BY <1>2, <1>3, <2>1, <2>2
<1>8. damaged' = damaged \cup {Stream[K][1]}
  BY <1>4, <1>5, DisturbsOne
<1>9. \A j \in 1..k - 1 : arriving'[j] = arriving[j]
  BY <1>4, DisturbsOne
<1>10. Noise[1] = 0
  BY ByteIs
<1>11. \A i \in 1..L : Stream[i][1] <= Len(line)
  BY DEF StreamInv, SentBytes
<1>12. SentFeedback'
  BY <1>3 DEF StreamInv, SentFeedback
<1>13. ASSUME NEW n \in 1..Len(line), Mine(n), n \notin damaged'
       PROVE  \E p \in 0..L - FrameLength :
                /\ FrameAt(Stream, n, p) /\ ~(p < K /\ K <= p + FrameLength)
                /\ (p >= T) \/ (p + FrameLength <= T /\ raw_feedback[line[n].type] >= n)
  <2>1. n \notin damaged /\ n # Stream[K][1]
    BY <1>8, <1>13
  <2>2. PICK p \in 0..L - FrameLength :
          /\ FrameAt(Stream, n, p)
          /\ (p >= T) \/ (p + FrameLength <= T /\ raw_feedback[line[n].type] >= n)
    BY <1>13, <2>1 DEF StreamInv, FramesPassed, Passed
  <2> HIDE DEF K
  <2>3. ASSUME p < K, K <= p + FrameLength PROVE FALSE
    <3>1. K - p \in 1..FrameLength /\ p + (K - p) = K
      BY <1>1, <1>2, <1>5, <2>3
    <3>2. Stream[K] = <<n, K - p>>
      BY <2>2, <3>1 DEF FrameAt
    <3> QED BY <2>1, <3>2
  <2> QED BY <2>2, <2>3
<1>14. CASE /\ Len(arriving') = Len(arriving) /\ arriving'[k] = Noise
            /\ \A j \in k + 1..Len(arriving) : arriving'[j] = arriving[j]
  <2>1. Len(s) = L
    BY <1>1, <1>7, <1>14
  <2>2. \A i \in 1..L : s[i] = IF i = K THEN Noise ELSE Stream[i]
    <3> TAKE i \in 1..L
    <3>1. s[i] = IF i <= Len(received) THEN received[i] ELSE arriving'[i - Len(received)]
      BY <1>1, <1>7, <1>14
    <3>2. CASE i <= Len(received)
      <4>1. i # K
        BY <1>1, <1>4, <3>2
      <4> QED BY <1>1, <3>1, <3>2, <4>1
    <3>3. CASE ~(i <= Len(received))
      <4> DEFINE j == i - Len(received)
      <4>1. j \in 1..Len(arriving) /\ (i = K <=> j = k) /\ j \in Int /\ k \in Int
        BY <1>1, <1>4, <3>3
      <4>2. s[i] = arriving'[j] /\ Stream[i] = arriving[j]
        BY <1>1, <3>1, <3>3
      <4> HIDE DEF j, s
      <4>3. (j \in 1..k - 1) \/ j = k \/ (j \in k + 1..Len(arriving))
        BY <1>1, <4>1
      <4>4. IF j = k THEN arriving'[j] = Noise ELSE arriving'[j] = arriving[j]
        BY <1>9, <1>14, <4>3
      <4> QED BY <4>1, <4>2, <4>4
    <3> QED BY <3>2, <3>3
  <2> HIDE DEF s, L, K, T
  <2>3. \A i \in 1..L : s[i][1] <= Stream[i][1] /\ (s[i] # Noise => s[i] = Stream[i])
    BY <1>1, <1>10, <2>2
  <2>4. \A i \in 1..L : s[i][1] \in Int /\ Stream[i][1] \in Int
    BY <1>1, <1>10, <2>2, SMTT(30)
  <2>5. SentBytes'
    <3>1. ASSUME NEW i \in 1..L PROVE s[i][1] <= Len(line)
      <4>1. s[i][1] <= Stream[i][1] /\ Stream[i][1] <= Len(line)
        BY <1>11, <2>3 DEF L
      <4>2. s[i][1] \in Int /\ Stream[i][1] \in Int /\ Len(line) \in Int
        BY <1>1, <2>4
      <4> QED BY <4>1, <4>2
    <3> QED BY <1>3, <2>1, <3>1 DEF SentBytes, s
  <2>6. FramesInOrder'
    <3>1. ASSUME NEW i \in 1..L, NEW j \in 1..L, i < j, s[j] # Noise
          PROVE  s[i][1] <= s[j][1]
      <4>1. s[j] = Stream[j] /\ s[i][1] <= Stream[i][1]
        BY <2>3, <3>1
      <4>2. Stream[i][1] <= Stream[j][1]
        BY <3>1, <4>1 DEF StreamInv, FramesInOrder, L
      <4> QED BY <2>4, <4>1, <4>2
    <3> QED BY <2>1, <3>1 DEF FramesInOrder, s
  <2>7. FeedbackIsOlder'
    <3>1. ASSUME NEW t \in Types, NEW j \in 1..L, j > T, s[j] # Noise
          PROVE  raw_feedback[t] <= s[j][1]
      <4>1. s[j] = Stream[j]
        BY <2>3, <3>1
      <4> QED BY <3>1, <4>1 DEF StreamInv, FeedbackIsOlder, L, T
    <3> QED BY <1>3, <1>6, <2>1, <3>1 DEF FeedbackIsOlder, s
  <2>8. ASSUME NEW n \in 1..Len(line), Mine(n), n \notin damaged'
        PROVE  Passed(s, T, raw_feedback[line[n].type], n)
    <3>1. PICK p \in 0..L - FrameLength :
            /\ FrameAt(Stream, n, p) /\ ~(p < K /\ K <= p + FrameLength)
            /\ (p >= T) \/ (p + FrameLength <= T /\ raw_feedback[line[n].type] >= n)
      BY <1>13, <2>8 DEF L, K, T
    <3>2. FrameAt(s, n, p)
      <4>1. ASSUME NEW i \in 1..FrameLength PROVE s[p + i] = <<n, i>>
        <5>1. p + i \in 1..L /\ p + i # K
          BY <1>1, <1>2, <1>5, <3>1
        <5> QED BY <2>2, <3>1, <5>1 DEF FrameAt
      <4> QED BY <4>1 DEF FrameAt
    <3> QED BY <2>1, <3>1, <3>2 DEF Passed
  <2>9. FramesPassed'
    BY <1>3, <1>6, <2>8 DEF FramesPassed, Mine, s
  <2> QED BY <1>12, <2>5, <2>6, <2>7, <2>9 DEF StreamInv
<1>15. CASE /\ Len(arriving') = Len(arriving) - 1
            /\ \A j \in k..Len(arriving) - 1 : arriving'[j] = arriving[j + 1]
  <2>1. Len(s) = L - 1
    BY <1>1, <1>4, <1>7, <1>15
  <2> DEFINE from(i) == IF i < K THEN i ELSE i + 1
  <2>2. ASSUME NEW i \in 1..L - 1
        PROVE  s[i] = Stream[from(i)] /\ from(i) \in 1..L
    <3>1. s[i] = IF i <= Len(received) THEN received[i] ELSE arriving'[i - Len(received)]
      BY <1>1, <1>4, <1>7, <1>15
    <3>2. CASE i <= Len(received)
      <4>1. i < K /\ i \in 1..L
        BY <1>1, <1>4, <3>2
      <4> QED BY <1>1, <3>1, <3>2, <4>1
    <3>3. CASE ~(i <= Len(received)) /\ i < K
      <4>1. i - Len(received) \in 1..k - 1 /\ i \in 1..L
        BY <1>1, <1>4, <3>3
      <4>2. arriving'[i - Len(received)] = arriving[i - Len(received)]
        BY <1>9, <4>1
      <4> QED BY <1>1, <3>1, <3>3, <4>1, <4>2
    <3>4. CASE ~(i <= Len(received)) /\ ~(i < K)
      <4>1. /\ i - Len(received) \in k..Len(arriving) - 1 /\ i + 1 \in 1..L
            /\ (i - Len(received)) + 1 = (i + 1) - Len(received)
            /\ ~(i + 1 <= Len(received))
        BY <1>1, <1>4, <3>4
      <4>2. arriving'[i - Len(received)] = arriving[(i + 1) - Len(received)]
        BY <1>15, <4>1
      <4>3. Stream[i + 1] = arriving[(i + 1) - Len(received)]
        BY <1>1, <4>1
      <4> QED BY <3>1, <3>4, <4>1, <4>2, <4>3
    <3> QED BY <3>2, <3>3, <3>4
  <2>3. \A i, j \in 1..L - 1 : i < j => from(i) < from(j)
    BY <1>1, <1>5
  <2>4. \A j \in 1..L - 1 : j > T => from(j) > T
    BY <1>1, <1>5
  <2>5. \A i \in 1..L - 1 : (i < K => from(i) = i) /\ (i >= K => from(i) = i + 1)
    BY <1>1, <1>5
  <2> HIDE DEF s, L, K, T, from
  <2>6. SentBytes'
    <3>1. ASSUME NEW i \in 1..L - 1 PROVE s[i][1] <= Len(line)
      <4>1. s[i] = Stream[from(i)] /\ from(i) \in 1..L
        BY <2>2
      <4>2. Stream[from(i)][1] <= Len(line)
        BY <1>11, <4>1
      <4> QED BY <4>1, <4>2
    <3> QED BY <1>3, <2>1, <3>1 DEF SentBytes, s
  <2>7. FramesInOrder'
    <3>1. ASSUME NEW i \in 1..L - 1, NEW j \in 1..L - 1, i < j, s[j] # Noise
          PROVE  s[i][1] <= s[j][1]
      <4>1. from(i) < from(j) /\ from(i) \in 1..L /\ from(j) \in 1..L
        BY <2>2, <2>3, <3>1
      <4>2. s[i] = Stream[from(i)] /\ s[j] = Stream[from(j)]
        BY <2>2
      <4>3. Stream[from(i)][1] <= Stream[from(j)][1]
        BY <3>1, <4>1, <4>2 DEF StreamInv, FramesInOrder, L
      <4> QED BY <4>2, <4>3
    <3> QED BY <2>1, <3>1 DEF FramesInOrder, s
  <2>8. FeedbackIsOlder'
    <3>1. ASSUME NEW t \in Types, NEW j \in 1..L - 1, j > T, s[j] # Noise
          PROVE  raw_feedback[t] <= s[j][1]
      <4>1. s[j] = Stream[from(j)] /\ from(j) \in 1..L /\ from(j) > T
        BY <2>2, <2>4, <3>1
      <4> QED BY <3>1, <4>1 DEF StreamInv, FeedbackIsOlder, L, T
    <3> QED BY <1>3, <1>6, <2>1, <3>1 DEF FeedbackIsOlder, s
  <2>9. ASSUME NEW n \in 1..Len(line), Mine(n), n \notin damaged'
        PROVE  Passed(s, T, raw_feedback[line[n].type], n)
    <3>1. PICK p \in 0..L - FrameLength :
            /\ FrameAt(Stream, n, p) /\ ~(p < K /\ K <= p + FrameLength)
            /\ (p >= T) \/ (p + FrameLength <= T /\ raw_feedback[line[n].type] >= n)
      BY <1>13, <2>9 DEF L, K, T
    <3>2. CASE p + FrameLength < K
      <4>1. FrameAt(s, n, p)
        <5>1. ASSUME NEW i \in 1..FrameLength PROVE s[p + i] = <<n, i>>
          <6>1. p + i \in 1..L - 1 /\ p + i < K
            BY <1>1, <1>2, <1>5, <3>1, <3>2
          <6>2. s[p + i] = Stream[p + i]
            BY <2>2, <2>5, <6>1
          <6> QED BY <3>1, <6>2 DEF FrameAt
        <5> QED BY <5>1 DEF FrameAt
      <4>2. p \in 0..Len(s) - FrameLength
        BY <1>1, <1>2, <1>5, <2>1, <3>1, <3>2
      <4> QED BY <3>1, <4>1, <4>2 DEF Passed
    <3>3. CASE p >= K
      <4>1. ASSUME NEW i \in 1..FrameLength PROVE s[(p - 1) + i] = <<n, i>>
        <5>1. (p - 1) + i \in 1..L - 1 /\ (p - 1) + i >= K /\ (p - 1) + i + 1 = p + i
          BY <1>1, <1>2, <1>5, <3>1, <3>3
        <5>2. s[(p - 1) + i] = Stream[p + i]
          BY <2>2, <2>5, <5>1
        <5> QED BY <3>1, <5>2 DEF FrameAt
      <4>2. p - 1 \in 0..Len(s) - FrameLength /\ p - 1 >= T
        BY <1>1, <1>2, <1>5, <2>1, <3>1, <3>3
      <4> QED BY <4>1, <4>2 DEF Passed, FrameAt
    <3>4. (p + FrameLength < K) \/ (p >= K)
      BY <1>1, <1>2, <1>5, <3>1
    <3> QED BY <3>2, <3>3, <3>4
  <2>10. FramesPassed'
    BY <1>3, <1>6, <2>9 DEF FramesPassed, Mine, s
  <2> QED BY <1>12, <2>6, <2>7, <2>8, <2>10 DEF StreamInv
<1> QED BY <1>4, <1>14, <1>15, DisturbsOne

-----------------------------------------------------------------------------
(* The stream keeps its frames by every step.                              *)
LEMMA StreamStep ==
  ASSUME TypeOK, AgesInv, StreamInv, [Next]_vars
  PROVE  StreamInv'
<1>1. ASSUME UNCHANGED <<line, arriving, received, raw_feedback, damaged>>,
             UNCHANGED rxVars
      PROVE  StreamInv'
  <2>1. Stream' = Stream /\ Taken' = Taken
    BY <1>1, RingQuiet DEF Stream, Taken
  <2> QED BY <1>1, <2>1, StreamQuiet
<1>2. CASE UNCHANGED vars
  BY <1>1, <1>2 DEF vars, lineVars
<1>3. CASE Return
  BY <1>1, <1>3 DEF Return, lineVars
<1>4. CASE Decode
  <2>1. /\ Rx!Occupied >= FrameLength
        /\ UNCHANGED <<line, received, arriving, damaged>>
    BY <1>4 DEF Decode, lineVars
  <2> QED BY <1>4, <2>1, StreamDecoded, StreamSkipped DEF Decode
<1> QED BY <1>2, <1>3, <1>4, StreamSent, StreamDisturbed, StreamStored
    DEF Next, ProcessFeedback

(* Nothing was sent yet.                                                   *)
LEMMA StreamInit ==
  ASSUME Init
  PROVE  StreamInv
<1>1. TypeOK /\ AgesInv
  BY TypeInit
<1>2. Len(Stream) = 0 /\ Len(line) = 0
  <2>1. Len(received) = 0 /\ Len(arriving) = 0 /\ Len(line) = 0
    BY DEF Init
  <2> QED BY <1>1, <2>1, StreamFacts
<1>3. \A t \in Types : raw_feedback[t] = 0
  BY DEF Init
<1>4. 1..0 = {}
  OBVIOUS
<1> QED BY <1>2, <1>3, <1>4 DEF StreamInv, SentBytes, FramesInOrder,
        SentFeedback, FeedbackIsOlder, FramesPassed

(* Between two calls every whole frame has been looked at.                 *)
LEMMA StreamMeansNewest ==
  ASSUME TypeOK, AgesInv, StreamInv
  PROVE  FeedbackIsNewest
<1> SUFFICES ASSUME ~decoding, NEW n \in DOMAIN line, Delivered(n),
                    line[n].checksum < 128
             PROVE  raw_feedback[line[n].type] >= n
  BY DEF FeedbackIsNewest
<1> DEFINE L == Len(Stream)
           R == Len(received)
<1>1. /\ L \in Nat /\ L = R + Len(arriving) /\ R \in Nat /\ Len(arriving) \in Nat
      /\ Taken \in 0..R /\ Taken + Rx!Occupied = R
      /\ n \in 1..Len(line)
      /\ \A i \in 1..L : Stream[i] = IF i <= R THEN received[i] ELSE arriving[i - R]
  BY StreamFacts
<1>2. Rx!Occupied < FrameLength /\ Rx!Occupied \in Int /\ FrameLength \in Nat \ {0}
  BY TypesAre, Sizes DEF TypeOK
<1>3. Mine(n) /\ n \notin damaged
  BY DEF Delivered, Mine
<1>4. PICK p \in 0..L - FrameLength :
        /\ FrameAt(Stream, n, p)
        /\ (p >= Taken) \/ (p + FrameLength <= Taken /\ raw_feedback[line[n].type] >= n)
  BY <1>1, <1>3 DEF StreamInv, FramesPassed, Passed
<1>5. p + FrameLength <= R
  <2> SUFFICES ASSUME ~(p + FrameLength <= R) PROVE FALSE
    OBVIOUS
  <2> DEFINE i == p + FrameLength
  <2>1. i \in 1..L /\ ~(i <= R) /\ i - R \in 1..Len(arriving)
    BY <1>1, <1>2
  <2>2. Stream[i] = <<n, FrameLength>>
    <3>1. FrameLength \in 1..FrameLength
      BY <1>2
    <3> QED BY <1>4, <3>1 DEF FrameAt
  <2>3. arriving[i - R] = <<n, FrameLength>>
    BY <1>1, <2>1, <2>2
  <2>4. DOMAIN arriving = 1..Len(arriving)
    <3>1. arriving \in Seq(Bytes)
      BY TypesAre
    <3> QED BY <3>1, LenProperties
  <2> HIDE DEF i
  <2>5. arriving[i - R][1] = n
    BY <2>3
  <2> QED BY <2>1, <2>4, <2>5 DEF Delivered
<1>6. ~(p >= Taken)
  BY <1>1, <1>2, <1>4, <1>5
<1> QED BY <1>4, <1>6

(* However the stream is cut into calls and whatever was lost, garbled or  *)
(* overwritten before: when ProcessFeedback returns, the feedback is as    *)
(* new as the newest whole frame with a checksum below 128.                *)
THEOREM NewestFeedback == Spec => []FeedbackIsNewest
<1>1. Init => StreamInv
  BY StreamInit
<1>2. TypeOK /\ AgesInv /\ StreamInv /\ [Next]_vars => StreamInv'
  BY StreamStep
<1>3. TypeOK /\ AgesInv /\ StreamInv => FeedbackIsNewest
  BY StreamMeansNewest
<1> QED BY <1>1, <1>2, <1>3, TypeInvariant, PTL DEF Spec
=============================================================================
