----------------------------- MODULE RingBuffer ------------------------------
(***************************************************************************)
(* RingBuffer<T, N> of src/driver/async_port: an array of N slots with a   *)
(* read and a write index that are unsigned machine words.  They are       *)
(* reduced to a slot number only when the array is accessed, so what they  *)
(* count modulo the word size W is part of the state.  Every operation     *)
(* holds buffer_mutex_ and is one step, except Peek, which takes the lock  *)
(* once per element: a producer may write between two of its steps.        *)
(***************************************************************************)
EXTENDS Integers, Sequences

CONSTANTS N,         \* slots, a template parameter (a power of 2)
          W,         \* the number of values of std::size_t
          Overwrite, \* enable_overwrite_
          Values,    \* T
          MaxBurst   \* bound: longest burst one call moves

ASSUME SizeAssumption ==
  /\ N \in Nat /\ N > 1
  /\ W \in Nat /\ W > N /\ W % N = 0

ASSUME ParameterAssumption ==
  /\ Overwrite \in BOOLEAN
  /\ MaxBurst \in Nat \ {0}

VARIABLES buffer,      \* buffer_, never initialised by the constructor
          write_index, \* write_index_
          read_index,  \* read_index_
          peek,        \* a Peek call under way: elements wanted and copied
          ret          \* the answer of the latest call

vars == <<buffer, write_index, read_index, peek, ret>>

Slots == 0 .. N - 1
Words == 0 .. W - 1

Lesser(a, b) == IF a < b THEN a ELSE b

-----------------------------------------------------------------------------
(* Index arithmetic.                                                       *)

Masked(i) == i % N                           \* i & size_mask_

Advance(i, k) == (i + k) % W                 \* i += k in std::size_t

Distance == (write_index - read_index) % W   \* write_index_ - read_index_

Occupied == Masked(Distance)

FreeSize == N - 1 - Occupied

(* The comparison IsEmpty and Read make: it uses the unmasked indices.     *)
Drained == read_index = write_index

Full == Masked(Advance(write_index, 1)) = Masked(read_index)

(* The element at distance i from the read index.                          *)
ElementAt(i) == buffer[Masked(Advance(read_index, i))]

(* The elements the masked indices delimit, oldest first.                  *)
Contents == [i \in 1..Occupied |-> ElementAt(i - 1)]

-----------------------------------------------------------------------------
Idle == [goal |-> 0, got |-> <<>>]

Init ==
  /\ buffer \in [Slots -> Values]
  /\ write_index = 0
  /\ read_index = 0
  /\ peek = Idle
  /\ ret = [op |-> "Reset"]

Reset ==
  /\ peek = Idle
  /\ write_index' = 0
  /\ read_index' = 0
  /\ ret' = [op |-> "Reset"]
  /\ UNCHANGED <<buffer, peek>>

(* A mutation: the index is advanced before the slot is written.           *)
StoredAhead(data, n) ==
  [s \in Slots |->
     LET age == Masked(write_index + n - s)
     IN  IF age < n THEN data[n - age] ELSE buffer[s]]

(* The slots after the first n elements of data went in: a slot that was   *)
(* written age places before the last one holds the element of that age.   *)
Stored(data, n) ==
  [s \in Slots |->
     LET age == Masked(write_index + n - 1 - s)
     IN  IF age < n THEN data[n - age] ELSE buffer[s]]

(* A mutation: the test for a full buffer is forgotten.                    *)
WriteUnchecked(data) ==
  /\ buffer' = Stored(data, Len(data))
  /\ write_index' = Advance(write_index, Len(data))
  /\ ret' = [op |-> "Write", n |-> Len(data)]
  /\ UNCHANGED <<read_index, peek>>

(* Write(new_data, btw): the loop stores element by element.  Without      *)
(* overwrite it stops at the first element that finds the buffer full;     *)
(* with it, each such element pushes the read index forward, masked.       *)
Write(data) ==
  LET stored == IF Overwrite THEN Len(data) ELSE Lesser(Len(data), FreeSize)
      pushed == IF stored > FreeSize THEN stored - FreeSize ELSE 0
  IN  /\ buffer' = Stored(data, stored)
      /\ write_index' = Advance(write_index, stored)
      /\ read_index' = IF pushed = 0 THEN read_index
                       ELSE Masked(read_index + pushed)
      /\ ret' = [op |-> "Write", n |-> stored]
      /\ UNCHANGED peek

(* Write(new_data) of a single element.                                    *)
WriteOne(v) == Write(<<v>>)

(* Read(data, btr): copies until btr elements or until the unmasked        *)
(* indices meet.                                                           *)
Read(btr) ==
  LET count == Lesser(btr, Distance)
  IN  /\ peek = Idle
      /\ ret' = [op |-> "Read",
                 data |-> [i \in 1..count |-> ElementAt(i - 1)]]
      /\ read_index' = Advance(read_index, count)
      /\ UNCHANGED <<buffer, write_index, peek>>

(* Read(data) of a single element.                                         *)
ReadOne == Read(1)

(* A mutation: the bound admits the element after the last one.            *)
PeekableOffByOne(n) == n <= Distance

(* PeekAt(data, n): '>=' binds tighter than '&', so the bound that is      *)
(* tested is the unmasked distance (size_mask_ is odd).                    *)
Peekable(n) == n < Distance

(* Peek(data, btp): a loop over PeekAt, which locks for itself.            *)
PeekBegin(btp) ==
  /\ peek = Idle
  /\ peek' = [goal |-> btp, got |-> <<>>]
  /\ UNCHANGED <<buffer, write_index, read_index, ret>>

PeekEnd(got) ==
  /\ ret' = [op |-> "Peek", data |-> got]
  /\ peek' = Idle
  /\ UNCHANGED <<buffer, write_index, read_index>>

PeekStep ==
  LET i   == Len(peek.got)
      got == Append(peek.got, ElementAt(i))
  IN
  /\ peek # Idle
  /\ \/ ~Peekable(i) /\ PeekEnd(peek.got)
     \/ Peekable(i) /\ Len(got) = peek.goal /\ PeekEnd(got)
     \/ /\ Peekable(i) /\ Len(got) < peek.goal
        /\ peek' = [goal |-> peek.goal, got |-> got]
        /\ UNCHANGED <<buffer, write_index, read_index, ret>>

Answer(r) == ret' = r /\ UNCHANGED <<buffer, write_index, read_index, peek>>

IsEmpty == Answer([op |-> "IsEmpty", is |-> Drained])

IsFull == Answer([op |-> "IsFull", is |-> Full])

GetOccupiedSize == Answer([op |-> "GetOccupiedSize", n |-> Occupied])

GetFreeSize == Answer([op |-> "GetFreeSize", n |-> FreeSize])

-----------------------------------------------------------------------------
Bursts == UNION {[1..n -> Values] : n \in 1..MaxBurst}

(* Producer and consumer may be different threads: a Write may come        *)
(* between the steps of a Peek; the consumer is busy with its Peek.        *)
Next ==
  \/ Reset
  \/ \E v \in Values : WriteOne(v)
  \/ \E data \in Bursts : Write(data)
  \/ ReadOne
  \/ \E n \in 1..MaxBurst : Read(n) \/ PeekBegin(n)
  \/ PeekStep
  \/ IsEmpty \/ IsFull \/ GetOccupiedSize \/ GetFreeSize

Spec == Init /\ [][Next]_vars

-----------------------------------------------------------------------------
(* Indices are machine words, and a Peek under way has not copied more     *)
(* than it was asked for.                                                  *)
TypeOK ==
  /\ buffer \in [Slots -> Values]
  /\ write_index \in Words
  /\ read_index \in Words
  /\ peek \in [goal : 0..MaxBurst, got : Seq(Values)]
  /\ peek = Idle \/ Len(peek.got) < peek.goal

(* The two notions of "empty" in the class agree: IsEmpty and Read compare *)
(* the unmasked indices, GetOccupiedSize the masked ones.  If they differ, *)
(* a Read of a buffer that reports zero elements returns stale memory.     *)
EmptyAgrees == Drained <=> Occupied = 0

(* The distance of the unmasked indices is the number of elements held:    *)
(* the inductive form of EmptyAgrees when nothing is ever overwritten.     *)
IndexInv == Distance < N

(* What a Peek has copied so far is the head of the queue still, although  *)
(* it released the lock between the elements and a producer wrote.         *)
PeekIsCurrent ==
  /\ Len(peek.got) <= Occupied
  /\ \A i \in DOMAIN peek.got : peek.got[i] = Contents[i]

(* The buffer is the bounded queue: every answer and every element it      *)
(* returns is the queue's.                                                 *)
Fifo == INSTANCE BoundedFifo WITH Capacity <- N - 1, queue <- Contents

ImplementsFifo == Fifo!Spec
=============================================================================
