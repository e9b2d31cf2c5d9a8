----------------------------- MODULE BoundedFifo -----------------------------
(***************************************************************************)
(* What RingBuffer<T, N> promises its callers: a first-in first-out queue  *)
(* of at most Capacity elements.  A write into a full queue is cut short,  *)
(* or, with Overwrite, drops the oldest elements.  ret is the answer of    *)
(* the latest call, so that an implementation must also answer correctly.  *)
(***************************************************************************)
EXTENDS Naturals, Sequences

CONSTANTS Capacity,   \* elements the queue holds: N - 1 in the code
          Overwrite,  \* TRUE: a full queue forgets its oldest element
          Values,     \* what is stored
          MaxBurst    \* bound: longest burst one call moves

VARIABLES queue, ret

vars == <<queue, ret>>

Lesser(a, b) == IF a < b THEN a ELSE b

FirstOf(n, s) == SubSeq(s, 1, Lesser(n, Len(s)))

Init == queue = <<>> /\ ret = [op |-> "Reset"]

Reset == queue' = <<>> /\ ret' = [op |-> "Reset"]

(* A burst is stored as far as it fits; with Overwrite all of it is stored *)
(* and only the newest Capacity elements remain.                           *)
Write(data) ==
  LET taken == IF Overwrite THEN Len(data)
               ELSE Lesser(Len(data), Capacity - Len(queue))
      all   == queue \o SubSeq(data, 1, taken)
      lost  == IF Len(all) > Capacity THEN Len(all) - Capacity ELSE 0
  IN  /\ queue' = SubSeq(all, lost + 1, Len(all))
      /\ ret' = [op |-> "Write", n |-> taken]

Read(n) ==
  /\ queue' = SubSeq(queue, Lesser(n, Len(queue)) + 1, Len(queue))
  /\ ret' = [op |-> "Read", data |-> FirstOf(n, queue)]

(* A Peek appears to happen at one instant.                                *)
Peek(n) ==
  /\ ret' = [op |-> "Peek", data |-> FirstOf(n, queue)]
  /\ UNCHANGED queue

Query ==
  /\ ret' \in {[op |-> "IsEmpty", is |-> queue = <<>>],
               [op |-> "IsFull", is |-> Len(queue) = Capacity],
               [op |-> "GetOccupiedSize", n |-> Len(queue)],
               [op |-> "GetFreeSize", n |-> Capacity - Len(queue)]}
  /\ UNCHANGED queue

Next ==
  \/ Reset
  \/ \E n \in 1..MaxBurst : \E data \in [1..n -> Values] : Write(data)
  \/ \E n \in 1..MaxBurst : Read(n) \/ Peek(n)
  \/ Query

Spec == Init /\ [][Next]_vars
=============================================================================
