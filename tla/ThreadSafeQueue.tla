--------------------------- MODULE ThreadSafeQueue ---------------------------
(***************************************************************************)
(* ThreadSafeQueue<T, N> of src/common/event as operations on the sequence *)
(* it holds.  Each runs under the queue's mutex; the modules that use the  *)
(* queue model the mutex where somebody can be stopped while holding it.   *)
(***************************************************************************)
EXTENDS Naturals, Sequences

(* Push: a full queue forgets its oldest element.                          *)
Push(q, x, n) == Append(IF Len(q) = n THEN Tail(q) ELSE q, x)

(* TryPop fails on an empty queue, Pop waits for this condition.           *)
CanPop(q) == q # <<>>

Front(q) == Head(q)

Rest(q) == Tail(q)
=============================================================================
