------------------------------ MODULE MarkovChain -----------------------------
(***************************************************************************)
(* MarkovChain and MarkovChainX of src/planning/decision/markov.  A state  *)
(* is a sequence of weights, a transition a matrix of whole weights whose  *)
(* rows have the same sum, and normalisation is left to the comparison of  *)
(* two states.                                                             *)
(***************************************************************************)
EXTENDS Integers, Sequences, SequencesExt

Sum(s) == FoldLeft(LAMBDA n, w : n + w, 0, s)
Times(s, trans) == [j \in DOMAIN s |-> Sum([i \in DOMAIN s |-> s[i] * trans[i][j]])]

(* Two states are the same distribution.                                   *)
Same(s, t) == Len(s) = Len(t) /\ \A k \in DOMAIN s : s[k] * Sum(t) = t[k] * Sum(s)

NewChain == [init |-> <<>>, trans |-> <<>>, states |-> <<>>, defined |-> TRUE]

SetInitialState(chain, st) == [chain EXCEPT !.init = st, !.states = Append(@, st)]
SetTransitionMatrix(chain, trans) == [chain EXCEPT !.trans = trans]
Chain(st, trans) == SetTransitionMatrix(SetInitialState(NewChain, st), trans)

(* Without a state there is none to go on from.                            *)
Propagate(chain) ==
  IF chain.states = <<>> THEN [chain EXCEPT !.defined = FALSE]
  ELSE [chain EXCEPT !.states = Append(@, Times(Last(chain.states), chain.trans))]

PropagateTo(chain, k_f) == FoldLeft(LAMBDA c, i : Propagate(c), chain, [i \in 1..k_f |-> i])

CalculateStateAt(chain, k) ==
  FoldLeft(LAMBDA s, i : Times(s, chain.trans), chain.init, [i \in 1..k |-> i])

GetStateNumber(chain) == Len(chain.states)

(* operator[]: a state that was computed, or what it would be.             *)
At(chain, k) == IF GetStateNumber(chain) > k THEN chain.states[k + 1] ELSE CalculateStateAt(chain, k)
=============================================================================
