------------------------------ MODULE Occupancy ------------------------------
(***************************************************************************)
(* planning/decision: Markov chains, and the prediction of where a vehicle *)
(* will be.  A distribution is a sequence of integer weights, divided by   *)
(* what is common to them where the code divides by their sum; one without *)
(* any weight is what the code has as not-a-number.  Indices begin at 0 in *)
(* the code and here; a sequence is read one further on.                   *)
(***************************************************************************)
EXTENDS Integers, Sequences, SequencesExt, FiniteSets

Gcd[a \in Nat, b \in Nat] == IF b = 0 THEN a ELSE Gcd[b, a % b]
Total(w) == FoldLeft(+, 0, w)
Normalized(w) ==
  LET g == FoldLeft(LAMBDA a, b : Gcd[a, b], 0, w)
  IN  IF g = 0 THEN w ELSE [n \in DOMAIN w |-> w[n] \div g]

(* A matrix by columns, and its product with a distribution.               *)
Apply(matrix, w) ==
  Normalized([r \in DOMAIN w |-> FoldLeft(LAMBDA sum, c : sum + matrix[c][r] * w[c], 0, [c \in DOMAIN w |-> c])])

-----------------------------------------------------------------------------
(* OccupancyMarkovChain: every propagation starts from the initial state   *)
(* and adds to the states.                                                 *)
NoChain == [init_state |-> <<>>, states |-> <<>>, intv_states |-> <<>>]
SetInitialState(chain, st) ==
  [chain EXCEPT !.init_state = st, !.states = Append(chain.states, st)]

CalculateStateAt(chain, trans, k) ==
  FoldLeft(LAMBDA s, n : Apply(trans, s), chain.init_state, [n \in 1..k |-> n])

PropagateWithIntervalDist(chain, trans, interval_trans, k) ==
  LET at(n) == CalculateStateAt(chain, trans, n)
  IN  [chain EXCEPT !.states = @ \o [n \in 1..k |-> at(n)],
                    !.intv_states = @ \o [n \in 1..k |-> Apply(interval_trans, at(n - 1))]]

Propagate(chain, trans, k) ==
  [chain EXCEPT !.states = @ \o [n \in 1..k |-> CalculateStateAt(chain, trans, n)]]

GetStateAt(chain, k) == chain.states[k + 1]
GetIntervalStateAt(chain, k) == chain.intv_states[k + 1]
StateOf(chain, trans, k) ==
  IF Len(chain.states) > k THEN GetStateAt(chain, k) ELSE CalculateStateAt(chain, trans, k)

-----------------------------------------------------------------------------
(* TStateSpace: cells of distance and speed, numbered along the speeds     *)
(* first.  A cell is found by division alone: the least distance and speed *)
(* are not taken off, and a small negative one counts as none.             *)
DiscretizeSpaceBySize(smin, smax, vmin, vmax, ssize, vsize) ==
  [s_min |-> smin, v_min |-> vmin, s_step |-> (smax - smin) \div ssize,
   v_step |-> (vmax - vmin) \div vsize, s_size |-> ssize, v_size |-> vsize]

DiscretizeSpace(smin, smax, vmin, vmax, sstep, vstep) ==
  [s_min |-> smin, v_min |-> vmin, s_step |-> sstep, v_step |-> vstep,
   s_size |-> (smax - smin) \div sstep, v_size |-> (vmax - vmin) \div vstep]

StateNumber(space) == space.s_size * space.v_size
StateCell(space, id) ==
  LET i == id \div space.v_size
      j == id % space.v_size
  IN  [cs_min |-> space.s_min + i * space.s_step, cs_max |-> space.s_min + (i + 1) * space.s_step,
       cv_min |-> space.v_min + j * space.v_step, cv_max |-> space.v_min + (j + 1) * space.v_step]

Truncated(a, b) == IF a < 0 THEN -((-a) \div b) ELSE a \div b
GetStateCell(space, s, v) ==
  LET i == Truncated(s, space.s_step)
      j == Truncated(v, space.v_step)
  IN  IF i \notin 0..(space.s_size - 1) \/ j \notin 0..(space.v_size - 1) THEN -1
      ELSE i * space.v_size + j

(* Evenly spread over the inside of a cell; the steps divide the cell.     *)
GetUniformSamples(cell, ssize, vsize) ==
  {<<cell.cs_min + i * ((cell.cs_max - cell.cs_min) \div (ssize + 1)),
     cell.cv_min + j * ((cell.cv_max - cell.cv_min) \div (vsize + 1))>> : i \in 1..ssize, j \in 1..vsize}

-----------------------------------------------------------------------------
(* CarModelPropagator: the time is never advanced, so that its loop ends   *)
(* only where it does not begin.                                           *)
PropagateReturns(t0, tf) == t0 > tf

(* TStateTransitionSim, with what a vehicle does in time T as the function *)
(* Moved: the samples of a cell that end in another, under one control.    *)
RunSim(space, control_set, Moved, T, samples) ==
  LET c_size == Len(control_set)
      cell(n) == n \div c_size
      control(n) == n % c_size
      reached(from, to) ==
        Cardinality({x \in GetUniformSamples(StateCell(space, cell(from)), samples, samples) :
          LET f == Moved[x, control_set[control(from) + 1], T]
          IN  GetStateCell(space, f[1], f[2]) = cell(to)})
      size == StateNumber(space) * c_size
  IN  [c \in 1..size |-> [r \in 1..size |->
         IF control(r - 1) = control(c - 1) THEN reached(c - 1, r - 1) ELSE 0]]

(* The matrices of n times up to T, added.                                 *)
RunIntervalSim(space, control_set, Moved, T, n, samples) ==
  LET sims == [i \in 1..n |-> RunSim(space, control_set, Moved, i * (T \div n), samples)]
      size == StateNumber(space) * Len(control_set)
  IN  [c \in 1..size |-> [r \in 1..size |->
         FoldLeft(LAMBDA sum, i : sum + sims[i][c][r], 0, [i \in 1..n |-> i])]]

-----------------------------------------------------------------------------
(* MarkovCommand: from each control to the others, the likelier the closer *)
(* and the more preferred, each column normalised by itself; here the      *)
(* columns are brought to one sum.                                         *)
Scale(control_set, gamma) ==
  FoldLeft(LAMBDA p, d : p * (d + gamma), 1,
           SetToSeq({(a - b) * (a - b) : a, b \in ToSet(control_set)}))

phi_block(control_set, m, gamma) ==
  LET M == DOMAIN control_set
      Phi(alpha, beta) ==
        Scale(control_set, gamma) \div
          ((control_set[beta] - control_set[alpha]) * (control_set[beta] - control_set[alpha]) + gamma)
      columns == [beta \in M |-> Normalized([alpha \in M |-> m[alpha] * Phi(alpha, beta)])]
      all == FoldLeft(LAMBDA p, c : p * Total(c), 1, columns)
  IN  [beta \in M |-> [alpha \in M |-> columns[beta][alpha] * (all \div Total(columns[beta]))]]

CommandTransition(N, block) ==
  LET M == Len(block)
  IN  [c \in 1..(M * N) |-> [r \in 1..(M * N) |->
         IF (r - 1) \div M = (c - 1) \div M THEN block[((c - 1) % M) + 1][((r - 1) % M) + 1] ELSE 0]]

(* MarkovMotion: where the vehicle may be, every control as likely; then   *)
(* in each step it moves and changes its control.                          *)
GenerateInitStateByControl(nc_state, M) ==
  Normalized([n \in 1..(M * Len(nc_state)) |-> nc_state[((n - 1) % Len(nc_state)) + 1]])
GenerateInitState(nc_state, M) ==
  Normalized([n \in 1..(M * Len(nc_state)) |-> nc_state[((n - 1) \div M) + 1]])

CombinedTransition(gammas, psi) ==
  [c \in DOMAIN psi |-> [r \in DOMAIN psi |->
     FoldLeft(LAMBDA sum, n : sum + gammas[n][r] * psi[c][n], 0, [n \in DOMAIN psi |-> n])]]

(* The sum over speeds and controls, with what is below min_p, in parts    *)
(* per thousand, taken for nothing.                                        *)
ConvertToPositionDist(space, state, M, min_p) ==
  LET sum(i) == FoldLeft(LAMBDA a, n : IF ((n - 1) \div M) \div space.v_size = i THEN a + state[n] ELSE a,
                         0, [n \in DOMAIN state |-> n])
      pos == [i \in 1..space.s_size |-> sum(i - 1)]
  IN  Normalized([i \in DOMAIN pos |-> IF pos[i] <= (min_p * Total(pos) - 1) \div 1000 THEN 0 ELSE pos[i]])

GetOccupancyDistribution(space, chain, M, k) == ConvertToPositionDist(space, GetStateAt(chain, k), M, 1)
GetIntervalOccupancyDistribution(space, chain, M, k) ==
  ConvertToPositionDist(space, GetIntervalStateAt(chain, k), M, 1)
=============================================================================
