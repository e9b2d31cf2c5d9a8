---------------------------- MODULE PredictionCases ---------------------------
(***************************************************************************)
(* What the prediction of other vehicles is for, over bounded inputs; see  *)
(* DriverCases.                                                            *)
(***************************************************************************)
EXTENDS Integers, Sequences, SequencesExt, FiniteSets, FiniteSetsExt

Occ == INSTANCE Occupancy
Threats == INSTANCE Threat
Markov == INSTANCE MarkovChain

(* Spaces whose cells the samples divide evenly, with as many as fit.      *)
Spaces ==
  {[space |-> Occ!DiscretizeSpaceBySize(0, 4, 0, 4, 2, 2), samples |-> 1],
   [space |-> Occ!DiscretizeSpaceBySize(0, 9, 0, 3, 3, 1), samples |-> 2],
   [space |-> Occ!DiscretizeSpace(0, 7, 0, 4, 3, 3), samples |-> 2]}

Vectors == {<<1, 0, 0, 0>>, <<0, 1, 0, 2>>, <<3, 1, 1, 0>>, <<0, 0, 2, 1>>}

OccupancyCases ==
  [kind : {"occupancy"}, in : Spaces, controls : {<<0>>, <<-1, 1>>, <<0, 1>>},
   start : Vectors, T : {2}, k : {2}]

(* Where a vehicle is along a channel as it goes on, computed twice, and   *)
(* two channels it may take, one of them short.                            *)
Rows == {<<1, 0, 0>>, <<0, 0, 3>>, <<3, 1, 1>>, <<0, 1, 3>>}
ThreatCases ==
  [kind : {"threat"}, rows : [1..3 -> Rows], k : 1..2, again : 1..2, length : 2..4, side : 0..2]

(* Markov chains of three states that are taken some steps ahead.          *)
Transitions ==
  {<<<<2, 0, 0>>, <<1, 1, 0>>, <<0, 1, 1>>>>, <<<<0, 3, 0>>, <<0, 0, 3>>, <<3, 0, 0>>>>,
   <<<<1, 1, 2>>, <<4, 0, 0>>, <<0, 3, 1>>>>}
ChainCases ==
  [kind : {"chain"}, st : {<<1, 0, 0>>, <<2, 3, 1>>}, trans : Transitions, n : 0..3, more : 0..1, k : 0..4]

Inputs == OccupancyCases \cup ThreatCases \cup ChainCases

-----------------------------------------------------------------------------
(* A vehicle that goes on for a time, with its speed kept in the space.    *)
Speed(v) == IF v < 0 THEN 0 ELSE v
Moved[x \in Int \X Int, u \in Int, T \in Nat] ==
  <<x[1] + Speed(x[2]) * T, Speed(x[2] + u * T)>>

(* The same prediction without indices: weights of pairs of a cell and a   *)
(* control; in each step the samples of a cell move, and then the control  *)
(* changes.                                                                *)
InCell(cell, x) == x[1] \in cell.cs_min..(cell.cs_max - 1) /\ x[2] \in cell.cv_min..(cell.cv_max - 1)

Stepped(i, block, weight, T) ==
  LET cells == 0..(Occ!StateNumber(i.in.space) - 1)
      M == DOMAIN i.controls
      ends(c, d, a) ==
        Cardinality({x \in Occ!GetUniformSamples(Occ!StateCell(i.in.space, c), i.in.samples, i.in.samples) :
                       InCell(Occ!StateCell(i.in.space, d), Moved[x, i.controls[a], T])})
      flow == [c \in cells |-> [d \in cells |-> [a \in M |-> ends(c, d, a)]]]
      sum(S, f(_)) == FoldSet(LAMBDA x, y : f(x) + y, 0, S)
  IN  [d \in cells |-> [b \in M |->
         sum(cells, LAMBDA c : sum(M, LAMBDA a : weight[c][a] * flow[c][d][a] * block[a][b]))]]

Marginal(i, weight) ==
  LET space == i.in.space
      row(s) == FoldSet(LAMBDA j, y : y + FoldSet(LAMBDA a, z : z + weight[s * space.v_size + j][a], 0, DOMAIN i.controls),
                        0, 0..(space.v_size - 1))
  IN  Occ!Normalized([s \in 1..space.s_size |-> row(s - 1)])

(* The occupancy k steps ahead, and that of the step before it as it is on *)
(* the way, are those of the vehicles that start, move and change their    *)
(* controls, whatever is left of them inside the space; what is likelier   *)
(* than one in a thousand is never taken for nothing.                      *)
OccupancyIsExact(i) ==
  LET N == Occ!StateNumber(i.in.space)
      M == Len(i.controls)
      psi(T) == Occ!RunSim(i.in.space, i.controls, Moved, T, i.in.samples)
      block == Occ!phi_block(i.controls, SubSeq(<<1, 2>>, 1, M), 1)
      gammas == Occ!CommandTransition(N, block)
      trans == Occ!CombinedTransition(gammas, psi(i.T))
      between == Occ!CombinedTransition(gammas, Occ!RunIntervalSim(i.in.space, i.controls, Moved, i.T, i.T, i.in.samples))
      start == Occ!SetInitialState(Occ!NoChain, Occ!GenerateInitState(SubSeq(i.start, 1, N), M))
      chain == Occ!PropagateWithIntervalDist(start, trans, between, i.k)
      plain == Occ!Propagate(start, trans, i.k)
      at0 == [c \in 0..(N - 1) |-> [a \in 1..M |-> i.start[c + 1]]]
      reference[n \in 0..i.k] == IF n = 0 THEN at0 ELSE Stepped(i, block, reference[n - 1], i.T)
      alive(w) == \E c \in DOMAIN w : \E a \in 1..M : w[c][a] > 0
      midway == [t \in 1..i.T |-> Stepped(i, block, reference[i.k - 1], t)]
      either == [c \in 0..(N - 1) |-> [a \in 1..M |-> FoldLeft(LAMBDA y, w : y + w[c][a], 0, midway)]]
  IN  /\ plain.states = chain.states /\ Len(plain.states) = i.k + 1
      /\ \A n \in 0..i.k :
           /\ Occ!StateOf(plain, trans, n) = Occ!StateOf(start, trans, n)
           /\ alive(reference[n]) => \A s \in 1..i.in.space.s_size :
                1000 * Marginal(i, reference[n])[s] > Occ!Total(Marginal(i, reference[n])) =>
                  Occ!GetOccupancyDistribution(i.in.space, plain, M, n)[s] > 0
           /\ alive(reference[n]) =>
                Occ!ConvertToPositionDist(i.in.space, Occ!GetStateAt(plain, n), M, 0) = Marginal(i, reference[n])
      /\ alive(reference[i.k - 1]) /\ alive(either) =>
           Occ!ConvertToPositionDist(i.in.space, Occ!GetIntervalStateAt(chain, i.k - 1), M, 0) = Marginal(i, either)

-----------------------------------------------------------------------------
Channels == <<[places |-> {<<0, 0, 0>>}, s |-> [p \in {<<0, 0, 0>>} |-> 9]],
              [places |-> {<<5, 5, 1>>}, s |-> [p \in {<<5, 5, 1>>} |-> 1]],
              [places |-> {<<0, 0, 0>>, <<5, 5, 1>>}, s |-> [p \in {<<0, 0, 0>>, <<5, 5, 1>>} |-> 2]]>>

(* The threat of a vehicle at a step is all that lies on the channel where *)
(* it is predicted at that step, however often it is computed, as long as  *)
(* no later computation goes further than the first.  What the cells of a  *)
(* row hold is in the proportions of the lateral distribution, and the     *)
(* likeliest is drawn as one hundred.  A vehicle that is placed once has   *)
(* its footprint there, and the first estimation of a vehicle stays.  The  *)
(* threats made in parallel are of vehicles in the conflicting lanes only, *)
(* and the field is the sum of those that were not lost.                   *)
ThreatsFit(i) ==
  LET ahead == [n \in 0..3 |-> i.rows[(n % 3) + 1]]
      between == [n \in 0..2 |-> Reverse(ahead[n])]
      compute(veh, k) == Threats!ComputeOccupancyDistribution(veh, ahead, between, k, TRUE, i.length, i.side)
      vehicle == Threats!VehicleThreat(Channels, Threats!VehicleEstimation(1, <<0, 0, 0>>), 2, ahead)
      once == compute(vehicle, i.k)
      twice == compute(once, i.again)
      lateral == FoldSet(LAMBDA j, y : y + Threats!LateralDistribution(j), 0, (-i.side)..i.side)
      along(dist) == FoldLeft(LAMBDA y, n : y + dist[n], 0, 
                                  SelectSeq(<<1, 2, 3>>, LAMBDA n : n <= i.length))
      expected(t) == IF t <= i.k THEN along(ahead[t]) ELSE 0
      other(id, pose) == Threats!VehicleEstimation(id, pose)
      vehicles == {other(1, <<0, 0, 0>>), other(2, <<0, 0, 0>>), other(3, <<5, 5, 1>>)}
      occupied == [est \in vehicles |-> IF est.id = i.k THEN {"out"} ELSE {"out", "in"}]
      threat == [id \in 1..3 |-> id * i.length]
  IN  /\ Threats!SetPose(other(1, <<0, 0, 0>>), <<5, i.k, i.side>>) = other(1, <<5, i.k, i.side>>)
      /\ Threats!AddVehicleEstimations({other(1, <<0, 0, 0>>)}, <<other(2, <<0, 0, 0>>), other(1, <<5, 5, 1>>)>>)
           = {other(1, <<0, 0, 0>>), other(2, <<0, 0, 0>>)}
      /\ \A field \in Threats!SetupThreatField(vehicles, occupied, {"in"}) :
           LET each == Threats!GetThreatComponentAt(field, threat)
           IN  /\ each # <<>> /\ i.k \notin DOMAIN each
               /\ Threats!ThreatFieldAt(field, threat) = FoldSet(LAMBDA id, y : each[id] + y, 0, DOMAIN each)
      /\ Len(once.cases) = 2 /\ \A c \in ToSet(once.cases) : c.start_offset + 14 \in {18, 4}
      /\ \A veh \in {once} \cup (IF i.again <= i.k THEN {twice} ELSE {}) : \A t \in 0..3 :
           /\ Threats!ThreatAt(veh, [cell \in Int \X Int |-> 1], t) = 2 * lateral * expected(t)
           /\ Threats!GetThreatCenter(veh, t) = <<>> <=> expected(t) = 0
      /\ \A c \in ToSet(once.cases) : \A r \in {c.threat_record[0], c.intv_threat_record[0]} :
           r.sub_threats # <<>> => Max(ToSet(r.cost_map)) = 100

-----------------------------------------------------------------------------
(* The state of a chain at k, whether it was computed or not, is what all  *)
(* paths of k steps from the initial state lead to.                        *)
ChainIsExact(i) ==
  LET states == 1..3
      chain == Markov!PropagateTo(Markov!PropagateTo(Markov!Chain(i.st, i.trans), i.n), i.more)
      paths(j) == {p \in [0..i.k -> states] : p[i.k] = j}
      weight[p \in [0..i.k -> states], n \in 0..i.k] ==
        IF n = 0 THEN i.st[p[0]] ELSE weight[p, n - 1] * i.trans[p[n - 1]][p[n]]
  IN  /\ Markov!GetStateNumber(chain) = i.n + i.more + 1 /\ chain.defined
      /\ Markov!Same(Markov!At(chain, i.k),
                     [j \in states |-> FoldSet(LAMBDA p, y : weight[p, i.k] + y, 0, paths(j))])

PredictionsHold(i) ==
  CASE i.kind = "occupancy" -> OccupancyIsExact(i)
    [] i.kind = "threat" -> ThreatsFit(i)
    [] i.kind = "chain" -> ChainIsExact(i)
    [] OTHER -> TRUE
=============================================================================
