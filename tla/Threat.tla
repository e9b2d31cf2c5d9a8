-------------------------------- MODULE Threat --------------------------------
(***************************************************************************)
(* planning/decision/prediction: what other vehicles threaten, from the    *)
(* predicted occupancy of the channels they may take.  Chances are integer *)
(* weights; the bell curve around a vehicle is the parameter near.         *)
(***************************************************************************)
EXTENDS Geometry, FiniteSets

-----------------------------------------------------------------------------
(* VehicleEstimation: SetPose turns and moves the footprint that is there, *)
(* not the one of a vehicle at the origin.  In tenths of a metre.          *)
VehicleFP == <<<<24, -9>>, <<24, 9>>, <<-24, 9>>, <<-24, -9>>>>

VehicleEstimation(id, pose) == [id |-> id, pose |-> pose, footprint |-> TransformRT(VehicleFP, pose)]
SetPose(est, pose) == [est EXCEPT !.pose = pose, !.footprint = TransformRT(est.footprint, pose)]

-----------------------------------------------------------------------------
(* LateralDistribution in thousandths: the conditions for 1 and 2 assign,  *)
(* so that every cell but the middle has the first of them.                *)
LateralDistribution(delta_idx) == IF delta_idx = 0 THEN 350 ELSE 225

SStartIndex == 3
StartOffset(pose_s, s_step) == 2 * pose_s - s_step * (2 * SStartIndex + 1)

(* The channels on which a vehicle stands, each a case with the place on   *)
(* it, in halves, where the occupancy grid begins.                         *)
ExtractTrafficInfo(channels, est, s_step) ==
  LET on == SelectSeq(channels, LAMBDA chn : est.pose \in chn.places)
  IN  [n \in DOMAIN on |->
         [channel |-> on[n], start_offset |-> StartOffset(on[n].s[est.pose], s_step),
          threat_record |-> <<>>, intv_threat_record |-> <<>>]]

(* The record of a distribution along the channel: the cells of the grid,  *)
(* row by row from one side to the other, that have a chance, and how each *)
(* is drawn, the likeliest as one hundred.                                 *)
ComputeOccupancyRecord(dist, tangential_num, one_side) ==
  LET width == 2 * one_side + 1
      rows == IF Len(dist) < tangential_num THEN Len(dist) ELSE tangential_num
      cells == [n \in 1..(rows * width) |->
                  LET i == (n - 1) \div width
                      j == ((n - 1) % width) - one_side
                  IN  [cell |-> <<i, j>>, probability |-> dist[i + 1] * LateralDistribution(j)]]
      sub_threats == SelectSeq(cells, LAMBDA t : t.probability # 0)
      most == FoldLeft(LAMBDA m, t : IF t.probability > m THEN t.probability ELSE m, 0, sub_threats)
  IN  [sub_threats |-> sub_threats,
       cost_map |-> [n \in DOMAIN sub_threats |-> (100 * sub_threats[n].probability) \div most]]

(* A vehicle with the cases it may be in, and what its occupancy model has *)
(* predicted so far: ahead[n] is where it is n steps on, between[n] where  *)
(* it is on the way to the next.                                           *)
VehicleThreat(channels, est, s_step, ahead) ==
  [cases |-> ExtractTrafficInfo(channels, est, s_step), states |-> <<ahead[0]>>, intv_states |-> <<>>]

(* The model is propagated, which adds k states after those it has, and    *)
(* every case gets a record of the states 0..k, and of the intervals       *)
(* between them if they are wanted; a record that was there is replaced.   *)
ComputeOccupancyDistribution(veh, ahead, between, k, calc_interval_dist, tangential_num, one_side) ==
  LET states == veh.states \o [n \in 1..k |-> ahead[n]]
      intervals == IF calc_interval_dist THEN veh.intv_states \o [n \in 1..k |-> between[n - 1]]
                   ELSE veh.intv_states
      upto(records, from, n) ==
        [t \in (DOMAIN records) \cup (0..n) |->
           IF t <= n THEN ComputeOccupancyRecord(from[t + 1], tangential_num, one_side) ELSE records[t]]
  IN  [states |-> states, intv_states |-> intervals,
       cases |-> [c \in DOMAIN veh.cases |->
         [veh.cases[c] EXCEPT !.threat_record = upto(@, states, k),
                              !.intv_threat_record = IF calc_interval_dist THEN upto(@, intervals, k - 1) ELSE @]]]

(* The threat to a place at a step: every case weighs the same, a step     *)
(* without a record none.                                                  *)
SubThreats(tcase, t_k) ==
  IF t_k \in DOMAIN tcase.threat_record THEN tcase.threat_record[t_k].sub_threats ELSE <<>>
ThreatAt(veh, near, t_k) ==
  FoldLeft(LAMBDA sum, tcase :
             FoldLeft(LAMBDA a, t : a + near[t.cell] * t.probability, sum, SubThreats(tcase, t_k)),
           0, veh.cases)

(* The middle of all cells that have a chance, whatever it is; without one *)
(* it is not a number, here the empty sequence.                            *)
GetThreatCenter(veh, t_k) ==
  LET all == FoldLeft(LAMBDA s, tcase : s \o SubThreats(tcase, t_k), <<>>, veh.cases)
      sum(d) == FoldLeft(LAMBDA a, t : a + t.cell[d], 0, all)
  IN  IF all = <<>> THEN <<>> ELSE <<sum(1) \div Len(all), sum(2) \div Len(all)>>

-----------------------------------------------------------------------------
(* ThreatField: the vehicles by their ids, the first of an id.             *)
AddVehicleEstimations(vehicles, ests) ==
  FoldLeft(LAMBDA v, est : IF \E u \in v : u.id = est.id THEN v ELSE v \cup {est}, vehicles, ests)

CheckInConflict(occupied, conflicting_lanes, est) == occupied[est] \cap conflicting_lanes # {}

(* The threats are made by several threads that insert them into one table *)
(* without a lock: here any but the last insertion may be lost.            *)
SetupThreatField(vehicles, occupied, conflicting_lanes) ==
  LET inConflict == {v \in vehicles : CheckInConflict(occupied, conflicting_lanes, v)}
  IN  {inConflict \ lost : lost \in {S \in SUBSET inConflict : S # inConflict \/ S = {}}}

GetThreatComponentAt(threats, threat) == [id \in {v.id : v \in threats} |-> threat[id]]
ThreatFieldAt(threats, threat) ==
  FoldLeft(LAMBDA sum, v : sum + threat[v.id], 0, SetToSeq(threats))
=============================================================================
