----------------------------- MODULE MCAlgorithms -----------------------------
(***************************************************************************)
(* The planners that search by sampling, and the pure algorithms: from the *)
(* initial state either a search begins or an input is chosen, on which    *)
(* the algorithm of its kind is checked against what it is for.            *)
(***************************************************************************)
EXTENDS Sampling, FiniteSets

(* A square of 3 by 3 points with one on a side taken; the distance is     *)
(* what has to be walked along the axes.                                   *)
MCPoints == (0..2) \X (0..2)

MCStart == <<0, 1>>
MCGoal == <<2, 2>>
Obstacle == <<1, 2>>

Abs(x) == IF x < 0 THEN -x ELSE x

MCDistance ==
  [p \in MCPoints \X MCPoints |->
     Abs(p[1][1] - p[2][1]) + Abs(p[1][2] - p[2][2])]

MCFreeStates == MCPoints \ {Obstacle}

(* No way leads over the obstacle.                                         *)
MCFreePaths ==
  {p \in MCPoints \X MCPoints :
     MCDistance[p[1], Obstacle] + MCDistance[Obstacle, p[2]] # MCDistance[p]}

-----------------------------------------------------------------------------
Driver == INSTANCE DriverCases
Body == INSTANCE BodyCases
Planning == INSTANCE PlanningCases
Prediction == INSTANCE PredictionCases
System == INSTANCE SystemCases

VARIABLE input \* none, or a case of the kind that is named in it

Inputs ==
  Driver!Inputs \cup Body!Inputs \cup Planning!Inputs \cup Prediction!Inputs \cup System!Inputs

Choose ==
  /\ pos = <<Start>> /\ ~done /\ planner = "RRT" /\ input.kind = "none"
  /\ input' \in Inputs
  /\ UNCHANGED vars

Search == input.kind = "none" /\ Next /\ UNCHANGED input

AlgorithmsInit == Init /\ input = [kind |-> "none"]

AlgorithmsSpec == AlgorithmsInit /\ [][Choose \/ Search]_<<vars, input>>

-----------------------------------------------------------------------------
(* The decoders of the drivers: an answer, a frame or a report is found in *)
(* the bytes that were received exactly when it was sent and arrived as    *)
(* it was.                                                                 *)
FramesFound == Driver!FramesFound(input)

(* The encoders, the bases and the legs: a motor reads in the bytes of a   *)
(* command what was asked for, limited to what it allows; wheels and feet  *)
(* move the body as it was commanded; and the controller of the motors     *)
(* never has to unwind.                                                    *)
CommandsArrive ==
  /\ Driver!CommandsArrive(input) /\ Body!CommandsArrive(input)
  /\ input.kind = "pid" => Driver!NoWindup(input)

(* The calls of the motors' objects - Ddsm210, SMS_STS, MotorAkelcModbus,  *)
(* VescCanInterface and the arrays: an answer counts for the call it was   *)
(* heard in and the motor that gave it, a call succeeds when it was        *)
(* answered, and no motor is left turning.                                 *)
CallsKept == Driver!CallsKept(input)

(* SetMotorId of a DDSM210 waits for an ack with the new id: so says its   *)
(* comment.  A speed frame with the old id is taken for one when it is     *)
(* heard after the flag was reset and before the id is changed.            *)
AckIsOfNewId == input.kind = "call" => Driver!AckIsOfNewId(input)

(* The grids and lines: cells, ids, coordinates and copies name the same   *)
(* places.                                                                 *)
PlacesAgree == Planning!PlacesAgree(input)

(* The prediction of other vehicles: where they may be, and what they      *)
(* threaten, is what the motion of the vehicles makes it.                  *)
PredictionsHold == Prediction!PredictionsHold(input)

(* The files of the configuration, of matrices and of logs: what is loaded *)
(* or read is what the file says or was given, a file with a fault is not  *)
(* taken, and one that must not be written over is not.                    *)
FilesKept == System!FilesKept(input)

(* The searches: costs are lengths, a path is free and none is shorter;    *)
(* what is nearest in a k-d tree is found, and the tree of the standalone  *)
(* RRT* is sound.                                                          *)
SearchIsSound == CostsAreLengths /\ PathIsFree /\ PathIsBest /\ Planning!TreesHold(input)
=============================================================================
