----------------------------- MODULE MCInputHid ------------------------------
(* Instances of InputHid for TLC.                                          *)
EXTENDS InputHid

Event(type, code, value) == [type |-> type, code |-> code, value |-> value]

(* The last button is pressed, an axis moves, and the d-pad, whose code is *)
(* out of range, is pressed; a key repeats, and one without a name is      *)
(* released.                                                               *)
MCEvents ==
  [js |-> {Event("key", 318, 1), Event("abs", 0, 4), Event("key", 544, 1)},
   kb |-> {Event("key", 30, 2), Event("key", 240, 0)}]

MCKeycodeMap == [k \in {30} |-> "kA"]

MCAxisRange == [a \in {0} |-> <<0, 4>>]
=============================================================================
