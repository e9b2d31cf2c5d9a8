----------------------------- MODULE MCDdsm210 -------------------------------
(* Instances of Ddsm210 for TLC: frames of 3 bytes and a ring that holds 7,*)
(* so that a frame left behind and a long burst make it overflow.          *)
EXTENDS Ddsm210

(* Reports of this motor on both sides of the sign bit, and one of another *)
(* motor, which could as well be one of an unknown type.                   *)
FramesOnLine ==
  {[id |-> 1, type |-> "speed", checksum |-> 127],
   [id |-> 1, type |-> "odom", checksum |-> 128],
   [id |-> 2, type |-> "speed", checksum |-> 5]}
=============================================================================
