-------------------------------- MODULE Swerve -------------------------------
(***************************************************************************)
(* The bases that turn a motion of the body into commands of their wheels: *)
(* SwerveDriveKinematics and SwerveDriveRobot of src/control/robot_base    *)
(* with the WsSbotBase that owns them, and DifferentialDriveRobot with its *)
(* groups of actuators.  Lengths and velocities are whole numbers of some  *)
(* unit; the angle of a wheel is a vector that points along it, and speeds *)
(* are compared by their squares, so that nothing is rounded.              *)
(***************************************************************************)
EXTENDS Integers, Sequences, SequencesExt, FiniteSetsExt

Abs(n) == IF n < 0 THEN -n ELSE n
Sign(n) == IF n < 0 THEN -1 ELSE IF n > 0 THEN 1 ELSE 0
Dot(u, v) == u.x * v.x + u.y * v.y
Minus(v) == [x |-> -v.x, y |-> -v.y]

Wheels == 0..3
kFrontRight == 0
kFrontLeft == 1
kRearLeft == 2
kRearRight == 3

(* Parameters: wheel_base and track_width, the deadbands, and whether the  *)
(* wheels are steered through a whole turn (k2PI) or half of one (kPI).    *)
-----------------------------------------------------------------------------
(* The columns of coeff_matrix_ for the turning: rx_ is half of wheel_base *)
(* and is added to the forward velocity, ry_ is half of track_width.       *)
TurningX(p, i) == IF i \in {kFrontRight, kRearRight} THEN p.wheel_base \div 2 ELSE -(p.wheel_base \div 2)
TurningY(p, i) == IF i \in {kFrontRight, kFrontLeft} THEN p.track_width \div 2 ELSE -(p.track_width \div 2)

WheelVelocity(p, twist, i) ==
  [x |-> twist.x + TurningX(p, i) * twist.wz, y |-> twist.y + TurningY(p, i) * twist.wz]

Ahead == [x |-> 1, y |-> 0]

(* atan of y / x looks ahead, or exactly to a side; atan2 anywhere.        *)
SteeringAngle(p, v) ==
  IF Abs(v.x) < p.linear_vel_deadband /\ Abs(v.y) < p.linear_vel_deadband THEN Ahead
  ELSE IF p.range = "kPI" /\ v.x < 0 THEN Minus(v)
  ELSE v

wheel_signs_ == <<1, -1, -1, 1>>

DriveSign(p, twist, angle, i) ==
  IF Dot(twist, twist) < p.linear_vel_deadband * p.linear_vel_deadband
  THEN Sign(twist.wz) * wheel_signs_[i + 1]
  ELSE IF Dot(twist, angle) > 0 THEN 1 ELSE -1

(* The speed of a wheel has the sign and the square that are given.        *)
ComputeWheelCommands(p, twist) ==
  [i \in Wheels |->
     LET v == WheelVelocity(p, twist, i)
         angle == SteeringAngle(p, v)
     IN  [angle |-> angle, sign |-> DriveSign(p, twist, angle, i), square |-> Dot(v, v)]]

Filtered(p, twist) ==
  [x |-> IF Abs(twist.x) < p.linear_vel_deadband THEN 0 ELSE twist.x,
   y |-> IF Abs(twist.y) < p.linear_vel_deadband THEN 0 ELSE twist.y,
   wz |-> IF Abs(twist.wz) < p.angular_vel_deadband THEN 0 ELSE twist.wz]

(* Update: how far each wheel still has to turn, in degrees.               *)
AngleErrors(angles, positions) ==
  [i \in Wheels |->
     LET error == angles[i] - positions[i]
     IN  IF error > 180 THEN error - 360 ELSE IF error < -180 THEN error + 360 ELSE error]

(* The factor of the speeds is under a half when the largest error, taken  *)
(* with its sign, is above 0.145: eight degrees.                           *)
Slowed(errors) == Max({errors[i] : i \in Wheels}) > 8

(* What SetDrivingCommand gives the motors, or nothing without any: the    *)
(* right wheels of a WsSbotBase run backwards.                             *)
SetDrivingCommand(config, speeds) ==
  IF ~config.driving_motors THEN <<>>
  ELSE [k \in 1..4 |->
          IF \/ config.reverse_left_wheels /\ k - 1 \in {kFrontLeft, kRearLeft}
             \/ config.reverse_right_wheels /\ k - 1 \in {kFrontRight, kRearRight}
          THEN -speeds[k - 1] ELSE speeds[k - 1]]

(* WsSbotBase: the motors 1..4 are registered with both arrays; without    *)
(* either connection there is no robot, and the steering is tried first.   *)
NoBase == [robot |-> FALSE, steering |-> <<>>, driving |-> <<>>]

Initialize(base, steering, driving) ==
  [base EXCEPT !.steering = <<1, 2, 3, 4>>,
               !.driving = IF steering THEN <<1, 2, 3, 4>> ELSE <<>>,
               !.robot = steering /\ driving]

SbotConfig ==
  [driving_motors |-> TRUE,
   reverse_left_wheels |-> FALSE, reverse_right_wheels |-> TRUE]

BaseDrivingCommand(base, speeds) ==
  IF base.robot THEN SetDrivingCommand(SbotConfig, speeds) ELSE <<>>

-----------------------------------------------------------------------------
(* SpeedActuatorGroup: speeds are tenths of a turn per minute.  The sum is *)
(* an int64_t, which drops the tenths of each addition, and the number of  *)
(* actuators a size_t, which makes the sum unsigned.                       *)
WORD == 1048576 \* stands for 2^64

SetSpeed(group, rpm) == [a \in DOMAIN group |-> rpm]

GetSpeed(group) ==
  LET add(sum, rpm) == LET s == sum * 10 + rpm IN Sign(s) * (Abs(s) \div 10)
  IN  (FoldLeft(add, 0, group) % WORD) \div Len(group)

(* The speeds of the rims of both wheels, in tenths of a turn a minute.    *)
WheelSpeeds(c, linear, angular) ==
  [left |-> linear - angular * (c.track_width \div 2),
   right |-> linear + angular * (c.track_width \div 2)]

(* The groups after a command; they stay when one of them is missing.      *)
SetDifferentialCommand(c, groups, linear, angular) ==
  LET v == IF Abs(linear) < c.linear_vel_deadband THEN 0 ELSE linear
      w == IF Abs(angular) < c.angular_vel_deadband THEN 0 ELSE angular
      speeds == WheelSpeeds(c, v, w)
  IN  IF groups.left = <<>> \/ groups.right = <<>> THEN groups
      ELSE [left |-> SetSpeed(groups.left, IF c.reverse_left_wheel THEN -speeds.left ELSE speeds.left),
            right |-> SetSpeed(groups.right, IF c.reverse_right_wheel THEN -speeds.right ELSE speeds.right)]

(* Twice the linear velocity, and the track width times the angular one,   *)
(* in turns a minute.                                                      *)
GetMotionState(c, groups) ==
  LET left == IF c.reverse_left_wheel THEN -GetSpeed(groups.left) ELSE GetSpeed(groups.left)
      right == IF c.reverse_right_wheel THEN -GetSpeed(groups.right) ELSE GetSpeed(groups.right)
  IN  [linear2 |-> left + right, angular |-> right - left]
=============================================================================
