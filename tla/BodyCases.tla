------------------------------- MODULE BodyCases ------------------------------
(***************************************************************************)
(* What the bases on wheels and the legs are for, over bounded inputs; see *)
(* DriverCases.                                                            *)
(***************************************************************************)
EXTENDS Integers, Sequences, SequencesExt, FiniteSets, TLC

Base == INSTANCE Swerve
Dog == INSTANCE UnitreeDog
Ddsm == INSTANCE Ddsm210Protocol

-----------------------------------------------------------------------------
(* A base as wide as it is long, and one as narrow as the Sbot's.          *)
Params ==
  {[wheel_base |-> 4, track_width |-> w, linear_vel_deadband |-> 2, angular_vel_deadband |-> 2, range |-> r] :
     w \in {2, 4}, r \in {"kPI", "k2PI"}}

Drives ==
  [kind : {"drive"}, param : Params,
   twist : [x : {-9, -2, -1, 0, 1, 3}, y : {-3, 0, 1, 5}, wz : {-4, -1, 0, 1, 2}]]

Turns == [kind : {"steer"}, to : {-90, 0, 90}, at : [0..1 -> {-170, -81, -9, -8, 0, 8, 9, 91, 170}]]

Bases == [kind : {"base"}, steering : BOOLEAN, driving : BOOLEAN, speed : {-7, 0, 300}]

Differentials ==
  [kind : {"differential"}, left : 0..3, right : 0..2, reverse_left_wheel : BOOLEAN,
   reverse_right_wheel : BOOLEAN, linear : {-40, -3, 0, 2, 25, 107}, angular : {-20, -1, 0, 3, 18}]

Quarters == -1..2
LegPoses == [kind : {"leg"}, leg : 0..3, q : [1..3 -> Quarters], f : {<<1, 0, 0>>, <<0, 1, 2>>}]
DogPoses == [kind : {"dog"}, q : [1..3 -> Quarters], shift : {0, 7}]
Motions ==
  [kind : {"motion"}, rpy : [1..3 -> Quarters], p : {<<0, 0, 0>>, <<1, -2, 3>>}, v : {<<1, 0, 0>>, <<2, 3, -1>>}]

Inputs ==
  Drives \cup Turns \cup Bases \cup Differentials \cup LegPoses \cup DogPoses \cup Motions

-----------------------------------------------------------------------------
(* Where a wheel is, from the middle of the base.                          *)
Place(p, i) ==
  [x |-> (IF i \in {Base!kFrontRight, Base!kFrontLeft} THEN 1 ELSE -1) * (p.wheel_base \div 2),
   y |-> (IF i \in {Base!kFrontLeft, Base!kRearLeft} THEN 1 ELSE -1) * (p.track_width \div 2)]

(* A base that does not turn drives each wheel as it moves itself.  One    *)
(* that only turns, with wheels that are steered through half a turn,      *)
(* drives each wheel around its middle, and exactly so when it is as wide  *)
(* as it is long.  In a motion of both, a wheel that must not move against *)
(* the body is driven as it must move, and the others the other way.       *)
WheelsDrive(i) ==
  LET p == i.param
      t == Base!Filtered(p, i.twist)
      commands == Base!ComputeWheelCommands(p, t)
      velocity(k) == Base!WheelVelocity(p, t, k)
      moves(k) == \/ ~Base!Abs(velocity(k).x) < p.linear_vel_deadband
                  \/ ~Base!Abs(velocity(k).y) < p.linear_vel_deadband
      driven(k) == IF commands[k].sign = 1 THEN commands[k].angle ELSE Base!Minus(commands[k].angle)
      around(k) == Place(p, k).x * driven(k).y - Place(p, k).y * driven(k).x
      only == Base!Dot(t, t) < p.linear_vel_deadband * p.linear_vel_deadband
  IN  \A k \in Base!Wheels :
        /\ t = [x |-> 0, y |-> 0, wz |-> 0] => commands[k].square = 0
        /\ t.wz = 0 /\ moves(k) => driven(k) = [x |-> t.x, y |-> t.y]
        /\ only /\ p.range = "kPI" /\ moves(k) /\ t.wz # 0 =>
             /\ Base!Sign(around(k)) = Base!Sign(t.wz)
             /\ (p.wheel_base = p.track_width /\ t.x = 0 /\ t.y = 0) =>
                  driven(k) = [x |-> -t.wz * Place(p, k).y, y |-> t.wz * Place(p, k).x]
        /\ ~only /\ moves(k) /\ Base!Dot(t, velocity(k)) # 0 =>
             (driven(k) = velocity(k) <=> Base!Dot(t, velocity(k)) > 0)

(* The wheels are slowed exactly while one has more than eight degrees to  *)
(* turn to the left; one that must turn to the right slows nothing.        *)
WheelsWait(i) ==
  LET angles == [k \in Base!Wheels |-> i.to]
      positions == [k \in Base!Wheels |-> IF k \in 0..1 THEN i.at[k] ELSE i.to]
  IN  Base!Slowed(Base!AngleErrors(angles, positions))
        <=> \E k \in Base!Wheels : (angles[k] - positions[k]) % 360 \in 9..180

(* The speeds of the wheels reach the motors that are on them, those on    *)
(* the right turned the other way; without all of the motors none moves.   *)
MotorsDrive(i) ==
  LET base == Base!Initialize(Base!NoBase, i.steering, i.driving)
      array == FoldLeft(Ddsm!RegisterMotor, Ddsm!NoMotors, base.driving)
      sent == Ddsm!SetSpeeds(array, Base!BaseDrivingCommand(base, [k \in Base!Wheels |-> i.speed + k])).sent
  IN  IF base.robot
      THEN sent = <<<<1, -i.speed>>, <<2, i.speed + 1>>, <<3, i.speed + 2>>, <<4, -i.speed - 3>>>>
      ELSE Base!BaseDrivingCommand(base, [k \in Base!Wheels |-> i.speed]) = <<>>

(* As long as no actuator is told to turn backwards, the motion that is    *)
(* read back is the one that was commanded, to less than a turn a minute   *)
(* of each wheel.                                                          *)
MotionIsRead(i) ==
  LET c == [track_width |-> 4, linear_vel_deadband |-> 3, angular_vel_deadband |-> 2,
            reverse_left_wheel |-> i.reverse_left_wheel, reverse_right_wheel |-> i.reverse_right_wheel]
      still == [left |-> [a \in 1..i.left |-> 0], right |-> [a \in 1..i.right |-> 0]]
      groups == Base!SetDifferentialCommand(c, still, i.linear, i.angular)
      v == IF i.linear \in -2..2 THEN 0 ELSE i.linear
      w == IF i.angular \in -1..1 THEN 0 ELSE i.angular
      state == Base!GetMotionState(c, groups)
  IN  IF i.left = 0 \/ i.right = 0 THEN groups = still
      ELSE (\A rpm \in Range(groups.left) \cup Range(groups.right) : rpm >= 0) =>
             /\ 10 * state.linear2 - 2 * v \in -19..19
             /\ 10 * state.angular - 4 * w \in -19..19

-----------------------------------------------------------------------------
VDot(u, v) == u[1] * v[1] + u[2] * v[2] + u[3] * v[3]
Axis(k) == [j \in 1..3 |-> IF j = k THEN 1 ELSE 0]

(* The Jacobian is the derivative of the position of the foot - which a    *)
(* quarter turn to either side gives, as the position is linear in the     *)
(* sine and cosine of each angle; the torques do the work that the force   *)
(* at the foot does; joints that are found for a foot under its hip put it *)
(* there, and a left leg is a right one in the mirror.                     *)
LegMoves(i) ==
  LET leg == Dog!NewLeg(i.leg)
      pos(q) == Dog!GetFootPosition(leg, q)
      J == Dog!GetJacobian(leg, i.q)
      tau == Dog!GetJointTorqueQ(leg, i.q, i.f)
      under == Dog!Cos(i.q[2] + i.q[3]) + Dog!Cos(i.q[2]) >= 0
      mirrored(v, j) == [v EXCEPT ![j] = -@]
  IN  /\ \A k \in 1..3 :
           /\ Dog!Times(J, [j \in 1..3 |-> 2 * Axis(k)[j]])
                = Dog!Minus(pos([i.q EXCEPT ![k] = @ + 1]), pos([i.q EXCEPT ![k] = @ - 1]))
           /\ VDot(tau, Axis(k)) = VDot(i.f, Dog!GetFootVelocity(leg, i.q, Axis(k)))
      /\ under =>
           LET q == Dog!GetJointPosition(leg, pos(i.q))
               vel == Dog!GetFootVelocity(leg, q, <<1, 1, -1>>)
               motors == Dog!SetFootTarget(leg, pos(i.q), vel, i.f).motors
               targets(field) == [k \in 1..3 |-> motors[k][field]]
           IN  /\ pos(targets("q")) = pos(i.q)
               /\ VDot(targets("tau"), targets("dq")) = VDot(i.f, vel)
      /\ i.leg \in {Dog!kFrontRight, Dog!kRearRight} =>
           Dog!GetFootPosition(Dog!NewLeg(i.leg + 1), mirrored(i.q, 1)) = mirrored(pos(i.q), 2)

(* Every motor is sent the targets and gains of its own joint, and feet    *)
(* that are put somewhere in the frame of the body are there; the torques  *)
(* of all joints do the work of the forces at all feet.                    *)
DogMoves(i) ==
  LET all(n) == [m \in 1..12 |-> 100 * n + m + i.shift]
      dog == Dog!SetJointCommand(Dog!SetJointGains(Dog!InitCommand, all(1), all(2)), all(3), all(4), all(5))
      q == i.q \o i.q \o i.q \o i.q
      feet == Dog!AllFootPositions(dog, q, "kBase")
      under == Dog!Cos(i.q[2] + i.q[3]) + Dog!Cos(i.q[2]) >= 0
      push == [l \in Dog!Legs |-> <<1, l, i.shift>>]
      velocities == Dog!AllFootVelocities(dog, q, all(1))
  IN  /\ \A m \in 1..12 :
           Dog!SendCommandToRobot(dog)[m] =
             [mode |-> Dog!kFoc, kp |-> all(1)[m], kd |-> all(2)[m],
              q |-> all(3)[m], dq |-> all(4)[m], tau |-> all(5)[m]]
      /\ under => Dog!AllFootPositions(dog, Dog!AllJointPositions(dog, feet, "kBase"), "kBase") = feet
      /\ FoldFunction(LAMBDA l, n : n + l, 0, [m \in 1..12 |-> Dog!AllJointTorques(dog, q, push)[m] * all(1)[m]])
           = FoldFunction(LAMBDA l, n : n + l, 0, [l \in Dog!Legs |-> VDot(push[l], velocities[l])])

(* A motion and its inverse undo each other, skew matrices take the cross  *)
(* product, and the rotation vector is along the axis and turns about it   *)
(* to the right way - where it is not a division by zero.                  *)
MotionsCompose(i) ==
  LET R == Dog!RpyToRotMatrix(i.rpy[1], i.rpy[2], i.rpy[3])
      H == Dog!CreateHomoMatrix(R, i.p)
      e == Dog!GetExponentialMap(R)
      cross(u, v) == <<u[2] * v[3] - u[3] * v[2], u[3] * v[1] - u[1] * v[3], u[1] * v[2] - u[2] * v[1]>>
  IN  /\ Dog!ApplyHomoMatrix(Dog!GetHomoMatrixInverse(H), Dog!ApplyHomoMatrix(H, i.v)) = i.v
      /\ Dog!Times(Dog!GetSkewSymmetricMatrix(i.p), i.v) = cross(i.p, i.v)
      /\ e.defined => /\ Dog!Times(R, e.axis) = e.axis
                      /\ e.cos2 # 2 => e.axis # <<0, 0, 0>>
                      /\ VDot(e.axis, cross(i.v, Dog!Times(R, i.v))) >= 0

(* Everything above.                                                       *)
CommandsArrive(i) ==
  CASE i.kind = "drive" -> WheelsDrive(i)
    [] i.kind = "steer" -> WheelsWait(i)
    [] i.kind = "base" -> MotorsDrive(i)
    [] i.kind = "differential" -> MotionIsRead(i)
    [] i.kind = "leg" -> LegMoves(i)
    [] i.kind = "dog" -> DogMoves(i)
    [] i.kind = "motion" -> MotionsCompose(i)
    [] OTHER -> TRUE
=============================================================================
