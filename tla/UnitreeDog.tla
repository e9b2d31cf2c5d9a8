------------------------------ MODULE UnitreeDog -----------------------------
(***************************************************************************)
(* UnitreeDog, its four UnitreeLegs and their UnitreeMotors: what is sent  *)
(* to each motor, and the kinematics of the legs.  Angles are whole        *)
(* quarter turns, of which sines and cosines are whole numbers; lengths    *)
(* are whole numbers, positions and the like are <<x, y, z>>, and matrices *)
(* are sequences of rows.                                                  *)
(***************************************************************************)
EXTENDS Integers, Sequences, SequencesExt

Sin(k) == CASE k % 4 = 1 -> 1 [] k % 4 = 3 -> -1 [] OTHER -> 0
Cos(k) == Sin(k + 1)
Abs(n) == IF n < 0 THEN -n ELSE n

(* The angle of a vector that lies along an axis; 0 for the zero vector.   *)
Atan2(y, x) == IF y > 0 THEN 1 ELSE IF y < 0 THEN -1 ELSE IF x < 0 THEN 2 ELSE 0
Acos(c) == 1 - c
Sqrt(n) == CHOOSE r \in 0..n : r * r <= n /\ (r + 1) * (r + 1) > n

Plus(u, v) == [k \in 1..3 |-> u[k] + v[k]]
Minus(u, v) == [k \in 1..3 |-> u[k] - v[k]]
Times(M, v) == [r \in 1..3 |-> M[r][1] * v[1] + M[r][2] * v[2] + M[r][3] * v[3]]
Transposed(M) == [r \in 1..3 |-> [c \in 1..3 |-> M[c][r]]]

-----------------------------------------------------------------------------
(* A motor, with the targets that stand for none.                          *)
kIdle == 0
kFoc == 1
q_zero_target == 2146000000
q_dot_zero_target == 16000
NewMotor == [mode |-> kIdle, q |-> 0, dq |-> 0, tau |-> 0, kp |-> 0, kd |-> 0]

SetMode(motor, mode) ==
  [mode |-> mode, q |-> IF mode = kIdle THEN 0 ELSE q_zero_target,
   dq |-> IF mode = kIdle THEN 0 ELSE q_dot_zero_target, tau |-> 0, kp |-> 0, kd |-> 0]

SetGains(motor, kp, kd) == [motor EXCEPT !.kp = kp, !.kd = kd]
SetTarget(motor, q, dq, tau) == [motor EXCEPT !.q = q, !.dq = dq, !.tau = tau]

-----------------------------------------------------------------------------
(* Legs: the hip link points to the side the leg is on.                    *)
kFrontRight == 0
kFrontLeft == 1
kRearRight == 2
kRearLeft == 3
Legs == 0..3

(* Any profile with hip, thigh and calf links; GetGo2Profile has the legs  *)
(* off the body by offsets of the signs that these have.                   *)
Profile == [hip |-> 1, thigh |-> 2, calf |-> 2]
body_to_leg_offsets ==
  [i \in Legs |-> <<IF i \in {kFrontRight, kFrontLeft} THEN 4 ELSE -4,
                    IF i \in {kFrontRight, kRearRight} THEN -1 ELSE 1, 0>>]

NewLeg(i) ==
  [l1 |-> IF i \in {kFrontRight, kRearRight} THEN -Profile.hip ELSE Profile.hip,
   l2 |-> -Profile.thigh, l3 |-> -Profile.calf, motors |-> [j \in 1..3 |-> NewMotor]]

Enable(leg) == [leg EXCEPT !.motors = [j \in 1..3 |-> SetMode(@[j], kFoc)]]

SetLegGains(leg, kp, kd) ==
  [leg EXCEPT !.motors = [j \in 1..3 |-> SetGains(@[j], kp[j], kd[j])]]
SetJointTarget(leg, q, q_dot, tau) ==
  [leg EXCEPT !.motors = [j \in 1..3 |-> SetTarget(@[j], q[j], q_dot[j], tau[j])]]

GetFootPosition(leg, q) ==
  LET reach == leg.l3 * Cos(q[2] + q[3]) + leg.l2 * Cos(q[2])
  IN  <<leg.l3 * Sin(q[2] + q[3]) + leg.l2 * Sin(q[2]),
        leg.l1 * Cos(q[1]) - reach * Sin(q[1]),
        leg.l1 * Sin(q[1]) + reach * Cos(q[1])>>

GetJacobian(leg, q) ==
  LET s23 == leg.l3 * Sin(q[2] + q[3])
      c23 == leg.l3 * Cos(q[2] + q[3])
      s2 == s23 + leg.l2 * Sin(q[2])
      c2 == c23 + leg.l2 * Cos(q[2])
  IN  <<<<0, c2, c23>>,
        <<-Cos(q[1]) * c2 - leg.l1 * Sin(q[1]), Sin(q[1]) * s2, Sin(q[1]) * s23>>,
        <<-Sin(q[1]) * c2 + leg.l1 * Cos(q[1]), -Cos(q[1]) * s2, -Cos(q[1]) * s23>>>>

GetFootVelocity(leg, q, q_dot) == Times(GetJacobian(leg, q), q_dot)

(* The knee always bends backwards, and a foot out of reach is taken for   *)
(* one that the stretched leg reaches.  One nearer to the axis of the hip  *)
(* than the hip link is long has no angles.                                *)
GetJointPosition(leg, pos) ==
  LET x == pos[1]
      y == pos[2]
      z == pos[3]
      L == Sqrt(y * y + z * z - leg.l1 * leg.l1)
      q1 == Atan2(z * leg.l1 + y * L, y * leg.l1 - z * L)
      over == leg.l2 * leg.l2 + leg.l3 * leg.l3 - (x * x + y * y + z * z - leg.l1 * leg.l1)
      under == 2 * Abs(leg.l2 * leg.l3)
      temp == IF over > under THEN 1 ELSE IF over < -under THEN -1 ELSE over \div under
      q3 == Acos(temp) - 2
      m1 == leg.l3 * Sin(q3)
      m2 == leg.l2 + leg.l3 * Cos(q3)
      a1 == y * Sin(q1) - z * Cos(q1)
  IN  <<q1, Atan2(a1 * m1 + x * m2, x * m1 - a1 * m2), q3>>

(* The inverse of the Jacobian, where it has one: velocities of joints are *)
(* small whole numbers here.                                               *)
GetJointVelocityQ(leg, q, vel) ==
  CHOOSE q_dot \in (-2..2) \X (-2..2) \X (-2..2) : Times(GetJacobian(leg, q), q_dot) = vel
GetJointVelocity(leg, pos, vel) == GetJointVelocityQ(leg, GetJointPosition(leg, pos), vel)

GetJointTorqueQ(leg, q, f) == Times(Transposed(GetJacobian(leg, q)), f)
GetJointTorque(leg, pos, f) == GetJointTorqueQ(leg, GetJointPosition(leg, pos), f)

SetFootTarget(leg, pos, vel, f) ==
  SetJointTarget(leg, GetJointPosition(leg, pos), GetJointVelocity(leg, pos, vel),
                 GetJointTorque(leg, pos, f))

-----------------------------------------------------------------------------
(* The dog: variables of all joints are sequences of twelve, three of each *)
(* leg in the order of the legs.                                           *)
Segment(all, i) == SubSeq(all, 3 * i + 1, 3 * i + 3)
AllOf(part) == part[0] \o part[1] \o part[2] \o part[3]

InitCommand == [i \in Legs |-> Enable(NewLeg(i))]

SetJointGains(dog, kp, kd) == [i \in Legs |-> SetLegGains(dog[i], Segment(kp, i), Segment(kd, i))]

SetJointCommand(dog, q, q_dot, tau) ==
  [i \in Legs |-> SetJointTarget(dog[i], Segment(q, i), Segment(q_dot, i), Segment(tau, i))]

(* The motor commands of a message.                                        *)
SendCommandToRobot(dog) == AllOf([i \in Legs |-> dog[i].motors])

(* Frames: kBase is the body's, kLeg that of the leg's hip.                *)
DogFootPosition(dog, i, q, frame) ==
  LET pos == GetFootPosition(dog[i], q)
  IN  IF frame = "kBase" THEN Plus(pos, body_to_leg_offsets[i]) ELSE pos

InLeg(i, pos, frame) == IF frame = "kBase" THEN Minus(pos, body_to_leg_offsets[i]) ELSE pos

AllFootPositions(dog, q, frame) == [i \in Legs |-> DogFootPosition(dog, i, Segment(q, i), frame)]
AllFootVelocities(dog, q, q_dot) ==
  [i \in Legs |-> GetFootVelocity(dog[i], Segment(q, i), Segment(q_dot, i))]
AllJointPositions(dog, foot_pos, frame) ==
  AllOf([i \in Legs |-> GetJointPosition(dog[i], InLeg(i, foot_pos[i], frame))])
AllJointTorques(dog, q, foot_force) ==
  AllOf([i \in Legs |-> GetJointTorqueQ(dog[i], Segment(q, i), foot_force[i])])

-----------------------------------------------------------------------------
(* MatrixHelper: turns by roll, pitch and yaw, and motions [R, p].         *)
Row(M, v) == [c \in 1..3 |-> v[1] * M[1][c] + v[2] * M[2][c] + v[3] * M[3][c]]
Product(M, N) == [r \in 1..3 |-> Row(N, M[r])]
RotX(k) == <<<<1, 0, 0>>, <<0, Cos(k), -Sin(k)>>, <<0, Sin(k), Cos(k)>>>>
RotY(k) == <<<<Cos(k), 0, Sin(k)>>, <<0, 1, 0>>, <<-Sin(k), 0, Cos(k)>>>>
RotZ(k) == <<<<Cos(k), -Sin(k), 0>>, <<Sin(k), Cos(k), 0>>, <<0, 0, 1>>>>
RpyToRotMatrix(roll, pitch, yaw) == Product(Product(RotZ(yaw), RotY(pitch)), RotX(roll))

CreateHomoMatrix(R, p) == [R |-> R, p |-> p]
GetHomoMatrixInverse(H) ==
  [R |-> Transposed(H.R), p |-> Minus(<<0, 0, 0>>, Times(Transposed(H.R), H.p))]
ApplyHomoMatrix(H, p) == Plus(Times(H.R, p), H.p)
GetSkewSymmetricMatrix(m) == <<<<0, -m[3], m[2]>>, <<m[3], 0, -m[1]>>, <<-m[2], m[1], 0>>>>

(* The direction of the rotation vector and twice the cosine of its angle: *)
(* half a turn takes the first row, and divides by zero when the axis has  *)
(* no part along x.                                                        *)
GetExponentialMap(R) ==
  LET cos2 == R[1][1] + R[2][2] + R[3][3] - 1
  IN  CASE cos2 = 2 -> [cos2 |-> cos2, axis |-> <<0, 0, 0>>, defined |-> TRUE]
        [] cos2 = -2 -> [cos2 |-> cos2, axis |-> <<R[1][1] + 1, R[1][2], R[1][3]>>,
                         defined |-> R[1][1] # -1]
        [] OTHER -> [cos2 |-> cos2, defined |-> TRUE,
                     axis |-> <<R[3][2] - R[2][3], R[1][3] - R[3][1], R[2][1] - R[1][2]>>]
=============================================================================
