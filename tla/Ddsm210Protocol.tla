--------------------------- MODULE Ddsm210Protocol ---------------------------
(***************************************************************************)
(* What Ddsm210, Ddsm210Frame and Ddsm210Array of src/driver/              *)
(* motor_waveshare make of their calls: the frames and their checksum, the *)
(* calls that wait for an answer while the io thread hears the motors, and *)
(* the registration of several motors on one line.  Speeds are in tenths   *)
(* of a turn per minute.                                                   *)
(***************************************************************************)
EXTENDS Integers, Sequences, SequencesExt, Bitwise

Word(value) == <<(value \div 256) % 256, value % 256>>

Int16(high, low) == IF high < 128 THEN high * 256 + low ELSE (high - 256) * 256 + low

Int8(byte) == IF byte < 128 THEN byte ELSE byte - 256

Clamp(value, low, high) ==
  IF value > high THEN high ELSE IF value < low THEN low ELSE value

(* CRC-8/MAXIM, one bit and one byte of it.                                *)
CrcBit(crc, i) == IF crc % 2 = 1 THEN (crc \div 2) ^^ 140 ELSE crc \div 2
CrcByte(crc, byte) == FoldLeft(CrcBit, crc ^^ byte, [i \in 1..8 |-> i])
CalculateChecksum(bytes) == FoldLeft(CrcByte, 0, SubSeq(bytes, 1, 9))

Sealed(bytes) == bytes \o <<CalculateChecksum(bytes)>>

-----------------------------------------------------------------------------
(* Commands.  A position, in degrees, has the speed's frame type.          *)
SPEED == 100
ODOM == 116
MODE_REQUEST == 117
MODE_SWITCH == 160
Zeros(n) == [i \in 1..n |-> 0]

(* A mutation: a speed is cut to 16 bits, not limited.                     *)
SetSpeedUnlimited(id, speed) == Sealed(<<id, SPEED>> \o Word(speed) \o Zeros(5))

SetSpeed(id, speed) == Sealed(<<id, SPEED>> \o Word(Clamp(speed, -2100, 2100)) \o Zeros(5))
SetPosition(id, position) ==
  Sealed(<<id, SPEED>> \o Word((Clamp(position, 0, 360) * 32767) \div 360) \o Zeros(5))
ApplyBrake(id) == Sealed(<<id, SPEED>> \o Zeros(5) \o <<255, 0>>)
ReleaseBrake(id) == Sealed(<<id, SPEED>> \o Zeros(7))
SetIdFrame(id) == Sealed(<<170, 85, 83, id>> \o Zeros(4) \o <<id>>)
SetModeFrame(id, mode) == Sealed(<<id, MODE_SWITCH, mode>> \o Zeros(6))
RequestOdom(id) == Sealed(<<id, ODOM>> \o Zeros(7))
RequestMode(id) == Sealed(<<id, MODE_REQUEST>> \o Zeros(7))

(* The constructor from received bytes: what the frame of one's own motor  *)
(* reports.  The checksum is an int8_t.                                    *)
Feedback(f) ==
  CASE f[2] = SPEED -> <<Int16(f[3], f[4]), Int16(f[5], f[6]), f[7], Int8(f[8])>>
    [] f[2] = ODOM -> <<Int16(f[3], f[4]) * 65536 + f[5] * 256 + f[6], f[7] * 256 + f[8], f[9]>>
    [] OTHER -> <<f[3]>>

IsValid(id, f) ==
  /\ CalculateChecksum(f) = f[10] /\ f[10] < 128
  /\ f[1] = id
  /\ f[2] \in {SPEED, ODOM, MODE_REQUEST, MODE_SWITCH}

-----------------------------------------------------------------------------
(* A motor's object, and what ProcessFeedback does to it with the data of  *)
(* a valid frame.                                                          *)
NewMotor(id) == [id |-> id, mode |-> 0, rpm |-> 0, odom |-> 0, ack |-> FALSE]

Processed(motor, frame) ==
  CASE frame.id # motor.id -> motor
    [] frame.type = SPEED -> [motor EXCEPT !.ack = TRUE, !.rpm = frame.value]
    [] frame.type = ODOM -> [motor EXCEPT !.odom = frame.value]
    [] frame.type = MODE_REQUEST -> [motor EXCEPT !.mode = frame.value]
    [] OTHER -> motor

Heard(motor, frames) == FoldLeft(Processed, motor, frames)

(* SetMode, with the frames that are heard in each of its ten waits: it    *)
(* returns early when the motor has reported the mode, and TRUE anyhow.    *)
SetMode(motor, mode, heard) ==
  IF mode \notin {0, 2, 3} THEN [ok |-> FALSE, waits |-> 0, motor |-> motor]
  ELSE LET wait(s, frames) ==
             IF s.waits > 0 /\ s.motor.mode = mode THEN s
             ELSE [s EXCEPT !.waits = @ + 1, !.motor = Heard(@, frames)]
       IN  FoldLeft(wait, [ok |-> TRUE, waits |-> 0, motor |-> motor], heard)

(* A mutation: the flag is not cleared.                                    *)
SetMotorIdUncleared(motor, id, between, sending, heard) ==
  LET named == [motor EXCEPT !.id = id]
      wait(m, frames) == IF m.ack THEN m ELSE Heard(m, frames)
  IN  id # 170 /\ FoldLeft(wait, Heard(named, sending), Front(heard)).ack

(* SetMotorId: frames may be heard between the reset of the flag and the   *)
(* new id, while the command is sent, and in each of the ten waits, after  *)
(* the last of which the flag is not looked at again.                      *)
SetMotorId(motor, id, between, sending, heard) ==
  LET cleared == Heard([motor EXCEPT !.ack = FALSE], between)
      named == Heard([cleared EXCEPT !.id = id], sending)
      wait(m, frames) == IF m.ack THEN m ELSE Heard(m, frames)
  IN  id # 170 /\ FoldLeft(wait, named, Front(heard)).ack

-----------------------------------------------------------------------------
(* Ddsm210Array: the registered ids, in order; the motors; the speeds that *)
(* were sent; and whether a call had an effect that is not defined.        *)
NoMotors == [ids |-> <<>>, motors |-> {}, sent |-> <<>>, defined |-> TRUE]

Commanded(a, id, speed) ==
  IF id \in a.motors THEN [a EXCEPT !.sent = Append(@, <<id, speed>>)] ELSE a

(* The object a motor had before is destroyed, which stops the motor.      *)
RegisterMotor(a, id) ==
  LET stopped == Commanded(a, id, 0)
  IN  [stopped EXCEPT !.ids = Append(@, id), !.motors = @ \cup {id}]

UnregisterMotor(a, id) ==
  LET stopped == Commanded(a, id, 0)
  IN  [stopped EXCEPT !.ids = IF Contains(@, id) THEN RemoveFirst(@, id) ELSE @,
                      !.motors = @ \ {id}, !.defined = @ /\ Contains(a.ids, id)]

SetSpeeds(a, speeds) ==
  LET set(b, i) == IF i \in DOMAIN speeds THEN Commanded(b, b.ids[i], speeds[i])
                   ELSE [b EXCEPT !.defined = FALSE]
  IN  FoldLeft(set, a, [i \in DOMAIN a.ids |-> i])

(* ~Ddsm210Array stops every motor, and then each object does once more.   *)
Destroyed(a) ==
  LET stop(b, id) == Commanded(b, id, 0)
      all == SetToSeq(a.motors)
  IN  FoldLeft(stop, a, all \o all)

(* What the line says goes to every motor's object, and is asked for by an *)
(* id; a motor that is not registered has a mode of its own, and a speed   *)
(* and a count of 0.  The speeds come in the order of the registration.    *)
ProcessFeedback(objects, frame) == [id \in DOMAIN objects |-> Processed(objects[id], frame)]

kUnknown == 255
GetMode(objects, id) == IF id \in DOMAIN objects THEN objects[id].mode ELSE kUnknown
GetSpeed(objects, id) == IF id \in DOMAIN objects THEN objects[id].rpm ELSE 0
GetEncoderCount(objects, id) == IF id \in DOMAIN objects THEN objects[id].odom ELSE 0
GetSpeeds(a, objects) ==
  LET known == SelectSeq(a.ids, LAMBDA id : id \in DOMAIN objects)
  IN  [k \in DOMAIN known |-> objects[known[k]].rpm]
=============================================================================
