----------------------------- MODULE ScsProtocol -----------------------------
(***************************************************************************)
(* The wire format of the SCS serial servo bus, src/driver/motor_waveshare *)
(* src/servo: how requests become bytes, which answers are accepted, how   *)
(* signed values travel in 16 bits, and where the driver finds the answer  *)
(* of one servo in what all servos answered to a synchronous read.         *)
(***************************************************************************)
EXTENDS Integers, Sequences, SequencesExt

WRITE == 3
REG_WRITE == 4
REG_ACTION == 5
SYNC_READ == 130
SYNC_WRITE == 131
BROADCAST == 254

(* u8 arithmetic: sums wrap, and ~sum is the complement of what is left.   *)
Sum(bytes) == FoldSeq(+, 0, bytes) % 256

Complement(byte) == 255 - byte

-----------------------------------------------------------------------------
Host2SCS(end, word) ==
  IF end = 1 THEN <<word \div 256, word % 256>> ELSE <<word % 256, word \div 256>>

SCS2Host(end, low, high) ==
  IF end = 1 THEN low * 256 + high ELSE high * 256 + low

(* A negative s16 becomes its magnitude with the sign bit set, s16 again.  *)
SignMagnitude(bit, value) ==
  IF value < 0 /\ bit # 0 THEN 2^bit + (-value % 2^bit) ELSE value % 65536

(* The bit is looked at and cleared; the bits above it stay.               *)
Signed(bit, word) ==
  IF bit # 0 /\ (word \div 2^bit) % 2 = 1 THEN 2^bit - word ELSE word

-----------------------------------------------------------------------------
(* A request without data has no address either, only in its checksum.     *)
WriteBuf(id, addr, data, fun) ==
  LET msgLen == IF data = <<>> THEN 2 ELSE 3 + Len(data)
      body == IF data = <<>> THEN <<>> ELSE <<addr>> \o data
  IN  <<255, 255, id, msgLen % 256, fun>> \o body
        \o <<Complement(Sum(<<id, msgLen, fun, addr>> \o data))>>

(* One packet for many servos: each id with its nLen bytes of data.        *)
SnycWrite(ids, addr, data) ==
  LET nLen == Len(data[1])
      mesLen == ((nLen + 1) * Len(ids) + 4) % 256
      rows == FlattenSeq([i \in DOMAIN ids |-> <<ids[i]>> \o data[i]])
      body == <<BROADCAST, mesLen, SYNC_WRITE, addr, nLen>> \o rows
  IN  <<255, 255>> \o body \o <<Complement(Sum(body))>>

SyncReadRequest(ids, addr, nLen) ==
  LET body == <<BROADCAST, Len(ids) + 4, SYNC_READ, addr, nLen>> \o ids
  IN  <<255, 255>> \o body \o <<Complement(Sum(body))>>

(* What a servo makes of a request for it, and what it answers.            *)
Heard(bytes) ==
  /\ Len(bytes) >= 6 /\ bytes[1] = 255 /\ bytes[2] = 255
  /\ Len(bytes) = bytes[4] + 4
  /\ Sum(SubSeq(bytes, 3, Len(bytes))) = 255

Answer(id, error, data) ==
  LET body == <<id, Len(data) + 2, error>> \o data
  IN  <<255, 255>> \o body \o <<Complement(Sum(body))>>

ChecksumOk(bytes) ==
  Complement(Sum(SubSeq(bytes, 3, Len(bytes) - 1))) = Last(bytes)

HeaderOk(bytes) == bytes[1] = 255 /\ bytes[2] = 255

(* Ack, and Ping whose broadcast takes anybody's answer: six bytes.        *)
AckOk(id, bytes) ==
  /\ Len(bytes) = 6 /\ HeaderOk(bytes)
  /\ bytes[3] = id
  /\ bytes[4] = 2 /\ ChecksumOk(bytes)

PingOk(id, bytes) ==
  /\ Len(bytes) = 6 /\ HeaderOk(bytes)
  /\ bytes[3] = id \/ id = BROADCAST
  /\ bytes[4] = 2 /\ ChecksumOk(bytes)

(* Read looks neither at the id nor at the length in the answer.           *)
ReadOk(nLen, bytes) ==
  Len(bytes) = nLen + 6 /\ HeaderOk(bytes) /\ ChecksumOk(bytes)

ReadData(nLen, bytes) == SubSeq(bytes, 6, 5 + nLen)

-----------------------------------------------------------------------------

(* syncReadPacketRx: the servo's data in what all of them answered.  The   *)
(* result is the data, <<>>, or <<-1>> when bytes behind the buffer        *)
(* were read.  From index at (bytes read so far) on, a header is 0xff 0xff *)
(* and another byte, the id; the search ends at the end of the buffer.     *)
HeaderEnd(buff, at) ==
  LET ends == {i \in at + 3..Len(buff) :
                 buff[i - 2] = 255 /\ buff[i - 1] = 255 /\ buff[i] # 255}
  IN  IF ends = {} THEN Len(buff)
      ELSE CHOOSE i \in ends : \A j \in ends : i <= j

SyncReadPacketRx(id, nLen, buff) ==
  LET from[at \in 0..Len(buff) + 1] ==
        IF at + 6 + nLen > Len(buff) THEN <<>>
        ELSE LET h == HeaderEnd(buff, at)
             IN  IF buff[h] # id THEN from[h]
                 ELSE IF h + 1 > Len(buff) THEN <<-1>>
                 ELSE IF buff[h + 1] # nLen + 2 THEN from[h + 1]
                 ELSE IF h + 3 + nLen > Len(buff) THEN <<-1>>
                 ELSE IF Complement(Sum(SubSeq(buff, h, h + 2 + nLen)))
                           # buff[h + 3 + nLen] THEN <<>>
                 ELSE SubSeq(buff, h + 3, h + 2 + nLen)
  IN  from[0]

-----------------------------------------------------------------------------
(* The four families of servos: the tables of their memory, what a command *)
(* writes where, and the present state, which is read at once into the     *)
(* memory of the object that stands for the servo, or value by value.      *)
(* Addresses; of words, those of the first byte.                           *)
SmsStsTable ==
  [ID |-> 5, BAUD_RATE |-> 6, MIN_ANGLE_LIMIT |-> 9, MAX_ANGLE_LIMIT |-> 11,
   OFS |-> 31, MODE |-> 33, TORQUE_ENABLE |-> 40, ACC |-> 41, GOAL_POSITION |-> 42,
   GOAL_TIME |-> 44, GOAL_SPEED |-> 46, LOCK |-> 55, PRESENT_POSITION |-> 56,
   PRESENT_SPEED |-> 58, PRESENT_LOAD |-> 60, PRESENT_VOLTAGE |-> 62,
   PRESENT_TEMPERATURE |-> 63, MOVING |-> 66, PRESENT_CURRENT |-> 69]

SmsblTable == [SmsStsTable EXCEPT !.OFS = 31, !.MODE = 33, !.LOCK = 55]
SmsclTable == [SmsStsTable EXCEPT !.OFS = 33, !.MODE = 35, !.LOCK = 48]
ScsclTable ==
  [a \in (DOMAIN SmsStsTable) \ {"OFS", "MODE", "ACC"} |-> IF a = "LOCK" THEN 48 ELSE SmsStsTable[a]]

Bytes == {"ID", "BAUD_RATE", "MODE", "TORQUE_ENABLE", "ACC", "LOCK", "PRESENT_VOLTAGE",
          "PRESENT_TEMPERATURE", "MOVING"}
Size(what) == IF what \in Bytes THEN 1 ELSE 2

(* The sign bit of what is present; none: unsigned.                        *)
PresentSigns(position) ==
  [a \in {"PRESENT_POSITION", "PRESENT_SPEED", "PRESENT_LOAD", "PRESENT_VOLTAGE",
          "PRESENT_TEMPERATURE", "MOVING", "PRESENT_CURRENT"} |->
     CASE a = "PRESENT_POSITION" -> position
       [] a \in {"PRESENT_SPEED", "PRESENT_CURRENT"} -> 15
       [] a = "PRESENT_LOAD" -> 10
       [] OTHER -> 0]

SmsStsPresent == PresentSigns(15)
SmsblPresent == PresentSigns(15)
SmsclPresent == PresentSigns(15)
ScsclPresent == PresentSigns(0)

(* The byte order of words, the sign bit of a position command, where it   *)
(* begins and how many bytes it has.                                       *)
SMS_STS == [end |-> 0, sign |-> 15, goal |-> "ACC", size |-> 7, table |-> SmsStsTable, present |-> SmsStsPresent]
SMSBL   == [end |-> 0, sign |-> 15, goal |-> "ACC", size |-> 7, table |-> SmsblTable, present |-> SmsblPresent]
SMSCL   == [end |-> 0, sign |-> 15, goal |-> "ACC", size |-> 7, table |-> SmsclTable, present |-> SmsclPresent]
SCSCL   == [end |-> 1, sign |-> 0, goal |-> "GOAL_POSITION", size |-> 6, table |-> ScsclTable,
            present |-> ScsclPresent]

-----------------------------------------------------------------------------
(* WritePosEx and its kin: acceleration, position, time 0 and speed.       *)
PositionData(family, position, speed, acc) ==
  (IF family.size = 7 THEN <<acc>> ELSE <<>>)
    \o Host2SCS(family.end, SignMagnitude(family.sign, position))
    \o <<0, 0>> \o Host2SCS(family.end, speed)

(* RegWritePosEx: the servos keep the command, and all obey RegWriteAction.*)
RegWritePosEx(family, id, position, speed, acc) ==
  <<WriteBuf(id, family.table[family.goal], PositionData(family, position, speed, acc), REG_WRITE),
    WriteBuf(BROADCAST, 0, <<>>, REG_ACTION)>>

(* The other commands, each the address and the data of what it writes, in *)
(* order.  A calibration is a torque of its own; without a mode, SCSCL     *)
(* turns freely when its limits are nought.                                *)
WriteSpe(family, speed, acc) ==
  <<<<family.table.ACC, <<acc>>>>,
    <<family.table.GOAL_SPEED, Host2SCS(family.end, SignMagnitude(15, speed))>>>>
WheelMode(family) == <<<<family.table.MODE, <<1>>>>>>
CalibrationOfs(family) == <<<<family.table.TORQUE_ENABLE, <<128>>>>>>
PWMMode(family) == <<<<family.table.MIN_ANGLE_LIMIT, <<0, 0, 0, 0>>>>>>
WritePWM(family, pwmOut) ==
  <<<<family.table.GOAL_TIME, Host2SCS(family.end, SignMagnitude(10, pwmOut))>>>>

-----------------------------------------------------------------------------
(* The object for a servo: the memory that FeedBack fills, and whether the *)
(* last call that says so has failed.  An answer that was not found is the *)
(* empty sequence.                                                         *)
MemSize(family) == family.table.PRESENT_CURRENT + 2 - family.table.PRESENT_POSITION
NewServo(family) == [mem |-> [n \in 1..MemSize(family) |-> 0], Err |-> 0]

FeedBack(family, servo, answer) ==
  IF Len(answer) = MemSize(family) THEN [mem |-> answer, Err |-> 0]
  ELSE [servo EXCEPT !.Err = 1]

(* ReadPos, ReadSpeed, ... with id -1, of the memory: the error is that of *)
(* the call before, and after one the sign bit is left where it is.        *)
Value(family, bytes, sign) ==
  IF Len(bytes) = 1 THEN bytes[1] ELSE Signed(sign, SCS2Host(family.end, bytes[1], bytes[2]))

ReadMem(family, what, servo) ==
  LET at == family.table[what] - family.table.PRESENT_POSITION
  IN  Value(family, SubSeq(servo.mem, at + 1, at + Size(what)),
            IF servo.Err = 1 THEN 0 ELSE family.present[what])

(* ... and with an id, from the servo.  The error is set back.             *)
ReadServo(family, what, servo, answer) ==
  IF Len(answer) # Size(what) THEN [value |-> -1, servo |-> [servo EXCEPT !.Err = 1]]
  ELSE [value |-> Value(family, answer, family.present[what]), servo |-> [servo EXCEPT !.Err = 0]]
=============================================================================
