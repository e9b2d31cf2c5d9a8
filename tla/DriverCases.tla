------------------------------ MODULE DriverCases -----------------------------
(***************************************************************************)
(* What the protocols and controllers of the drivers are for, over bounded *)
(* inputs: each input is a record of the kind it is a case of, and each    *)
(* property is one of an input.                                            *)
(***************************************************************************)
EXTENDS Integers, Sequences, SequencesExt, FiniteSets, TLC

Scs == INSTANCE ScsProtocol
Sbus == INSTANCE SbusDecoder
Imu == INSTANCE ChSerial
Motor == INSTANCE MotorCommands
Ddsm == INSTANCE Ddsm210Protocol

(* A byte at a place of a sequence replaced, or taken out.                 *)
Garbled(bytes, i, byte) == [bytes EXCEPT ![i] = byte]
Lost(bytes, i) == SubSeq(bytes, 1, i - 1) \o SubSeq(bytes, i + 1, Len(bytes))

-----------------------------------------------------------------------------
Bytes == {0, 1, 128, 255}
Families == {Scs!SMS_STS, Scs!SMSBL, Scs!SMSCL, Scs!SCSCL}
Ids == {1, 2}

(* An answer of a servo with at most one byte garbled.                     *)
ScsAnswers ==
  [kind : {"answer"}, id : Ids, error : {0, 32}, data : {<<>>, <<7, 255>>},
   at : 0..8, byte : Bytes]

ScsPositions ==
  [kind : {"position"}, id : Ids, speed : {0, 300, 32767},
   position : {-32767, -4096, -256, -1, 0, 1, 255, 256, 4095, 32767}]

(* What servos 1 and 2 answer to a synchronous read: each may be silent or *)
(* garbled, and noise may come first.                                      *)
SyncAnswers ==
  [kind : {"sync"}, noise : {<<>>, <<255>>, <<0, 255>>}, present : SUBSET Ids,
   data : {<<0, 255>>, <<255, 0>>, <<2, 1>>}, bad : {0, 1, 2}, at : 3..8]

ChannelValues ==
  {[i \in 0..15 |-> 1024], [i \in 0..15 |-> IF i % 2 = 0 THEN 2047 ELSE 0],
   [i \in 0..15 |-> 100 * i + 17], [i \in 0..15 |-> 173]}

(* The end of a frame, a frame with or without a byte lost, and a frame.   *)
SbusStreams ==
  [kind : {"sbus"}, first : ChannelValues, second : ChannelValues,
   cut : {1, 2, 13, 25}, lost : {0, 1, 2, 12, 24, 25}]

(* The items acc, gyr, pressure, a whole IMUSOL and one cut short, between *)
(* noise: bytes that mean nothing, one sync byte, or a frame's beginning.  *)
Payloads ==
  {<<160, 1, 2, 3, 4, 5, 6>>,
   <<144, 9, 176, 3, 0, 0, 0, 0, 0>>,
   <<240, 5, 0, 0, 0, 77, 160, 8, 0, 0, 0, 0, 0>>}

ImuStreams ==
  [kind : {"imu"}, noise : {<<>>, <<0, 90>>, <<90, 90, 1>>, <<165>>}, first : Payloads,
   at : 0..12, byte : {0, 90, 255}, second : Payloads]

MotorCases ==
  [kind : {"motor"}, command : Motor!VescCommands, id : {0, 1, 104},
   value : {-200000, -32769, -1, 0, 1, 255, 1000, 1001, 20000, 32767, 100001, 2000000000}]

PidRuns ==
  [kind : {"pid"}, errors : [1..4 -> {-90, -3, 0, 5, 90}], ki : {1, 2}]

(* Reports of a motor with at most one byte garbled.                       *)
DdsmReports ==
  [kind : {"report"}, id : Ids, type : {100, 116, 117, 160},
   data : {<<0, 0, 0, 0, 0, 0, 0>>, <<255, 56, 0, 200, 1, 250, 0>>, <<2, 0, 0, 0, 0, 0, 3>>},
   at : 0..10, byte : Bytes]

DdsmSpeeds ==
  [kind : {"speed"}, id : Ids, speed : {-32000, -2101, -2100, -256, -1, 0, 5, 255, 2100, 2101}]

(* Frames that are heard during SetMotorId or SetMode of motor 1.          *)
DdsmFrames ==
  {<<>>} \cup {<<[type |-> t, id |-> id, value |-> 3]>> : t \in {100, 117}, id \in Ids}

DdsmCalls ==
  [kind : {"call"}, ack : BOOLEAN, between : DdsmFrames, sending : DdsmFrames,
   heard : DdsmFrames, wait : 1..10, mode : {1, 2, 3}]

DdsmUses ==
  [kind : {"use"},
   calls : UNION {[1..n -> {"register", "unregister"} \X Ids \cup {<<"speeds", 0>>}] : n \in 1..4}]

(* Calls of one servo's object: FeedBack and reads of the position, of     *)
(* which some get no answer.                                               *)
ServoUses ==
  [kind : {"servo"}, family : Families,
   calls : UNION {[1..n -> {"feedback", "missed", "read", "lost"}] : n \in 1..4}]

(* Frames on the bus of VESC 1 and 2: a status each, or something else.    *)
VescFrames ==
  [kind : {"vesc"}, frames : [1..3 -> {9, 15, 16, 27, 28} \X Ids]]

(* Uses of two Akelc drives on one line.                                   *)
AkelcUses ==
  [kind : {"akelc"}, lost : 1..4,
   calls : [1..4 -> {"open", "refused", "close"} \X {0} \cup {"rpm", "brake", "gains"} \X Ids]]

(* Frames that are heard by an array of the motors 2 and 1.                *)
DdsmLines ==
  [kind : {"reports"},
   frames : [1..3 -> [type : {100, 116, 117, 160}, id : {1, 2, 3}, value : {0}]]]

Inputs ==
  ScsAnswers \cup ScsPositions \cup SyncAnswers \cup SbusStreams \cup ImuStreams
    \cup MotorCases \cup PidRuns \cup DdsmReports \cup DdsmSpeeds \cup DdsmCalls \cup DdsmUses
    \cup ServoUses \cup VescFrames \cup AkelcUses \cup DdsmLines

IsGarbled(i) ==
  LET sent == Imu!ChFrame(i.first) IN i.at \in DOMAIN sent /\ sent[i.at] # i.byte

ReceivedFrame(i) ==
  IF IsGarbled(i) THEN Garbled(Imu!ChFrame(i.first), i.at, i.byte) ELSE Imu!ChFrame(i.first)

SbusStream(i) ==
  LET second == Sbus!SbusFrame(i.second, 192)
  IN  SubSeq(Sbus!SbusFrame(i.first, 0), i.cut, 25)
        \o (IF i.lost = 0 THEN second ELSE Lost(second, i.lost))
        \o Sbus!SbusFrame(i.first, 0) \o second

ImuStream(i) == i.noise \o ReceivedFrame(i) \o Imu!ChFrame(i.second)

-----------------------------------------------------------------------------
(* What is at an address of a servo that stands at a position, moving back.*)
At(f, position, a) ==
  LET word(sign, v) == Scs!Host2SCS(f.end, Scs!SignMagnitude(sign, v))
      words == [PRESENT_POSITION |-> word(15, position), PRESENT_SPEED |-> word(15, -300),
                PRESENT_LOAD |-> word(10, -(position % 1024)), PRESENT_VOLTAGE |-> <<120>>,
                PRESENT_TEMPERATURE |-> <<40>>, MOVING |-> <<1>>, PRESENT_CURRENT |-> word(15, -20)]
      here == {w \in DOMAIN words : a - f.table[w] \in 0..(Len(words[w]) - 1)}
  IN  IF here = {} THEN 0 ELSE LET w == CHOOSE w \in here : TRUE IN words[w][a - f.table[w] + 1]

PresentState(f, position) ==
  [n \in 1..Scs!MemSize(f) |-> At(f, position, f.table.PRESENT_POSITION + n - 1)]

(* A servo of any family hears the packet of a position command and reads  *)
(* in its bytes the position that was meant, negative ones included; so it *)
(* does with a speed and a PWM, which go to other addresses; no command    *)
(* reaches the id or the lock; and what a servo reports of its state comes *)
(* back as it was.                                                         *)
Reads(f, sign, write) == Scs!Signed(sign, Scs!SCS2Host(f.end, write[2][1], write[2][2]))

Reached(writes) ==
  UNION {write[1]..write[1] + Len(write[2]) - 1 : write \in ToSet(writes)}

Commanded(f, i) ==
  LET goal == <<f.table[f.goal], Scs!PositionData(f, i.position, i.speed, 50)>>
      both == Reached(<<goal>>) \cup Reached(Scs!WritePWM(f, i.speed)) \cup Reached(Scs!PWMMode(f))
                \cup Reached(Scs!CalibrationOfs(f))
  IN  IF f = Scs!SCSCL THEN both
      ELSE both \cup Reached(Scs!WriteSpe(f, i.speed, 50)) \cup Reached(Scs!WheelMode(f))

PositionsArrive(i) ==
  \A f \in Families :
    LET stored == Scs!RegWritePosEx(f, i.id, i.position, i.speed, 50)
        bytes == stored[1]
        pwm == i.position % 1024
        at == 7 + f.size - 6
        servo == Scs!FeedBack(f, Scs!NewServo(f), PresentState(f, i.position))
        reads(what) == Scs!ReadMem(f, what, servo)
    IN  (f.sign = 15 \/ i.position >= 0) =>
          /\ Scs!Heard(bytes) /\ Scs!Heard(stored[2])
          /\ Commanded(f, i) \cap {f.table.ID, f.table.LOCK, f.table.PRESENT_POSITION} = {}
          /\ f = Scs!SCSCL => Reads(f, 10, Scs!WritePWM(f, -pwm)[1]) = -pwm
          /\ f # Scs!SCSCL => Reads(f, 15, Scs!WriteSpe(f, i.position, 50)[2]) = i.position
          /\ Scs!Signed(f.sign, Scs!SCS2Host(f.end, bytes[at], bytes[at + 1])) = i.position
          /\ f.table[f.goal] + f.size = f.table.GOAL_SPEED + 2
          /\ reads("PRESENT_POSITION") = i.position /\ reads("PRESENT_SPEED") = -300
          /\ reads("PRESENT_LOAD") = -(i.position % 1024) /\ reads("PRESENT_CURRENT") = -20
          /\ reads("PRESENT_VOLTAGE") = 120 /\ reads("MOVING") = 1

(* An acknowledgment or the answer to a read, changed in at most one byte. *)
AnswersChecked(i) ==
  LET sent == Scs!Answer(i.id, i.error, i.data)
      got == IF i.at \in DOMAIN sent THEN Garbled(sent, i.at, i.byte) ELSE sent
  IN  IF i.data = <<>>
      THEN /\ Scs!AckOk(i.id, got) <=> got = sent
           /\ Scs!PingOk(i.id, got) <=> got = sent
           /\ Scs!PingOk(Scs!BROADCAST, got) <=> got = sent
      ELSE /\ Scs!ReadOk(Len(i.data), got) <=> got = sent
           /\ Scs!ReadOk(Len(i.data), got) => Scs!ReadData(Len(i.data), got) = i.data

(* What servos that are present answer to a synchronous read, one of them  *)
(* garbled, behind noise: the data of each is found, or nothing.           *)
SyncReadFinds(i) ==
  LET answer(id) == Scs!Answer(id, 0, i.data)
      heard(id) == IF id \notin i.present THEN <<>>
                   ELSE IF id = i.bad THEN Garbled(answer(id), i.at, 77)
                   ELSE answer(id)
      buff == i.noise \o heard(1) \o heard(2)
  IN  /\ Scs!Heard(Scs!SyncReadRequest(<<1, 2>>, Scs!SMS_STS.table.PRESENT_POSITION, 2))
      /\ \A id \in Ids :
           Scs!SyncReadPacketRx(id, 2, buff) =
             IF id \in i.present \ {i.bad} THEN i.data ELSE <<>>

(* Cut into the stream anywhere, with a byte lost on the way: whatever the *)
(* decoder takes for a frame was one, and it finds the next whole frame -  *)
(* as long as no byte inside a frame looks like a head.  A message is good *)
(* without the receiver's flags and with half of the sticks off nought.    *)
SbusResync(i) ==
  LET first == Sbus!SbusFrame(i.first, 0)
      second == Sbus!SbusFrame(i.second, 192)
      message(frame) == Sbus!SbusBuildMessage(frame)
      found == FoldLeft(Sbus!SbusDecodeMessage, Sbus!Idle, SbusStream(i)).found
      good(flags) == Sbus!ValidateSbusMessage(message(Sbus!SbusFrame(i.first, flags)))
  IN  /\ good(192) <=> Cardinality({c \in 0..7 : i.first[c] = 0}) <= 4
      /\ \A flags \in {16, 32, 48, 240} : ~good(flags)
      /\ 15 \notin ToSet(Tail(first)) \cup ToSet(Tail(second)) =>
           /\ ToSet(found) \subseteq {message(first), message(second)}
           /\ Last(found) = message(second)
           /\ \A c \in 0..15 : Last(found).channels[c] = i.second[c]

(* What the IMU's callback is given comes from frames that arrived intact, *)
(* and a frame that follows one is not missed.                             *)
ImuFromIntactFrames(i) ==
  LET old == Imu!Quiet.imu
      one == Imu!ParseData(old, i.first)
      calls == FoldLeft(Imu!ChSerialInput, Imu!Quiet, ImuStream(i)).calls
  IN  IF IsGarbled(i)
      THEN ToSet(calls) \subseteq {old, Imu!ParseData(old, i.second)}
      ELSE calls = <<one, Imu!ParseData(one, i.second)>>

(* A report of a DDSM210 is taken for one exactly when it is intact and,   *)
(* as the comparison of a signed with an unsigned byte has it, its         *)
(* checksum is below 128.                                                  *)
ReportsFound(i) ==
  LET sent == Ddsm!Sealed(<<i.id, i.type>> \o i.data)
      got == IF i.at \in DOMAIN sent THEN Garbled(sent, i.at, i.byte) ELSE sent
  IN  \A id \in Ids :
        Ddsm!IsValid(id, got) <=> got = sent /\ id = i.id /\ sent[10] < 128

(* Everything above about what arrives of an input.                        *)
FramesFound(i) ==
  CASE i.kind = "answer" -> AnswersChecked(i)
    [] i.kind = "sync" -> SyncReadFinds(i)
    [] i.kind = "sbus" -> SbusResync(i)
    [] i.kind = "imu" -> ImuFromIntactFrames(i)
    [] i.kind = "report" -> ReportsFound(i)
    [] OTHER -> TRUE

-----------------------------------------------------------------------------
(* A VESC reads in a command's frame the value it was given, limited to    *)
(* what the command allows; so does the Akelc drive with a target speed.   *)
ValuesArrive(i) ==
  LET read == Motor!VescReads(Motor!VescPacket(i.id, i.command, i.value))
      rpm == Motor!SetTargetRpm(i.value)[Motor!TARGET_SPEED]
  IN  /\ i.command # "rpm" => read \in 0..Motor!VescHigh(i.command)
      /\ i.command = "rpm" \/ i.value \in 0..Motor!VescHigh(i.command) => read = i.value
      /\ i.value \in -32767..32767 => Motor!ToInt16(Motor!Bytes2(rpm)) = i.value

(* A DDSM210 reads the speed, limited to 210 turns per minute either way,  *)
(* and a position to less than a degree; every command is a whole frame,   *)
(* for that motor alone but for the one that gives an id.                  *)
SpeedsArrive(i) ==
  LET read(frame) == Ddsm!Feedback(frame)[1]
  IN  /\ read(Ddsm!SetSpeed(i.id, i.speed)) =
           CHOOSE s \in {i.speed, -2100, 2100} :
             s \in -2100..2100 /\ \A t \in -2100..2100 :
               (s - i.speed) * (s - i.speed) <= (t - i.speed) * (t - i.speed)
      /\ i.speed \in 0..360 =>
           (read(Ddsm!SetPosition(i.id, i.speed)) * 360) \div 32767 \in {i.speed - 1, i.speed}
      /\ \A frame \in {Ddsm!SetSpeed(i.id, i.speed), Ddsm!SetPosition(i.id, i.speed), Ddsm!ApplyBrake(i.id),
                       Ddsm!ReleaseBrake(i.id), Ddsm!SetModeFrame(i.id, 2), Ddsm!RequestOdom(i.id),
                       Ddsm!RequestMode(i.id), Ddsm!SetIdFrame(i.id)} :
           /\ Len(frame) = 10 /\ Ddsm!CalculateChecksum(frame) = frame[10]
           /\ frame[1] # i.id <=> frame = Ddsm!SetIdFrame(i.id)

CommandsArrive(i) ==
  CASE i.kind = "position" -> PositionsArrive(i)
    [] i.kind = "motor" -> ValuesArrive(i)
    [] i.kind = "speed" -> SpeedsArrive(i)
    [] OTHER -> TRUE

-----------------------------------------------------------------------------
(* What is heard in each of the ten waits of a call.                       *)
Waits(i) == [w \in 1..10 |-> IF w = i.wait THEN i.heard ELSE <<>>]

(* The new id was heard of after SetMotorId began, before its last wait.   *)
Acks(frames, id) == \E f \in ToSet(frames) : f.type = 100 /\ f.id = id

AckedNew(i) == Acks(i.sending, 2) \/ (i.wait < 10 /\ Acks(i.heard, 2))

IdSet(i) ==
  Ddsm!SetMotorId([Ddsm!NewMotor(1) EXCEPT !.ack = i.ack], 2, i.between, i.sending, Waits(i))

(* SetMotorId returns TRUE exactly when a speed frame with the new id was  *)
(* heard in it, whatever was heard before it, unless one with the old id   *)
(* comes between the reset of its flag and the change of the id.  SetMode  *)
(* comes back before its time is over only if the motor has reported the   *)
(* mode.                                                                   *)
AnswerIsOfThisCall(i) ==
  LET switched == Ddsm!SetMode(Ddsm!NewMotor(1), i.mode, Waits(i))
  IN  /\ ~Acks(i.between, 1) => (IdSet(i) <=> AckedNew(i))
      /\ switched.ok /\ switched.waits < 10 => switched.motor.mode = i.mode

(* SetMotorId says that the id was set only if the motor was heard under   *)
(* its new id.  That is not so: a frame with the old id may be taken.      *)
AckIsOfNewId(i) == IdSet(i) => AckedNew(i)

(* The k-th of the registered motors is the k-th of ids_, and is given the *)
(* k-th speed; and a motor that was ever told to move is told to stop      *)
(* before the array is gone.  For callers who register a motor once,       *)
(* unregister what they registered and give as many speeds as motors.      *)
Legal(a, call) ==
  CASE call[1] = "register" -> call[2] \notin a.motors
    [] call[1] = "unregister" -> call[2] \in a.motors
    [] OTHER -> TRUE

Used(a, call) ==
  CASE ~Legal(a, call) -> a
    [] call[1] = "register" -> Ddsm!RegisterMotor(a, call[2])
    [] call[1] = "unregister" -> Ddsm!UnregisterMotor(a, call[2])
    [] OTHER -> Ddsm!SetSpeeds(a, [k \in 1..Cardinality(a.motors) |-> k])

MotorsStop(i) ==
  LET used == FoldLeft(Used, Ddsm!NoMotors, i.calls)
      sent == Ddsm!Destroyed(used).sent
      last(id) == Last(SelectSeq(sent, LAMBDA command : command[1] = id))
      speeds == Ddsm!SetSpeeds([used EXCEPT !.sent = <<>>],
                               [k \in 1..Cardinality(used.motors) |-> k]).sent
  IN  /\ used.defined
      /\ ToSet(used.ids) = used.motors /\ Len(used.ids) = Cardinality(used.motors)
      /\ speeds = [k \in DOMAIN used.ids |-> <<used.ids[k], k>>]
      /\ \A command \in ToSet(sent) : last(command[1]) = <<command[1], 0>>

(* The k-th call of a servo's object is answered by a servo at 1 - k.  Err *)
(* says how the last call went; a position that was read is the servo's,   *)
(* and what the memory gives without error is the servo's state at the     *)
(* last FeedBack, when that was answered.                                  *)
ServoCall(f, servo, call, k) ==
  LET Pos == Scs!Host2SCS(f.end, Scs!SignMagnitude(f.present["PRESENT_POSITION"], 1 - k))
  IN  CASE call = "feedback" -> Scs!FeedBack(f, servo, PresentState(f, 1 - k))
        [] call = "missed" -> Scs!FeedBack(f, servo, <<>>)
        [] call = "read" -> Scs!ReadServo(f, "PRESENT_POSITION", servo, Pos).servo
        [] OTHER -> Scs!ReadServo(f, "PRESENT_POSITION", servo, <<>>).servo

ErrIsOfLastCall(i) ==
  LET n == Len(i.calls)
      servo == FoldLeftDomain(LAMBDA s, k : ServoCall(i.family, s, i.calls[k], k),
                              Scs!NewServo(i.family), i.calls)
      refreshed == {k \in 1..n : i.calls[k] \in {"feedback", "missed"}}
      last == CHOOSE k \in refreshed : \A j \in refreshed : j <= k
  IN  /\ servo.Err = 1 <=> i.calls[n] \in {"missed", "lost"}
      /\ (refreshed # {} /\ servo.Err = 0 /\ i.calls[last] = "feedback") =>
           /\ Scs!ReadMem(i.family, "PRESENT_SPEED", servo) = -300
           /\ i.family.sign = 15 => Scs!ReadMem(i.family, "PRESENT_POSITION", servo) = 1 - last

(* What a VESC object knows of each status is what its motor reported last,*)
(* and nothing of the other motor's.  Frame k says 1000 times -k in its    *)
(* first four bytes.                                                       *)
VescData(k) == Motor!Bytes4(-1000 * k) \o Motor!Bytes2(-k) \o Motor!Bytes2(k)

StateIsReported(i) ==
  LET frame(k) == [id |-> 256 * i.frames[k][1] + i.frames[k][2], data |-> VescData(k)]
      vesc == FoldLeftDomain(LAMBDA v, k : Motor!HandleVescFrame(v, frame(k)),
                             Motor!NewVesc(1), i.frames)
      last(n) == LET of == {k \in 1..3 : i.frames[k] = <<n, 1>>}
                 IN  IF of = {} THEN 0 ELSE CHOOSE k \in of : \A j \in of : j <= k
  IN  /\ vesc.state.speed = -1000 * last(9) /\ vesc.state.duty_cycle = last(9)
      /\ vesc.state.current_motor = -last(9) /\ vesc.state.current_input = -last(16)
      /\ vesc.state.energy_drawn = -1000 * last(15) /\ vesc.state.voltage_input = -last(27)
      /\ Last(vesc.updates) = [field |-> vesc.field, state |-> vesc.state]

(* A call succeeds when the line is open and nothing is lost; a drive holds*)
(* what it was told last by the calls that succeeded, and what the other   *)
(* drive is told is not for it; and a drive that cannot be asked is not    *)
(* normal.  For callers who do not use a port they have closed.            *)
AkelcDrive == 0 :> 1 @@ 18 :> 0 @@ 64 :> 0 @@ 66 :> 0 @@ 19 :> 0 @@ 23 :> 0 @@ 30 :> 65535 @@ 31 :> 65535 @@ 145 :> 0
AkelcLine == [port |-> Motor!NewPort, ret |-> 0, drives |-> [id \in Ids |-> AkelcDrive]]

AkelcCall(line, call, k, lost) ==
  CASE call[1] = "open" -> [line EXCEPT !.port = Motor!Open(@, TRUE), !.ret = 0]
    [] call[1] = "refused" -> [line EXCEPT !.port = Motor!Open(@, FALSE), !.ret = 0]
    [] call[1] = "close" -> [line EXCEPT !.port = Motor!Close(@), !.ret = 0]
    [] call[1] = "rpm" -> Motor!WriteRegisters(line, call[2], Motor!SetTargetRpm(-k), lost)
    [] call[1] = "brake" -> Motor!WriteRegisters(line, call[2], Motor!ApplyBrake(k), lost)
    [] OTHER -> Motor!ConfigurePid(line, call[2], IF call[2] = 1 THEN Motor!KP_INTERNAL ELSE Motor!KP_EXTERNAL,
                                   <<k, k, k>>, lost)

DrivesObey(i) ==
  LET lines[k \in 0..4] ==
        IF k = 0 THEN AkelcLine ELSE AkelcCall(lines[k - 1], i.calls[k], k, k = i.lost)
      connected(k) ==
        \E j \in 1..k : /\ i.calls[j][1] = "open"
                        /\ \A m \in j..k : i.calls[m][1] \notin {"refused", "close"}
      last(api, id) ==
        LET of == {k \in 1..4 : i.calls[k] = <<api, id>> /\ lines[k].ret = 1}
        IN  IF of = {} THEN 0 ELSE CHOOSE k \in of : \A j \in of : j <= k
  IN  (\A k \in 1..3 : i.calls[k][1] # "close") =>
        /\ lines[4].port.defined
        /\ i.calls[4][1] # "close" =>
             (Motor!IsOpened(lines[4].port) <=> \E k \in 1..4 : i.calls[k][1] \in {"open", "refused"})
        /\ \A k \in 1..4 : i.calls[k][1] \in {"rpm", "brake"} =>
             (lines[k].ret = 1 <=> connected(k) /\ k # i.lost)
        /\ \A id \in Ids :
             /\ lines[4].drives[id][Motor!TARGET_SPEED] = -last("rpm", id) % 65536
             /\ lines[4].drives[id][Motor!APPLY_BRAKE] = last("brake", id)
             /\ i.calls[4][1] # "close" =>
                  /\ Motor!IsNormal(lines[4], id, FALSE) <=> connected(4)
                  /\ Motor!IsReachable(lines[4], id, FALSE) <=> connected(4)
                  /\ Motor!GetActualSwitchingFreq(lines[4], id, FALSE) = IF connected(4) THEN 0 ELSE -1
                  /\ Motor!GetActualRpm(lines[4], id, FALSE) = IF connected(4) THEN -1 ELSE 0

(* What the objects of an array say of a motor is what that motor reported *)
(* last, of each kind: the k-th frame says k.                              *)
ReportsShared(i) ==
  LET a == FoldLeft(Ddsm!RegisterMotor, Ddsm!NoMotors, <<2, 1>>)
      frames == [k \in 1..3 |-> [i.frames[k] EXCEPT !.value = k]]
      objects == FoldLeft(Ddsm!ProcessFeedback, [id \in a.motors |-> Ddsm!NewMotor(id)], frames)
      last(type, id) ==
        LET of == {k \in 1..3 : frames[k].type = type /\ frames[k].id = id}
        IN  IF of = {} THEN 0 ELSE CHOOSE k \in of : \A j \in of : j <= k
  IN  /\ Ddsm!GetSpeeds(a, objects) = <<last(100, 2), last(100, 1)>>
      /\ \A id \in 1..2 :
           /\ Ddsm!GetSpeed(objects, id) = last(100, id) /\ Ddsm!GetMode(objects, id) = last(117, id)
           /\ Ddsm!GetEncoderCount(objects, id) = last(116, id)

CallsKept(i) ==
  CASE i.kind = "reports" -> ReportsShared(i)
    [] i.kind = "vesc" -> StateIsReported(i)
    [] i.kind = "akelc" -> DrivesObey(i)
    [] i.kind = "servo" -> ErrIsOfLastCall(i)
    [] i.kind = "call" -> AnswerIsOfThisCall(i)
    [] i.kind = "use" -> MotorsStop(i)
    [] OTHER -> TRUE

(* The integral of a PID controller cannot wind up: however long the       *)
(* output was limited, it leaves its limit as soon as the error alone asks *)
(* for the other direction; nor can the one that the wheels of the TBot    *)
(* share while both have to go the same way, and what they are given       *)
(* arrives at the board.                                                   *)
NoWindup(i) ==
  LET step(c, error) == Motor!PidUpdate(1, i.ki, 50, 1, c.integral, error)
      c == FoldLeft(step, [u |-> 0, integral |-> 0], i.errors)
  IN  \A error \in {-90, 90} :
        /\ LET next == step(c, error) IN error * next.u >= 0
        /\ LET wheels == Motor!SpeedControl(1, i.ki, 50, 1, c.integral, 120 - error, 80 - error)
               data == Motor!TbotRpmData(wheels.left, wheels.right)
           IN  /\ error * wheels.left >= 0 /\ error * wheels.right >= 0
               /\ Motor!ToInt32(SubSeq(data, 1, 4)) = wheels.left
               /\ Motor!ToInt32(SubSeq(data, 5, 8)) = wheels.right
=============================================================================
