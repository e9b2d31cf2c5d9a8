---------------------------- MODULE MotorCommands ----------------------------
(***************************************************************************)
(* What the drivers of motors on CAN make of a command, and of what the    *)
(* motor reports: VESC (src/driver/motor_vesc), the TBot board and its     *)
(* speed controller (src/platform/tbot) with the PID controller of src/    *)
(* control/pid; and the Akelc motor drives on Modbus (src/driver/          *)
(* modbus_rtu, src/driver/motor_akelc).  A real number is an integer in    *)
(* the unit of the wire.                                                   *)
(***************************************************************************)
EXTENDS Integers, Sequences, TLC

Byte(value, i) == (value \div 256^i) % 256

(* Big-endian bytes of an int32_t or int16_t, and back.                    *)
Bytes4(value) == <<Byte(value, 3), Byte(value, 2), Byte(value, 1), Byte(value, 0)>>
Bytes2(value) == <<Byte(value, 1), Byte(value, 0)>>

Signed8(byte) == IF byte < 128 THEN byte ELSE byte - 256

ToInt32(b) == Signed8(b[1]) * 16777216 + b[2] * 65536 + b[3] * 256 + b[4]
ToInt16(b) == Signed8(b[1]) * 256 + b[2]
ToUint16(b) == b[1] * 256 + b[2]

Clamp(value, low, high) ==
  IF value > high THEN high ELSE IF value < low THEN low ELSE value

-----------------------------------------------------------------------------
(* VESC commands: the frame id, the lowest and highest value, the data.    *)
VescCommands == {"duty", "current", "brake", "rpm", "position", "servo"}

VescId(command) ==
  CASE command = "duty" -> 0      [] command = "current" -> 256
    [] command = "brake" -> 512   [] command = "rpm" -> 768
    [] command = "position" -> 1024 [] command = "servo" -> 2048

VescHigh(command) ==
  CASE command \in {"duty", "position"} -> 100000
    [] command \in {"current", "brake"} -> 20000
    [] command = "servo" -> 1000

VescLimited(command, value) ==
  IF command = "rpm" THEN value ELSE Clamp(value, 0, VescHigh(command))

VescPacket(vesc_id, command, value) ==
  [id |-> VescId(command) + vesc_id,
   data |-> IF command = "servo"
            THEN <<vesc_id, 0, 12>> \o Bytes2(VescLimited(command, value))
            ELSE Bytes4(VescLimited(command, value))]

(* What the motor reads in the frame.                                      *)
VescReads(frame) ==
  IF frame.id \div 256 = 8 THEN ToInt16(SubSeq(frame.data, 4, 5))
  ELSE ToInt32(frame.data)

(* What a status frame carries, for each of the five that are looked at.   *)
VescStatus(n, d) ==
  LET word(i) == SubSeq(d, i, i + 1)
      long(i) == SubSeq(d, i, i + 3)
  IN  CASE n = 9  -> [speed |-> ToInt32(long(1)), current_motor |-> ToInt16(word(5)),
                      duty_cycle |-> ToUint16(word(7))]
        [] n = 14 -> [charge_drawn |-> ToInt32(long(1)), charge_regen |-> ToInt32(long(5))]
        [] n = 15 -> [energy_drawn |-> ToInt32(long(1)), energy_regen |-> ToInt32(long(5))]
        [] n = 16 -> [temperature_pcb |-> ToInt16(word(1)), current_input |-> ToInt16(word(5))]
        [] n = 27 -> [displacement |-> ToInt32(long(1)), voltage_input |-> ToInt16(word(5))]
        [] OTHER -> << >>

VescStatuses == {9, 14, 15, 16, 27}
VescFields == UNION {DOMAIN VescStatus(n, [i \in 1..8 |-> 0]) : n \in VescStatuses}

(* Connect, and HandleCanFrame: a status frame of this motor updates its   *)
(* fields; any frame at all, of other motors too, is stamped and passed to *)
(* the callback, with the status that was updated last.                    *)
NewVesc(vesc_id) ==
  [vesc_id |-> vesc_id, field |-> 0, state |-> [f \in VescFields |-> 0], updates |-> <<>>]

Updated(state, new) == [f \in DOMAIN state |-> IF f \in DOMAIN new THEN new[f] ELSE state[f]]

HandleVescFrame(vesc, frame) ==
  LET n == frame.id \div 256
      ours == frame.id % 256 = vesc.vesc_id /\ n \in VescStatuses
      state == IF ours THEN Updated(vesc.state, VescStatus(n, frame.data)) ELSE vesc.state
      field == IF ours THEN n ELSE vesc.field
  IN  [vesc EXCEPT !.field = field, !.state = state, !.updates = Append(@, [field |-> field, state |-> state])]

-----------------------------------------------------------------------------
(* The TBot board's frames.                                                *)
TbotRpmData(left, right) == Bytes4(left) \o Bytes4(right)

(* PidController::Update, for kd = 0 and gains num/den; integral_ advances *)
(* only while the output is not limited, and counts in the next cycle.     *)
PidOutput(kp, ki, integral, error) == kp * error + ki * integral

PidUpdate(kp, ki, umax, ts, integral, error) ==
  LET u == PidOutput(kp, ki, integral, error)
  IN  [u |-> Clamp(u, -umax, umax),
       integral |-> IF u > umax \/ u < -umax THEN integral ELSE integral + error * ts]

(* HandleCanFrame of the speed controller: both wheels use the left PID,   *)
(* one after the other, so they share its integral.                        *)
SpeedControl(kp, ki, umax, ts, integral, left, right) ==
  LET l == PidUpdate(kp, ki, umax, ts, integral, 120 - left)
      r == PidUpdate(kp, ki, umax, ts, l.integral, 80 - right)
  IN  [left |-> l.u, right |-> r.u, integral |-> r.integral]
-----------------------------------------------------------------------------
(* Akelc motor drives on one Modbus line: the port they share, and the     *)
(* calls of a drive.  A drive is the function from the addresses of its    *)
(* registers to what they hold.                                            *)

(* The port: its libmodbus context is none, made, or freed and still used. *)
NewPort == [ctx |-> "none", connected |-> FALSE, slave |-> 0, defined |-> TRUE]

Touched(port) == [port EXCEPT !.defined = @ /\ port.ctx # "freed"]

(* The context is made once.  It stays when the line cannot be opened, so  *)
(* that the port counts as opened.                                         *)
Open(port, connects) ==
  [Touched(port) EXCEPT !.ctx = IF port.ctx = "none" THEN "made" ELSE @, !.connected = connects]

IsOpened(port) == port.ctx # "none"

(* The context is freed and not forgotten.                                 *)
Close(port) ==
  IF port.ctx = "none" THEN port
  ELSE [Touched(port) EXCEPT !.ctx = "freed", !.connected = FALSE]

SelectDevice(port, device_id) ==
  IF port.ctx = "none" THEN port ELSE [Touched(port) EXCEPT !.slave = device_id]

-----------------------------------------------------------------------------
(* A line with its drives.  Every request selects its device first; it is  *)
(* answered if the port has a line and neither telegram is lost, and what  *)
(* comes back is the number of registers, or -1.                           *)
Answered(port, lost) == port.ctx # "none" /\ port.connected /\ ~lost

WriteRegisters(line, device_id, values, lost) ==
  LET port == SelectDevice(line.port, device_id)
  IN  IF ~Answered(port, lost) THEN [line EXCEPT !.port = port, !.ret = -1]
      ELSE [port |-> port, ret |-> 1,
            drives |-> [line.drives EXCEPT ![port.slave] = values @@ @]]

ReadHoldingRegisters(line, device_id, addr, quantity, lost) ==
  LET port == SelectDevice(line.port, device_id)
  IN  IF ~Answered(port, lost) THEN <<>>
      ELSE [n \in 1..quantity |-> line.drives[port.slave][addr + n - 1]]

-----------------------------------------------------------------------------
TARGET_SPEED == 64
APPLY_BRAKE == 66
RELEASE_BRAKE == 68
KP_INTERNAL == 144
KP_EXTERNAL == 152

(* The registers a call writes.  The switching frequency goes to the one   *)
(* of the target speed.                                                    *)
SetTargetRpm(rpm) == TARGET_SPEED :> (Clamp(rpm, -32767, 32767) % 65536)
SetTargetSwitchingFreq(freq) == TARGET_SPEED :> (freq % 65536)
ApplyBrake(permille) == APPLY_BRAKE :> Clamp(permille, 0, 1000)
ReleaseBrake == RELEASE_BRAKE :> 1

(* A gain loses everything above its lowest byte: the mask of the upper    *)
(* register is shifted out.                                                *)
GainRegisters(addr, gain) == (addr :> 0) @@ (addr + 1 :> gain % 256)

(* The three gains, one after the other.  The call has succeeded whatever  *)
(* became of them.                                                         *)
ConfigurePid(line, device_id, first, gains, lost) ==
  LET kp == WriteRegisters(line, device_id, GainRegisters(first, gains[1]), lost)
      ki == WriteRegisters(kp, device_id, GainRegisters(first + 2, gains[2]), lost)
  IN  [WriteRegisters(ki, device_id, GainRegisters(first + 4, gains[3]), lost) EXCEPT !.ret = 1]

(* Where a value that can be asked for is, in how many registers, whether  *)
(* it is signed, and what it is without an answer.                         *)
Readings ==
  [DriverPwm     |-> [addr |-> 16, quantity |-> 1, signed |-> FALSE, unknown |-> 0],
   DriverCurrent |-> [addr |-> 17, quantity |-> 1, signed |-> FALSE, unknown |-> 0],
   ActualSwitchingFreq |-> [addr |-> 18, quantity |-> 1, signed |-> TRUE, unknown |-> -1],
   BlockedState  |-> [addr |-> 19, quantity |-> 1, signed |-> FALSE, unknown |-> 0],
   ErrorCode     |-> [addr |-> 23, quantity |-> 1, signed |-> FALSE, unknown |-> 20],
   DriverTemperature  |-> [addr |-> 28, quantity |-> 1, signed |-> TRUE, unknown |-> 0],
   DriverInputVoltage |-> [addr |-> 29, quantity |-> 1, signed |-> FALSE, unknown |-> 0],
   ActualRpm     |-> [addr |-> 30, quantity |-> 2, signed |-> TRUE, unknown |-> 0]]

Get(what, line, device_id, lost) ==
  LET reading == Readings[what]
      got == ReadHoldingRegisters(line, device_id, reading.addr, reading.quantity, lost)
  IN  CASE got = <<>> -> reading.unknown
        [] reading.quantity = 2 -> ToInt32(Bytes2(got[1]) \o Bytes2(got[2]))
        [] reading.signed -> ToInt16(Bytes2(got[1]))
        [] OTHER -> got[1]

GetActualRpm(line, device_id, lost) == Get("ActualRpm", line, device_id, lost)
GetActualSwitchingFreq(line, device_id, lost) == Get("ActualSwitchingFreq", line, device_id, lost)

IsReachable(line, device_id, lost) ==
  ReadHoldingRegisters(line, device_id, 0, 1, lost) # <<>>

(* A blocked state that cannot be read is "not blocked", an error that     *)
(* cannot be read is one.                                                  *)
IsNormal(line, device_id, lost) ==
  /\ Get("BlockedState", line, device_id, lost) = 0
  /\ Get("ErrorCode", line, device_id, lost) = 0
=============================================================================
