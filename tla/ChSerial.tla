------------------------------ MODULE ChSerial ------------------------------
(***************************************************************************)
(* The IMU driver of src/driver/sensor_imu: ch_serial_input cuts frames out*)
(* of a byte stream and parses the items of a frame whose CRC is right;    *)
(* ParseSerialData passes what has been parsed to the callback whenever    *)
(* ch_serial_input returns anything but 0.                                 *)
(***************************************************************************)
EXTENDS Integers, Sequences, SequencesExt, Bitwise

CHSYNC1 == 90
CHSYNC2 == 165
HdrSize == 6
MaxRawLen == 512

U2(bytes, i) == bytes[i] + 256 * bytes[i + 1]

(* crc16_update, polynomial 0x1021; the upper half is never looked at.     *)
CrcBit(crc) ==
  IF crc >= 32768 THEN ((2 * crc) % 65536) ^^ 4129 ELSE 2 * crc

(* What eight bits make of a byte at the top of the register; the register *)
(* is shifted by the byte and takes that up, since the CRC is linear.      *)
CrcTable ==
  [byte \in 0..255 |->
     LET after[i \in 0..8] == IF i = 0 THEN 256 * byte ELSE CrcBit(after[i - 1])
     IN  after[8]]

CrcByte(crc, byte) ==
  (256 * (crc % 256)) ^^ CrcTable[(crc \div 256) ^^ byte]

(* The CRC of a frame leaves out the two bytes that hold it.               *)
FrameCrc(frame, len) ==
  LET bytes == SubSeq(frame, 1, 4) \o SubSeq(frame, 7, HdrSize + len)
      after[i \in 0..Len(bytes)] ==
        IF i = 0 THEN 0 ELSE CrcByte(after[i - 1], bytes[i])
  IN  after[Len(bytes)]

-----------------------------------------------------------------------------
(* The items of a payload: what each sets and how long it is.  A byte that *)
(* starts no item is stepped over.                                         *)
Fields == {"acc", "gyr", "mag", "eul", "quat", "prs"}

Item(tag) ==
  CASE tag = 144 -> [sets |-> {}, size |-> 2]
    [] tag = 160 -> [sets |-> {"acc"}, size |-> 7]
    [] tag = 176 -> [sets |-> {"gyr"}, size |-> 7]
    [] tag = 192 -> [sets |-> {"mag"}, size |-> 7]
    [] tag = 208 -> [sets |-> {"eul"}, size |-> 7]
    [] tag = 209 -> [sets |-> {"quat"}, size |-> 17]
    [] tag = 240 -> [sets |-> {"prs"}, size |-> 5]
    [] tag = 145 -> [sets |-> Fields, size |-> 76]
    [] OTHER     -> [sets |-> {}, size |-> 1]

(* parse_data: a field's value is the tag and the first byte behind it; an *)
(* item cut short at the end reads what the buffer held before: <<-1>>.     *)
ParseData(imu, payload) ==
  LET from[n \in 1..Len(payload) + 76] ==
        IF n > Len(payload) THEN << >>
        ELSE <<n>> \o from[n + Item(payload[n]).size]
      value(n) == IF n + Item(payload[n]).size - 1 > Len(payload) THEN <<-1>>
                  ELSE <<payload[n], payload[n + 1]>>
      set(m, n) == [f \in Fields |-> IF f \in Item(payload[n]).sets
                                     THEN value(n) ELSE m[f]]
  IN  FoldLeft(set, imu, from[1])

-----------------------------------------------------------------------------
(* hipnuc_raw_t, all zero, and the calls of the callback.  While nbyte is 0*)
(* buf holds the last two bytes.                                           *)
Quiet == [nbyte |-> 0, len |-> 0, buf |-> <<0, 0>>,
          imu |-> [f \in Fields |-> <<>>], calls |-> <<>>]

SyncCh(raw, data) ==
  LET buf == <<raw.buf[2], data>>
  IN  [raw EXCEPT !.buf = buf,
                  !.nbyte = IF buf = <<CHSYNC1, CHSYNC2>> THEN 2 ELSE 0]

(* The callback is given whatever has been parsed up to now, for the -1 of *)
(* an error as well as for the 1 of a frame.                               *)
Deliver(raw) ==
  [raw EXCEPT !.nbyte = 0, !.buf = SubSeq(@, 1, 2), !.calls = Append(@, raw.imu)]

DecodeCh(raw) ==
  IF FrameCrc(raw.buf, raw.len) # U2(raw.buf, 5) THEN Deliver(raw)
  ELSE Deliver([raw EXCEPT !.imu =
                  ParseData(@, SubSeq(raw.buf, 7, HdrSize + raw.len))])

Collect(raw, data) ==
  LET got == [raw EXCEPT !.buf = Append(@, data), !.nbyte = @ + 1]
      sized == IF got.nbyte = HdrSize THEN [got EXCEPT !.len = U2(got.buf, 3)]
               ELSE got
  IN  IF got.nbyte = HdrSize /\ sized.len > MaxRawLen - HdrSize THEN Deliver(sized)
      ELSE IF sized.nbyte < sized.len + HdrSize THEN sized
      ELSE DecodeCh(sized)

ChSerialInput(raw, data) ==
  IF raw.nbyte = 0 THEN SyncCh(raw, data) ELSE Collect(raw, data)

-----------------------------------------------------------------------------
(* The sensor: a frame around a payload.                                   *)
ChFrame(payload) ==
  LET head == <<CHSYNC1, CHSYNC2, Len(payload) % 256, Len(payload) \div 256>>
      crc == FrameCrc(head \o <<0, 0>> \o payload, Len(payload))
  IN  head \o <<crc % 256, crc \div 256>> \o payload
=============================================================================
