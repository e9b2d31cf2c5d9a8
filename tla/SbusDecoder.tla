----------------------------- MODULE SbusDecoder -----------------------------
(***************************************************************************)
(* SbusDecoder of src/driver/input_sbus: frames of 25 bytes are cut out of *)
(* the byte stream of an RC receiver, and 16 channels of 11 bits, two      *)
(* switches and two flags out of a frame.  Only the head byte 15 and the   *)
(* tail byte 0 mark a frame; there is no checksum and no escape.           *)
(***************************************************************************)
EXTENDS Integers, Sequences, SequencesExt

FrameLength == 25
FrameHead == 15
FrameTail == 0

Bit(byte, weight) == (byte \div weight) % 2

(* Where the lowest bit of the eight channels of a group of 11 bytes is:   *)
(* its byte and its place there.                                           *)
FirstByte == <<1, 2, 3, 5, 6, 7, 9, 10>>
FirstBit == <<0, 3, 6, 1, 4, 7, 2, 5>>

(* data[0..24] of the code is frame[1..25].  A channel reaches into a third*)
(* byte when its lowest bit is the sixth or a later one.                   *)
Channel(frame, i) ==
  LET k == (i % 8) + 1
      first == FirstByte[k] + 11 * (i \div 8) + 1
      reach == IF FirstBit[k] > 5 THEN 2 ELSE 1
      word == frame[first] + 256 * frame[first + 1]
                + (IF reach = 2 THEN 65536 * frame[first + 2] ELSE 0)
  IN  (word \div 2^FirstBit[k]) % 2048

SbusBuildMessage(frame) ==
  [channels |-> [i \in 0..17 |-> IF i < 16 THEN Channel(frame, i)
                                 ELSE IF i = 16 THEN 128 * Bit(frame[24], 128)
                                 ELSE 64 * Bit(frame[24], 64)],
   frame_loss |-> Bit(frame[24], 32) = 1,
   fault_protection |-> Bit(frame[24], 16) = 1]

ValidateSbusMessage(msg) ==
  /\ ~msg.fault_protection /\ ~msg.frame_loss
  /\ Len(SelectSeq([i \in 1..8 |-> msg.channels[i - 1]], LAMBDA c : c = 0)) <= 4

-----------------------------------------------------------------------------
Idle == [state |-> "WAIT_FOR_SOF", data |-> <<>>, found |-> <<>>]

BeginFrame(d, ch) ==
  IF ch = FrameHead THEN [d EXCEPT !.state = "WAIT_FOR_PAYLOAD", !.data = <<ch>>]
  ELSE [d EXCEPT !.data = <<>>]

Collect(d, ch) ==
  [d EXCEPT !.data = Append(@, ch),
            !.state = IF Len(d.data) + 1 = FrameLength - 1 THEN "WAIT_FOR_EOF" ELSE @]

(* A mutation: the byte at the end is not looked at.                       *)
FinishAnyhow(d, ch) ==
  [d EXCEPT !.state = "WAIT_FOR_SOF",
            !.found = Append(@, SbusBuildMessage(Append(d.data, ch)))]

Finish(d, ch) ==
  [d EXCEPT !.state = "WAIT_FOR_SOF",
            !.found = IF ch = FrameTail
                      THEN Append(@, SbusBuildMessage(Append(d.data, ch))) ELSE @]

(* SbusDecodeMessage(ch); found collects the messages of the frames parsed.*)
SbusDecodeMessage(d, ch) ==
  CASE d.state = "WAIT_FOR_SOF" -> BeginFrame(d, ch)
    [] d.state = "WAIT_FOR_PAYLOAD" -> Collect(d, ch)
    [] d.state = "WAIT_FOR_EOF" -> Finish(d, ch)

-----------------------------------------------------------------------------
(* The receiver: 16 values of 11 bits, lowest bit first, without a gap.    *)
ChannelBit(values, n) == (values[n \div 11] \div 2^(n % 11)) % 2

SbusFrame(values, flags) ==
  <<FrameHead>>
    \o [b \in 1..22 |-> LET at == 8 * (b - 1)
                            bit(j) == ChannelBit(values, at + j) * 2^j
                        IN  bit(0) + bit(1) + bit(2) + bit(3)
                              + bit(4) + bit(5) + bit(6) + bit(7)]
    \o <<flags, FrameTail>>
=============================================================================
