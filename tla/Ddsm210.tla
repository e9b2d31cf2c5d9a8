------------------------------- MODULE Ddsm210 -------------------------------
(***************************************************************************)
(* The feedback path of Ddsm210 in src/driver/motor_waveshare: motors on a *)
(* shared line answer with frames, the io thread hands the bytes that have *)
(* arrived to ProcessFeedback, which keeps them in a RingBuffer that may   *)
(* overwrite its oldest bytes, and looks for frames of its own motor.      *)
(*                                                                         *)
(* A byte is known by the frame it belongs to and its place there, so that *)
(* what the checksum is for becomes a statement: bytes that are not a      *)
(* whole frame do not pass as one.  The line loses and garbles bytes.      *)
(***************************************************************************)
EXTENDS Integers, Sequences

CONSTANTS RxSize, WordSize, \* slots of rx_buffer_; values of its indices
          FrameLength,      \* bytes of a frame: 10
          MotorId,          \* motor_id_
          Frames,           \* frames that occur: motor, type and checksum
          IndexStarts,      \* the ring's indices after earlier traffic
          MaxFrames,        \* bound: frames sent
          MaxFaults         \* bound: bytes lost or garbled

ASSUME DdsmAssumption ==
  /\ FrameLength \in Nat \ {0} /\ RxSize \in Nat /\ RxSize > FrameLength
  /\ WordSize \in Nat /\ WordSize > RxSize /\ WordSize % RxSize = 0
  /\ Frames \subseteq [id : Nat, type : STRING, checksum : 0..255]
  /\ IndexStarts \subseteq 0..WordSize - 1
  /\ MaxFrames \in Nat /\ MaxFaults \in Nat

VARIABLES
  line,         \* the frames the motors have sent
  arriving,     \* bytes under way
  faults,       \* bytes lost or garbled so far
  buffer, write_index, read_index, peek, ret,   \* rx_buffer_
  decoding,     \* ProcessFeedback is in its loop
  raw_feedback, \* for each type the frame whose data it holds, 0: none yet
  received,     \* history: all bytes ProcessFeedback was given
  damaged       \* history: frames that lost a byte

lineVars == <<line, arriving, faults>>
rxVars == <<buffer, write_index, read_index, peek, ret>>
vars == <<lineVars, rxVars, decoding, raw_feedback, received, damaged>>

Types == {"speed", "odom"}     \* 0x64, 0x74; 0x75 and 0xa0 go the same way

Noise == <<0, 0>>

Bytes == {Noise} \cup ((1..MaxFrames) \X (1..FrameLength))

Rx == INSTANCE RingBuffer
        WITH N <- RxSize, W <- WordSize, Overwrite <- TRUE,
             Values <- Bytes, MaxBurst <- MaxFrames * FrameLength

-----------------------------------------------------------------------------
(* The ring is empty; after an overwrite its read index is masked.         *)
Init ==
  /\ line = <<>> /\ arriving = <<>> /\ faults = 0
  /\ buffer = [s \in Rx!Slots |-> Noise]
  /\ write_index \in IndexStarts
  /\ read_index \in {write_index, Rx!Masked(write_index)}
  /\ peek = Rx!Idle /\ ret = [op |-> "Reset"]
  /\ decoding = FALSE
  /\ raw_feedback = [t \in Types |-> 0]
  /\ received = <<>> /\ damaged = {}

(* The line: a motor sends a frame, a byte is lost or garbled.             *)
Send(frame) ==
  /\ Len(line) < MaxFrames
  /\ line' = Append(line, frame)
  /\ arriving' = arriving \o [i \in 1..FrameLength |-> <<Len(line) + 1, i>>]
  /\ UNCHANGED <<faults, rxVars, decoding, raw_feedback, received, damaged>>

Disturb(i) ==
  /\ faults < MaxFaults /\ faults' = faults + 1
  /\ damaged' = damaged \cup {arriving[i][1]}
  /\ \/ arriving' = [arriving EXCEPT ![i] = Noise]
     \/ arriving' = SubSeq(arriving, 1, i - 1)
                      \o SubSeq(arriving, i + 1, Len(arriving))
  /\ UNCHANGED <<line, rxVars, decoding, raw_feedback, received>>

(* The bytes a write of len bytes pushes out of the ring.                  *)
Overwritten(len) ==
  LET all == Rx!Contents \o SubSeq(arriving, 1, len)
  IN  SubSeq(all, 1, Len(all) - (RxSize - 1))

(* ProcessFeedback with the first len bytes: first they are stored.        *)
StoreFeedback(len) ==
  LET data == SubSeq(arriving, 1, len)
      out  == Overwritten(len)
  IN  /\ ~decoding
      /\ Rx!Write(data)
      /\ arriving' = SubSeq(arriving, len + 1, Len(arriving))
      /\ received' = received \o data
      /\ damaged' = damaged \cup {out[i][1] : i \in DOMAIN out}
      /\ decoding' = TRUE
      /\ UNCHANGED <<line, faults, raw_feedback>>

(* int8_t CalculateChecksum() is compared with an uint8_t.                 *)
SignedByte(b) == IF b < 128 THEN b ELSE b - 256

ChecksumMatches(frame) == SignedByte(frame.checksum) = frame.checksum

(* The bytes Peek copies: the ring holds a frame's length of them.         *)
Window == [i \in 1..FrameLength |-> Rx!ElementAt(i - 1)]

(* The frame n of the line is in the window, whole and for this motor.     *)
IsValid(n) ==
  /\ Window = [i \in 1..FrameLength |-> <<n, i>>]
  /\ ChecksumMatches(line[n])
  /\ line[n].id = MotorId
  /\ line[n].type \in Types

(* A mutation: an invalid frame is thrown away as a whole.                 *)
DecodeByFrame ==
  /\ decoding /\ Rx!Occupied >= FrameLength
  /\ raw_feedback' = [t \in Types |->
       IF \E n \in DOMAIN line : IsValid(n) /\ line[n].type = t
       THEN CHOOSE n \in DOMAIN line : IsValid(n) ELSE raw_feedback[t]]
  /\ Rx!Read(FrameLength)
  /\ UNCHANGED <<lineVars, decoding, received, damaged>>

(* A mutation: an invalid frame is left in the buffer.                     *)
DecodeAndWait ==
  /\ decoding /\ Rx!Occupied >= FrameLength
  /\ \/ \E n \in DOMAIN line :
          /\ IsValid(n)
          /\ raw_feedback' = [raw_feedback EXCEPT ![line[n].type] = n]
          /\ Rx!Read(FrameLength)
     \/ /\ ~ \E n \in DOMAIN line : IsValid(n)
        /\ UNCHANGED <<rxVars, raw_feedback>>
  /\ UNCHANGED <<lineVars, decoding, received, damaged>>

(* One turn of the loop of ProcessFeedback.                                *)
Decode ==
  /\ decoding /\ Rx!Occupied >= FrameLength
  /\ \/ \E n \in DOMAIN line :
          /\ IsValid(n)
          /\ raw_feedback' = [raw_feedback EXCEPT ![line[n].type] = n]
          /\ Rx!Read(FrameLength)
     \/ /\ ~ \E n \in DOMAIN line : IsValid(n)
        /\ Rx!Read(1)
        /\ UNCHANGED raw_feedback
  /\ UNCHANGED <<lineVars, decoding, received, damaged>>

Return ==
  /\ decoding /\ Rx!Occupied < FrameLength
  /\ decoding' = FALSE
  /\ UNCHANGED <<lineVars, rxVars, raw_feedback, received, damaged>>

(* The io thread.                                                          *)
ProcessFeedback ==
  (\E len \in 1..Len(arriving) : StoreFeedback(len)) \/ Decode \/ Return

Next ==
  \/ \E frame \in Frames : Send(frame)
  \/ \E i \in DOMAIN arriving : Disturb(i)
  \/ ProcessFeedback

Spec == Init /\ [][Next]_vars /\ WF_vars(ProcessFeedback)

-----------------------------------------------------------------------------
(* Variables have their types, and less than a frame is left in the ring   *)
(* between two calls of ProcessFeedback.                                   *)
TypeOK ==
  /\ line \in Seq(Frames) /\ Len(line) <= MaxFrames
  /\ arriving \in Seq(Bytes) /\ received \in Seq(Bytes)
  /\ faults \in 0..MaxFaults
  /\ buffer \in [Rx!Slots -> Bytes]
  /\ write_index \in Rx!Words /\ read_index \in Rx!Words
  /\ decoding \in BOOLEAN /\ (~decoding => Rx!Occupied < FrameLength)
  /\ raw_feedback \in [Types -> 0..MaxFrames]
  /\ damaged \subseteq 0..MaxFrames

(* The ring holds the newest bytes of the stream, in order and without a   *)
(* gap, also after a burst that did not fit: what is overwritten is always *)
(* the oldest end.                                                         *)
RxIsStream ==
  /\ Rx!Occupied <= Len(received)
  /\ Rx!Contents = SubSeq(received, Len(received) - Rx!Occupied + 1,
                          Len(received))

(* A frame for this motor all of whose bytes ProcessFeedback was given.    *)
Delivered(n) ==
  /\ line[n].id = MotorId /\ line[n].type \in Types
  /\ \A i \in DOMAIN arriving : arriving[i][1] # n
  /\ n \notin damaged

(* However the stream is cut into callbacks and whatever was lost before,  *)
(* when ProcessFeedback returns the feedback is that of the newest whole   *)
(* frame, as long as its checksum is below 128: a damaged frame, or one of *)
(* another motor, takes no other frame with it.                            *)
FeedbackIsNewest ==
  ~decoding =>
    \A n \in DOMAIN line :
      Delivered(n) /\ line[n].checksum < 128 => raw_feedback[line[n].type] >= n

(* The same for every checksum.                                            *)
EveryFrameCounts ==
  ~decoding =>
    \A n \in DOMAIN line : Delivered(n) => raw_feedback[line[n].type] >= n

(* The loop of ProcessFeedback ends, though nothing but its own reads      *)
(* shrinks the buffer.                                                     *)
DecodingEnds == decoding ~> ~decoding
=============================================================================
