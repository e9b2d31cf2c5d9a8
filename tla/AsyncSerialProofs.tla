-------------------------- MODULE AsyncSerialProofs ---------------------------
(***************************************************************************)
(* That tx_in_progress_ protects the transmit memory, that no byte is left *)
(* behind in the ring, and that bytes leave in the order they were         *)
(* accepted and only the end of a write that fails is lost: for every      *)
(* capacity and any number of senders, opens, closes and errors.           *)
(***************************************************************************)
EXTENDS AsyncSerial, SequenceTheorems, TLAPS

USE SerialAssumption

(* What is left after the head of a sequence was taken.                    *)
LEMMA TailFacts ==
  ASSUME NEW S, NEW q \in Seq(S), q # <<>>
  PROVE  /\ Head(q) \in S /\ Head(q) = q[1] /\ Tail(q) \in Seq(S)
         /\ Len(q) \in Nat \ {0} /\ Len(Tail(q)) = Len(q) - 1
         /\ \A i \in 1..Len(q) - 1 : Tail(q)[i] = q[i + 1]
OBVIOUS

(* A handler is queued.                                                    *)
LEMMA QueueHandler ==
  ASSUME NEW q \in Seq(Handlers), NEW h \in Handlers
  PROVE  Append(q, h) \in Seq(Handlers)
OBVIOUS

(* Bytes are numbered with numbers that were not used before.              *)
LEMMA NewBytesType ==
  ASSUME TypeOK, NEW length \in Nat, sent + length <= MaxBytes
  PROVE  NewBytes(length) \in ByteSeq
<1>1. sent \in Nat
  BY DEF TypeOK
<1>2. \A i \in 1..length : sent + i \in 1..MaxBytes
  BY <1>1
<1> QED BY <1>2 DEF NewBytes, ByteSeq

(* The ring never holds more than its capacity.                            *)
LEMMA RingWriteType ==
  ASSUME TypeOK, NEW bytes \in ByteSeq
  PROVE  RingWrite(bytes) \in ByteSeq /\ Len(RingWrite(bytes)) <= Capacity
<1> DEFINE all == tx_rbuf \o bytes
           first == IF Len(all) > Capacity THEN Len(all) - Capacity + 1 ELSE 1
<1>1. all \in Seq(1..MaxBytes) /\ Len(all) \in Nat
  BY DEF TypeOK, ByteSeq
<1>2. first \in 1..Len(all) + 1
  BY <1>1
<1>3. RingWrite(bytes) = SubSeq(all, first, Len(all))
  BY DEF RingWrite
<1> HIDE DEF all, first
<1>4. SubSeq(all, first, Len(all)) \in Seq(1..MaxBytes)
  BY <1>1, <1>2, SubSeqProperties
<1>5. Len(SubSeq(all, first, Len(all))) =
        IF first <= Len(all) THEN Len(all) - first + 1 ELSE 0
  BY <1>1, <1>2, SubSeqProperties
<1> QED BY <1>1, <1>2, <1>3, <1>4, <1>5 DEF ByteSeq, first

(* The memory a write reads holds as many bytes as it was told to take.    *)
WritesInBuffer == \A i \in DOMAIN writes : writes[i] <= Len(tx_buf)

TypeInv == TypeOK /\ WritesInBuffer

(* A transmission is started with what is in the ring.                     *)
LEMMA StartWriteType ==
  ASSUME TypeInv, ready # <<>>, tx_rbuf # <<>>, StartWrite
  PROVE  TypeInv'
<1> DEFINE rest == SubSeq(tx_buf, Len(tx_rbuf) + 1, Len(tx_buf))
           len == Len(tx_rbuf)
<1>1. tx_rbuf \in Seq(1..MaxBytes) /\ len \in 1..Capacity
  BY DEF TypeInv, TypeOK, ByteSeq
<1>2. tx_buf \in Seq(1..MaxBytes) /\ Len(tx_buf) \in Nat
  BY DEF TypeInv, TypeOK, ByteSeq
<1>3. rest \in Seq(1..MaxBytes)
  BY <1>1, <1>2, SubSeqProperties
<1>4. Len(rest) = IF len + 1 <= Len(tx_buf) THEN Len(tx_buf) - len ELSE 0
  BY <1>1, <1>2, SubSeqProperties
<1>5. tx_buf' = tx_rbuf \o rest
  BY DEF StartWrite
<1> HIDE DEF rest
<1>6. /\ tx_buf' \in Seq(1..MaxBytes) /\ len <= Len(tx_buf')
      /\ Len(tx_buf) <= Len(tx_buf')
  BY <1>1, <1>2, <1>3, <1>4, <1>5
<1>7. writes \in Seq(1..Capacity) /\ writes' = Append(writes, len)
  BY DEF StartWrite, TypeInv, TypeOK
<1>8. /\ writes' \in Seq(1..Capacity)
      /\ \A i \in DOMAIN writes' :
           \/ writes'[i] = len
           \/ i \in DOMAIN writes /\ writes'[i] = writes[i]
  BY <1>1, <1>7
<1>9. WritesInBuffer'
  <2> SUFFICES ASSUME NEW i \in DOMAIN writes' PROVE writes'[i] <= Len(tx_buf')
    BY DEF WritesInBuffer
  <2>1. CASE writes'[i] = len
    BY <1>6, <2>1
  <2>2. CASE i \in DOMAIN writes /\ writes'[i] = writes[i]
    <3>1. writes[i] <= Len(tx_buf) /\ writes[i] \in Nat
      BY <1>7, <2>2 DEF TypeInv, WritesInBuffer
    <3>2. Len(tx_buf') \in Nat
      BY <1>6
    <3> QED BY <1>2, <1>6, <2>2, <3>1, <3>2
  <2> QED BY <1>8, <2>1, <2>2
<1>10. ready' \in Seq(Handlers)
  BY TailFacts DEF StartWrite, TypeInv, TypeOK
<1>11. tx_rbuf' \in Seq(1..MaxBytes) /\ Len(tx_rbuf') <= Capacity
  BY DEF StartWrite
<1>12. tx_in_progress' \in BOOLEAN
  BY DEF StartWrite
<1>13. UNCHANGED <<io, stopped, reading, wire, port, owner, opens, sender,
                   sent, alive>>
  BY DEF StartWrite, ownerVars, senderVars
<1> HIDE DEF len
<1> QED BY <1>6, <1>8, <1>9, <1>10, <1>11, <1>12, <1>13
        DEF TypeInv, TypeOK, ByteSeq

-----------------------------------------------------------------------------
(* Types, for the whole program, and writes never reach past the memory.   *)
LEMMA TypeInvariant == Spec => []TypeInv
<1>1. Init => TypeInv
  <2> SUFFICES ASSUME Init PROVE TypeInv
    OBVIOUS
  <2>1. ready \in Seq(Handlers) /\ writes \in Seq(1..Capacity)
    BY DEF Init
  <2>2. tx_buf \in ByteSeq /\ tx_rbuf \in ByteSeq /\ wire \in ByteSeq
    BY DEF Init, ByteSeq
  <2>3. opens \in 0..MaxOpens /\ sent \in 0..MaxBytes /\ Len(tx_rbuf) <= Capacity
    BY DEF Init
  <2>4. WritesInBuffer
    BY DEF Init, WritesInBuffer
  <2> QED BY <2>1, <2>2, <2>3, <2>4 DEF Init, TypeInv, TypeOK
<1>2. TypeInv /\ [Next]_vars => TypeInv'
  <2> SUFFICES ASSUME TypeInv, [Next]_vars PROVE TypeInv'
    OBVIOUS
  <2>1. CASE Owner
    <3>1. CASE Open
      <4>1. ready' \in Seq(Handlers)
        BY <3>1, QueueHandler DEF Open, TypeInv, TypeOK, Handlers
      <4> QED BY <3>1, <4>1 DEF Open, TypeInv, TypeOK, WritesInBuffer,
                  kernelVars, txVars, senderVars
    <3>2. CASE CloseBegin
      BY <3>2 DEF CloseBegin, TypeInv, TypeOK, WritesInBuffer, kernelVars,
                  txVars, senderVars
    <3>3. CASE CloseEnd
      <4>1. AbortedOnClose \in Seq(Handlers)
        <5>1. Len(writes) \in Nat /\ DOMAIN writes = 1..Len(writes)
          BY DEF TypeInv, TypeOK
        <5>2. [i \in 1..reading |-> "read_error"] \in Seq(Handlers)
          BY DEF Handlers, TypeInv, TypeOK
        <5>3. [i \in DOMAIN writes |-> "write_error"] \in Seq(Handlers)
          BY <5>1 DEF Handlers
        <5> QED BY <5>2, <5>3 DEF AbortedOnClose
      <4>2. ready' \in Seq(Handlers)
        BY <3>3, <4>1 DEF CloseEnd, TypeInv, TypeOK
      <4>3. writes' \in Seq(1..Capacity) /\ WritesInBuffer'
        BY <3>3 DEF CloseEnd, WritesInBuffer
      <4> QED BY <3>3, <4>2, <4>3 DEF CloseEnd, TypeInv, TypeOK, WritesInBuffer,
                                txVars, senderVars
    <3> QED BY <2>1, <3>1, <3>2, <3>3 DEF Owner
  <2>2. CASE Sender
    <3>1. CASE \E t \in Senders : TestOpened(t)
      BY <3>1 DEF TestOpened, TypeInv, TypeOK, WritesInBuffer, kernelVars,
                  txVars, ownerVars, contextVars
    <3>2. ASSUME NEW t \in Senders, NEW length \in 1..Capacity,
                 SendBytes(t, length)
          PROVE  TypeInv'
      <4>1. CASE StoreBytes(t, length, <<"write_to_port">>)
        <5>1. NewBytes(length) \in ByteSeq
          BY <3>2, NewBytesType DEF SendBytes, TypeInv
        <5>2. /\ RingWrite(NewBytes(length)) \in ByteSeq
              /\ Len(RingWrite(NewBytes(length))) <= Capacity
          BY <5>1, RingWriteType DEF TypeInv
        <5>3. sent' \in 0..MaxBytes
          BY <3>2, <4>1 DEF SendBytes, StoreBytes, TypeInv, TypeOK
        <5>4. ready' \in Seq(Handlers)
          BY <4>1 DEF StoreBytes, TypeInv, TypeOK, Handlers
        <5> QED BY <4>1, <5>2, <5>3, <5>4
                DEF StoreBytes, TypeInv, TypeOK, WritesInBuffer, kernelVars,
                    ownerVars
      <4>2. CASE /\ sender' = sender \ {t}
                 /\ UNCHANGED <<io, contextVars, kernelVars, txVars, ownerVars,
                                sent, alive>>
        BY <4>2 DEF TypeInv, TypeOK, WritesInBuffer, kernelVars, txVars,
                    ownerVars, contextVars
      <4> QED BY <3>2, <4>1, <4>2 DEF SendBytes
    <3> QED BY <2>2, <3>1, <3>2 DEF Sender
  <2>3. CASE IoThread
    <3>1. CASE ReadFromPort
      BY <3>1, TailFacts DEF ReadFromPort, Runs, TypeInv, TypeOK,
         WritesInBuffer, txVars, ownerVars, senderVars
    <3>2. CASE WriteToPort \/ WriteDone
      <4>1. CASE tx_rbuf # <<>> /\ StartWrite
        BY <3>2, <4>1, StartWriteType DEF WriteToPort, WriteDone, Runs
      <4>2. CASE NothingToDo \/ EndOfTransmission
        BY <3>2, <4>2, TailFacts
           DEF NothingToDo, EndOfTransmission, WriteToPort, WriteDone, Runs,
               TypeInv, TypeOK, WritesInBuffer, kernelVars, txVars, ownerVars,
               senderVars
      <4> QED BY <3>2, <4>1, <4>2 DEF WriteToPort, WriteDone
    <3>3. CASE CloseOnIoThread \/ IoThreadExits
      BY <3>3 DEF CloseOnIoThread, IoThreadExits, TypeInv, TypeOK,
         WritesInBuffer, contextVars, kernelVars, txVars, ownerVars, senderVars
    <3> QED BY <2>3, <3>1, <3>2, <3>3 DEF IoThread
  <2>4. CASE ReadCompletes
    <3>1. ready' \in Seq(Handlers)
      BY <2>4, QueueHandler DEF ReadCompletes, TypeInv, TypeOK, Handlers
    <3> QED BY <2>4, <3>1 DEF ReadCompletes, TypeInv, TypeOK, WritesInBuffer,
       txVars, ownerVars, senderVars
  <2>5. CASE WriteCompletes
    <3>1. /\ writes # <<>> /\ writes' = Tail(writes)
          /\ UNCHANGED <<io, stopped, reading, txVars, ownerVars, senderVars,
                         alive>>
      BY <2>5 DEF WriteCompletes
    <3>2. writes \in Seq(1..Capacity)
      BY DEF TypeInv, TypeOK
    <3>3. /\ Head(writes) \in 1..Capacity /\ Head(writes) = writes[1]
          /\ Len(writes) \in Nat \ {0} /\ writes' \in Seq(1..Capacity)
          /\ Len(writes') = Len(writes) - 1
          /\ \A i \in 1..Len(writes) - 1 : writes'[i] = writes[i + 1]
      BY <3>1, <3>2, TailFacts
    <3>4. WritesInBuffer'
      BY <3>1, <3>2, <3>3 DEF WritesInBuffer, TypeInv, txVars
    <3>5. Head(writes) <= Len(tx_buf)
      <4>1. 1 \in DOMAIN writes
        BY <3>2, <3>3
      <4> QED BY <3>3, <4>1 DEF WritesInBuffer, TypeInv
    <3>6. ready' \in Seq(Handlers)
      BY <2>5, QueueHandler DEF WriteCompletes, TypeInv, TypeOK, Handlers
    <3>7. wire' \in ByteSeq
      <4>1. CASE UNCHANGED wire
        BY <4>1 DEF TypeInv, TypeOK
      <4>2. ASSUME NEW n \in 1..Head(writes),
                   wire' = wire \o SubSeq(tx_buf, 1, n)
            PROVE  wire' \in ByteSeq
        <5>1. tx_buf \in Seq(1..MaxBytes) /\ n \in 1..Len(tx_buf)
          BY <3>3, <3>5 DEF TypeInv, TypeOK, ByteSeq
        <5>2. SubSeq(tx_buf, 1, n) \in Seq(1..MaxBytes)
          BY <5>1, SubSeqProperties
        <5> QED BY <4>2, <5>2 DEF TypeInv, TypeOK, ByteSeq
      <4>3. Head(writes) \in 1..Head(writes)
        BY <3>3
      <4> QED BY <2>5, <4>1, <4>2, <4>3 DEF WriteCompletes
    <3> QED BY <3>1, <3>3, <3>4, <3>6, <3>7
            DEF TypeInv, TypeOK, txVars, ownerVars, senderVars
  <2>6. CASE UNCHANGED vars
    BY <2>6 DEF vars, TypeInv, TypeOK, WritesInBuffer, contextVars, kernelVars,
       txVars, ownerVars, senderVars
  <2> QED BY <2>1, <2>2, <2>3, <2>4, <2>5, <2>6 DEF Next
<1> QED BY <1>1, <1>2, PTL DEF Spec

(* Types, for the whole program.                                           *)
THEOREM TypeCorrect == Spec => []TypeOK
<1>1. TypeInv => TypeOK
  BY DEF TypeInv
<1> QED BY <1>1, TypeInvariant, PTL

-----------------------------------------------------------------------------
(* Where in the context's queue handlers of a kind are.                    *)
Where(H) == {i \in DOMAIN ready : ready[i] \in H}

(* The two properties in terms of places in the queue.                     *)
PlaceInv ==
  alive =>
    /\ Len(writes) <= 1
    /\ \A i, j \in Where(WriteHandlers) : i = j
    /\ writes # <<>> => Where(WriteHandlers) = {}
    /\ tx_in_progress <=> writes # <<>> \/ Where(WriteHandlers) # {}
    /\ tx_rbuf # <<>> =>
         writes # <<>> \/ Where(WriteHandlers \cup {"write_to_port"}) # {}

(* That it says what the properties say.                                   *)
LEMMA PlaceInvMeaning == PlaceInv => OneTransmission /\ NothingStranded
BY DEF PlaceInv, OneTransmission, NothingStranded, AwaitedHandlers, Where

(* What queueing a handler does to the places.                             *)
LEMMA QueuePlaces ==
  ASSUME TypeOK, NEW h, ready' = Append(ready, h), NEW H
  PROVE  Where(H)' = IF h \in H THEN Where(H) \cup {Len(ready) + 1}
                     ELSE Where(H)
<1>1. ready \in Seq(Handlers)
  BY DEF TypeOK
<1>2. /\ DOMAIN ready' = DOMAIN ready \cup {Len(ready) + 1}
      /\ Len(ready) + 1 \notin DOMAIN ready
      /\ ready'[Len(ready) + 1] = h
      /\ \A i \in DOMAIN ready : ready'[i] = ready[i]
  BY <1>1
<1> QED BY <1>2 DEF Where

(* What taking the first handler does to the places.                       *)
LEMMA TakePlaces ==
  ASSUME TypeOK, ready # <<>>, ready' = Tail(ready), NEW H
  PROVE  /\ 1 \in Where(H) <=> Head(ready) \in H
         /\ Where(H) \subseteq Nat \ {0} /\ Where(H)' \subseteq Nat \ {0}
         /\ \A i \in Nat \ {0} : i \in Where(H)' <=> i + 1 \in Where(H)
<1>1. ready \in Seq(Handlers)
  BY DEF TypeOK
<1>2. /\ Head(ready) = ready[1] /\ Len(ready) \in Nat \ {0}
      /\ DOMAIN ready = 1..Len(ready)
      /\ DOMAIN ready' = 1..Len(ready) - 1
      /\ \A i \in 1..Len(ready) - 1 : ready'[i] = ready[i + 1]
  BY <1>1, TailFacts
<1> QED BY <1>2 DEF Where

-----------------------------------------------------------------------------
(* A step that leaves the places alone.                                    *)
LEMMA SamePlaces ==
  ASSUME PlaceInv,
         UNCHANGED <<writes, tx_in_progress>>,
         alive' => alive,
         tx_rbuf' # <<>> => tx_rbuf # <<>>,
         Where(WriteHandlers)' = Where(WriteHandlers),
         Where(WriteHandlers \cup {"write_to_port"})' =
           Where(WriteHandlers \cup {"write_to_port"})
  PROVE  PlaceInv'
<1> DEFINE P == Where(WriteHandlers)
           Q == Where(WriteHandlers \cup {"write_to_port"})
<1> HIDE DEF P, Q
<1>1. P' = P /\ Q' = Q
  BY DEF P, Q
<1> QED BY <1>1 DEF PlaceInv, P, Q

(* A step that queues a handler of the receive side.                       *)
LEMMA QueueReadHandler ==
  ASSUME TypeOK, PlaceInv, NEW h,
         h \notin WriteHandlers \cup {"write_to_port"},
         ready' = Append(ready, h),
         UNCHANGED <<writes, tx_in_progress, tx_rbuf, alive>>
  PROVE  PlaceInv'
<1>1. Where(WriteHandlers)' = Where(WriteHandlers)
  BY QueuePlaces
<1>2. Where(WriteHandlers \cup {"write_to_port"})' =
        Where(WriteHandlers \cup {"write_to_port"})
  BY QueuePlaces
<1> QED BY <1>1, <1>2, SamePlaces

(* Handlers are queued one after another, however they are grouped.        *)
LEMMA HandlersJoin ==
  ASSUME NEW q \in Seq(Handlers), NEW r \in Seq(Handlers), NEW e \in Seq(Handlers)
  PROVE  (q \o r) \o e = q \o (r \o e)
BY ConcatAssociative

(* What queueing the errors of aborted reads does to the places.           *)
LEMMA QueueReadErrors ==
  ASSUME NEW q \in Seq(Handlers), NEW n \in Nat
  PROVE  LET all == q \o [i \in 1..n |-> "read_error"]
         IN  /\ all \in Seq(Handlers)
             /\ DOMAIN all = 1..Len(q) + n /\ Len(all) = Len(q) + n
             /\ DOMAIN q = 1..Len(q) /\ Len(q) \in Nat
             /\ \A i \in 1..Len(q) + n :
                  all[i] = IF i <= Len(q) THEN q[i] ELSE "read_error"
<1> DEFINE errors == [i \in 1..n |-> "read_error"]
<1>1. errors \in Seq(Handlers) /\ Len(errors) = n
  BY DEF Handlers
<1>2. \A i \in 1..n : errors[i] = "read_error"
  OBVIOUS
<1> HIDE DEF errors
<1>3. /\ q \o errors \in Seq(Handlers) /\ Len(q \o errors) = Len(q) + n
      /\ \A i \in 1..Len(q) + n :
           (q \o errors)[i] = IF i <= Len(q) THEN q[i] ELSE errors[i - Len(q)]
  BY <1>1, ConcatProperties
<1>4. \A i \in 1..Len(q) + n : i <= Len(q) \/ i - Len(q) \in 1..n
  OBVIOUS
<1> QED BY <1>2, <1>3, <1>4 DEF errors

(* A step that leaves the context and the transmit side alone.             *)
LEMMA SameContext ==
  ASSUME PlaceInv,
         UNCHANGED <<ready, writes, tx_in_progress, tx_rbuf>>,
         alive' => alive
  PROVE  PlaceInv'
<1>1. \A H : Where(H)' = Where(H)
  BY DEF Where
<1> QED BY <1>1, SamePlaces

(* A handler that is neither of the transmission nor about to start one    *)
(* where it could is gone: what waits behind it moves up.                  *)
LEMMA TakeOtherHandler ==
  ASSUME TypeOK, PlaceInv, alive, ready # <<>>, ready' = Tail(ready),
         Head(ready) \notin WriteHandlers,
         Head(ready) = "write_to_port" => tx_in_progress \/ tx_rbuf = <<>>,
         UNCHANGED <<writes, tx_in_progress, tx_rbuf, alive>>
  PROVE  PlaceInv'
<1> DEFINE P == Where(WriteHandlers)
           Q == Where(WriteHandlers \cup {"write_to_port"})
<1>1. /\ 1 \notin P /\ P \subseteq Nat \ {0} /\ P' \subseteq Nat \ {0}
      /\ \A i \in Nat \ {0} : i \in P' <=> i + 1 \in P
  BY TakePlaces
<1>2. /\ 1 \in Q <=> Head(ready) = "write_to_port"
      /\ Q \subseteq Nat \ {0} /\ Q' \subseteq Nat \ {0}
      /\ \A i \in Nat \ {0} : i \in Q' <=> i + 1 \in Q
  BY TakePlaces
<1>3. P' \subseteq Q'
  BY DEF Where
<1> HIDE DEF P, Q
<1>4. \A i \in P : i - 1 \in P'
  BY <1>1
<1>5. Head(ready) # "write_to_port" => \A i \in Q : i - 1 \in Q'
  BY <1>2
<1>6. \A i, j \in P' : i = j
  BY <1>1, SMTT(30) DEF PlaceInv, P
<1>7. P = {} <=> P' = {}
  BY <1>1, <1>4
<1>8. tx_rbuf # <<>> => writes # <<>> \/ Q' # {}
  <2>1. CASE Head(ready) = "write_to_port" /\ tx_rbuf # <<>>
    BY <2>1, <1>3, <1>7 DEF PlaceInv, P
  <2>2. CASE Head(ready) # "write_to_port"
    BY <2>2, <1>5 DEF PlaceInv, Q
  <2> QED BY <2>1, <2>2
<1> QED BY <1>6, <1>7, <1>8 DEF PlaceInv, P, Q

(* A transmission starts when none is under way, or from the handler of    *)
(* the one before.                                                         *)
LEMMA StartsOne ==
  ASSUME TypeOK, PlaceInv, alive, ready # <<>>, StartWrite,
         \/ Head(ready) = "write_to_port" /\ ~tx_in_progress
         \/ Head(ready) = "write_done"
  PROVE  PlaceInv'
<1> DEFINE P == Where(WriteHandlers)
<1>1. /\ 1 \in P <=> Head(ready) \in WriteHandlers
      /\ P \subseteq Nat \ {0} /\ P' \subseteq Nat \ {0}
      /\ \A i \in Nat \ {0} : i \in P' <=> i + 1 \in P
  BY TakePlaces DEF StartWrite
<1> HIDE DEF P
<1>2. P' = {}
  BY <1>1 DEF PlaceInv, P, WriteHandlers
<1>3. writes = <<>>
  BY <1>1 DEF PlaceInv, P, WriteHandlers
<1>4. writes' # <<>> /\ Len(writes') <= 1
  BY <1>3 DEF StartWrite
<1>5. tx_in_progress' /\ alive'
  BY DEF StartWrite
<1> QED BY <1>2, <1>4, <1>5 DEF PlaceInv, P

(* Its handler finds the ring empty.                                       *)
LEMMA EndsOne ==
  ASSUME TypeOK, PlaceInv, alive, ready # <<>>, Head(ready) = "write_done",
         tx_rbuf = <<>>, EndOfTransmission
  PROVE  PlaceInv'
<1> DEFINE P == Where(WriteHandlers)
<1>1. /\ 1 \in P
      /\ P \subseteq Nat \ {0} /\ P' \subseteq Nat \ {0}
      /\ \A i \in Nat \ {0} : i \in P' <=> i + 1 \in P
  BY TakePlaces DEF EndOfTransmission, WriteHandlers
<1> HIDE DEF P
<1>2. P' = {} /\ writes = <<>>
  BY <1>1 DEF PlaceInv, P
<1>3. writes' = <<>> /\ ~tx_in_progress' /\ tx_rbuf' = <<>>
  BY <1>2 DEF EndOfTransmission, kernelVars
<1>4. Len(writes') <= 1
  BY <1>3
<1> QED BY <1>2, <1>3, <1>4 DEF PlaceInv, P

(* The port is done with it: its handler is queued.                        *)
LEMMA CompletesOne ==
  ASSUME TypeOK, PlaceInv, alive, WriteCompletes
  PROVE  PlaceInv'
<1> DEFINE P == Where(WriteHandlers)
           Q == Where(WriteHandlers \cup {"write_to_port"})
<1>1. PICK h \in WriteHandlers : ready' = Append(ready, h)
  BY DEF WriteCompletes, WriteHandlers
<1>2. P' = P \cup {Len(ready) + 1} /\ Q' = Q \cup {Len(ready) + 1}
  BY <1>1, QueuePlaces
<1> HIDE DEF P, Q
<1>3. writes # <<>> /\ writes' = Tail(writes) /\ writes \in Seq(1..Capacity)
  BY DEF WriteCompletes, TypeOK
<1>4. writes' = <<>> /\ Len(writes') <= 1
  BY <1>3 DEF PlaceInv
<1>5. P = {} /\ tx_in_progress
  BY <1>3 DEF PlaceInv, P
<1>6. UNCHANGED <<tx_in_progress, alive>>
  BY DEF WriteCompletes, txVars
<1> QED BY <1>2, <1>4, <1>5, <1>6 DEF PlaceInv, P, Q

(* SendBytes announces the bytes it stored.                                *)
LEMMA StoresAndPosts ==
  ASSUME TypeOK, PlaceInv, alive, NEW t, NEW length,
         StoreBytes(t, length, <<"write_to_port">>)
  PROVE  PlaceInv'
<1> DEFINE P == Where(WriteHandlers)
           Q == Where(WriteHandlers \cup {"write_to_port"})
<1>1. ready' = Append(ready, "write_to_port")
  BY DEF StoreBytes, TypeOK
<1>2. P' = P /\ Q' = Q \cup {Len(ready) + 1}
  BY <1>1, QueuePlaces DEF WriteHandlers
<1> HIDE DEF P, Q
<1>3. UNCHANGED <<writes, tx_in_progress, alive>>
  BY DEF StoreBytes, kernelVars
<1> QED BY <1>2, <1>3 DEF PlaceInv, P, Q

(* Close() aborts what is under way: the handler of a write is queued.     *)
LEMMA AbortsOne ==
  ASSUME TypeOK, PlaceInv, alive, CloseEnd
  PROVE  PlaceInv'
<1> DEFINE P == Where(WriteHandlers)
           Q == Where(WriteHandlers \cup {"write_to_port"})
           read == [i \in 1..reading |-> "read_error"]
           aborted == ready \o read
<1>1. /\ ready \in Seq(Handlers) /\ writes \in Seq(1..Capacity)
      /\ reading \in Nat
  BY DEF TypeOK
<1>2. ready' = ready \o AbortedOnClose /\ writes' = <<>>
  BY DEF CloseEnd
<1>3. UNCHANGED <<tx_in_progress, tx_rbuf, alive>>
  BY DEF CloseEnd, txVars
<1>4. /\ aborted \in Seq(Handlers)
      /\ DOMAIN aborted = 1..Len(ready) + reading
      /\ Len(aborted) = Len(ready) + reading
      /\ DOMAIN ready = 1..Len(ready) /\ Len(ready) \in Nat
      /\ \A i \in 1..Len(ready) + reading :
           aborted[i] = IF i <= Len(ready) THEN ready[i] ELSE "read_error"
  BY <1>1, QueueReadErrors
<1>5. read \in Seq(Handlers)
  BY <1>1 DEF Handlers
<1>6. CASE writes = <<>>
  <2>1. [i \in DOMAIN writes |-> "write_error"] = <<>>
    BY <1>6
  <2>2. ready' = aborted
    BY <1>1, <1>2, <1>5, <2>1 DEF AbortedOnClose
  <2>3. \A H : "read_error" \notin H => Where(H)' = Where(H)
    BY <1>1, <1>4, <2>2 DEF Where
  <2>4. P' = P /\ Q' = Q
    BY <2>3 DEF WriteHandlers
  <2> QED BY <1>2, <1>3, <1>6, <2>4, SamePlaces
<1>7. CASE writes # <<>>
  <2>1. Len(writes) = 1 /\ DOMAIN writes = 1..1
    <3>1. /\ Len(writes) \in Nat \ {0} /\ DOMAIN writes = 1..Len(writes)
      BY <1>1, <1>7
    <3>2. Len(writes) <= 1
      BY DEF PlaceInv
    <3> QED BY <3>1, <3>2
  <2>2. AbortedOnClose = read \o <<"write_error">>
    <3>1. [i \in 1..1 |-> "write_error"] = <<"write_error">>
      OBVIOUS
    <3> QED BY <2>1, <3>1, Zenon DEF AbortedOnClose
  <2>3. ready' = Append(aborted, "write_error")
    <3> HIDE DEF read
    <3>1. <<"write_error">> \in Seq(Handlers)
      BY DEF Handlers
    <3>2. (ready \o read) \o <<"write_error">> =
            ready \o (read \o <<"write_error">>)
      BY <1>1, <1>5, <3>1, HandlersJoin, Zenon
    <3>3. ready' = aborted \o <<"write_error">>
      BY <1>2, <2>2, <3>2, Zenon
    <3>4. aborted \o <<"write_error">> = Append(aborted, "write_error")
      BY <1>4
    <3> QED BY <3>3, <3>4
  <2> HIDE DEF aborted
  <2>4. PICK k \in Nat :
          /\ DOMAIN ready' = 1..k /\ k \notin DOMAIN ready
          /\ ready'[k] = "write_error"
          /\ \A i \in DOMAIN ready' :
               \/ i = k
               \/ i \notin DOMAIN ready /\ ready'[i] = "read_error"
               \/ i \in DOMAIN ready /\ ready'[i] = ready[i]
          /\ k >= 1
    <3> DEFINE k == Len(ready) + reading + 1
    <3>1. k \in Nat /\ k >= 1 /\ k \notin DOMAIN ready
      BY <1>1, <1>4
    <3>2. /\ DOMAIN ready' = 1..k /\ ready'[k] = "write_error"
          /\ \A i \in 1..k - 1 : ready'[i] = aborted[i]
      BY <1>1, <1>4, <2>3
    <3>3. Len(ready) \in Nat /\ reading \in Nat
      BY <1>1, <1>4
    <3>4. \A i \in 1..k : i = k \/ i \in 1..k - 1
      BY <3>3
    <3>5. \A i \in 1..k - 1 :
            IF i \in DOMAIN ready THEN ready'[i] = ready[i]
            ELSE ready'[i] = "read_error"
      BY <1>4, <3>2, <3>3
    <3> HIDE DEF k
    <3> QED BY <3>1, <3>2, <3>4, <3>5
  <2>5. P = {}
    BY <1>7 DEF PlaceInv
  <2>6. P' = {k}
    <3>1. \A i \in DOMAIN ready : ready[i] \notin WriteHandlers
      BY <2>5 DEF Where
    <3> QED BY <2>4, <3>1 DEF Where, WriteHandlers
  <2>7. k \in Q'
    BY <2>4 DEF Where, WriteHandlers
  <2>8. tx_in_progress
    BY <1>7 DEF PlaceInv
  <2>9. Len(writes') <= 1
    BY <1>2
  <2> HIDE DEF P, Q
  <2> QED BY <1>2, <1>3, <2>6, <2>7, <2>8, <2>9 DEF PlaceInv, P, Q
<1> QED BY <1>6, <1>7

-----------------------------------------------------------------------------
(* Every step of every thread keeps the places in order.                   *)
THEOREM PlaceInvariant == Spec => []PlaceInv
<1>1. Init => PlaceInv
  BY DEF Init, PlaceInv, Where
<1>2. TypeOK /\ PlaceInv /\ [Next]_vars => PlaceInv'
  <2> SUFFICES ASSUME TypeOK, PlaceInv, [Next]_vars PROVE PlaceInv'
    OBVIOUS
  <2>1. CASE Owner
    <3>1. CASE Open
      <4>1. CASE ready' = Append(ready, "read_start")
        BY <3>1, <4>1, QueueReadHandler DEF Open, WriteHandlers, kernelVars, txVars
      <4>2. CASE UNCHANGED ready
        BY <3>1, <4>2, SameContext DEF Open, kernelVars, txVars
      <4> QED BY <3>1, <4>1, <4>2 DEF Open
    <3>2. CASE CloseBegin
      BY <3>2, SameContext DEF CloseBegin, kernelVars, txVars
    <3>3. CASE CloseEnd
      BY <3>3, AbortsOne DEF CloseEnd
    <3> QED BY <2>1, <3>1, <3>2, <3>3 DEF Owner
  <2>2. CASE Sender
    <3>1. CASE \E t \in Senders : TestOpened(t)
      BY <3>1, SameContext DEF TestOpened, kernelVars, txVars, contextVars
    <3>2. ASSUME NEW t \in Senders, NEW length \in 1..Capacity,
                 SendBytes(t, length)
          PROVE  PlaceInv'
      BY <2>2, <3>2, StoresAndPosts, SameContext
         DEF SendBytes, kernelVars, txVars, contextVars
    <3> QED BY <2>2, <3>1, <3>2 DEF Sender
  <2>3. CASE IoThread
    <3>1. CASE ReadFromPort
      BY <2>3, <3>1, TakeOtherHandler
         DEF ReadFromPort, Runs, WriteHandlers, txVars
    <3>2. CASE WriteToPort
      <4>1. CASE StartWrite /\ ~tx_in_progress
        BY <2>3, <3>2, <4>1, StartsOne DEF WriteToPort, Runs
      <4>2. CASE NothingToDo /\ (tx_in_progress \/ tx_rbuf = <<>>)
        BY <2>3, <3>2, <4>2, TakeOtherHandler
           DEF WriteToPort, Runs, NothingToDo, WriteHandlers, kernelVars, txVars
      <4> QED BY <3>2, <4>1, <4>2 DEF WriteToPort
    <3>3. CASE WriteDone
      BY <2>3, <3>3, StartsOne, EndsOne DEF WriteDone, Runs
    <3>4. CASE CloseOnIoThread \/ IoThreadExits
      BY <3>4, SameContext
         DEF CloseOnIoThread, IoThreadExits, contextVars, kernelVars, txVars
    <3> QED BY <2>3, <3>1, <3>2, <3>3, <3>4 DEF IoThread
  <2>4. CASE ReadCompletes
    BY <2>4, QueueReadHandler DEF ReadCompletes, WriteHandlers, txVars
  <2>5. CASE WriteCompletes
    BY <2>5, CompletesOne DEF WriteCompletes
  <2>6. CASE UNCHANGED vars
    BY <2>6, SameContext DEF vars, contextVars, kernelVars, txVars
  <2> QED BY <2>1, <2>2, <2>3, <2>4, <2>5, <2>6 DEF Next
<1> QED BY <1>1, <1>2, TypeCorrect, PTL DEF Spec

(* tx_in_progress_ protects the memory a write reads: there is never more  *)
(* than one transmission, counting those whose handler has yet to run.     *)
THEOREM ExclusiveTransmission == Spec => []OneTransmission
<1> QED BY PlaceInvariant, PlaceInvMeaning, PTL

(* Bytes in the ring always have somebody who will come for them.          *)
THEOREM NoByteStranded == Spec => []NothingStranded
<1> QED BY PlaceInvariant, PlaceInvMeaning, PTL

-----------------------------------------------------------------------------
(* Each byte has a higher number than those before it.                     *)
Increasing(s) == \A i, j \in DOMAIN s : i < j => s[i] < s[j]

(* A sequence put together from two is in order when both are and the      *)
(* second goes on where the first ends.                                    *)
LEMMA IncreasingConcat ==
  ASSUME NEW a \in Seq(Int), NEW b \in Seq(Int)
  PROVE  Increasing(a \o b) <=>
           /\ Increasing(a) /\ Increasing(b)
           /\ \A i \in 1..Len(a), j \in 1..Len(b) : a[i] < b[j]
<1> DEFINE c == a \o b
<1>1. /\ Len(a) \in Nat /\ Len(b) \in Nat
      /\ DOMAIN a = 1..Len(a) /\ DOMAIN b = 1..Len(b)
      /\ DOMAIN c = 1..Len(a) + Len(b)
  OBVIOUS
<1>2. /\ \A i \in 1..Len(a) : i \in DOMAIN c /\ c[i] = a[i]
      /\ \A j \in 1..Len(b) : Len(a) + j \in DOMAIN c /\ c[Len(a) + j] = b[j]
  <2>1. \A j \in 1..Len(b) : (Len(a) + j) - Len(a) = j
    BY <1>1
  <2> QED BY <1>1, <2>1
<1>3. \A k \in DOMAIN c : k \in 1..Len(a) \/ \E j \in 1..Len(b) : k = Len(a) + j
  <2> SUFFICES ASSUME NEW k \in DOMAIN c, k \notin 1..Len(a)
               PROVE  \E j \in 1..Len(b) : k = Len(a) + j
    OBVIOUS
  <2>1. k - Len(a) \in 1..Len(b) /\ k = Len(a) + (k - Len(a))
    BY <1>1
  <2> QED BY <2>1
<1>4. \A i \in 1..Len(a) : a[i] \in Int
  OBVIOUS
<1>5. \A i \in 1..Len(b) : b[i] \in Int
  OBVIOUS
<1> HIDE DEF c
<1>6. ASSUME Increasing(c)
      PROVE  /\ Increasing(a) /\ Increasing(b)
             /\ \A i \in 1..Len(a), j \in 1..Len(b) : a[i] < b[j]
  <2>1. Increasing(a)
    BY <1>1, <1>2, <1>6 DEF Increasing
  <2>2. Increasing(b)
    <3> SUFFICES ASSUME NEW i \in 1..Len(b), NEW j \in 1..Len(b), i < j
                 PROVE  b[i] < b[j]
      BY <1>1 DEF Increasing
    <3>1. Len(a) + i < Len(a) + j
      BY <1>1
    <3> QED BY <3>1, <1>2, <1>6 DEF Increasing
  <2>3. ASSUME NEW i \in 1..Len(a), NEW j \in 1..Len(b)
        PROVE  a[i] < b[j]
    <3>1. i < Len(a) + j
      BY <1>1
    <3> QED BY <3>1, <1>2, <1>6 DEF Increasing
  <2> QED BY <2>1, <2>2, <2>3
<1>7. ASSUME Increasing(a), Increasing(b),
             \A i \in 1..Len(a), j \in 1..Len(b) : a[i] < b[j]
      PROVE  Increasing(c)
  <2> SUFFICES ASSUME NEW k \in DOMAIN c, NEW l \in DOMAIN c, k < l
               PROVE  c[k] < c[l]
    BY DEF Increasing
  <2>1. CASE k \in 1..Len(a) /\ l \in 1..Len(a)
    BY <1>1, <1>2, <1>7, <2>1 DEF Increasing
  <2>2. ASSUME k \in 1..Len(a), NEW j \in 1..Len(b), l = Len(a) + j
        PROVE  c[k] < c[l]
    BY <1>2, <1>7, <2>2
  <2>3. ASSUME NEW i \in 1..Len(b), k = Len(a) + i,
               NEW j \in 1..Len(b), l = Len(a) + j
        PROVE  c[k] < c[l]
    <3>1. i < j
      BY <1>1, <2>3
    <3> QED BY <1>1, <1>2, <1>7, <2>3, <3>1 DEF Increasing
  <2>4. ASSUME NEW i \in 1..Len(b), k = Len(a) + i, l \in 1..Len(a)
        PROVE  FALSE
    BY <1>1, <2>4
  <2> QED BY <1>3, <2>1, <2>2, <2>3, <2>4
<1> QED BY <1>6, <1>7 DEF c

(* The bytes of the write under way, in the memory it reads.               *)
InFlight == IF writes = <<>> THEN <<>> ELSE SubSeq(tx_buf, 1, Head(writes))

(* The pieces Kept is made of.                                             *)
LEMMA KeptPieces ==
  ASSUME TypeInv
  PROVE  /\ Kept = (wire \o InFlight) \o tx_rbuf
         /\ wire \in Seq(Int) /\ InFlight \in Seq(Int) /\ tx_rbuf \in Seq(Int)
         /\ Kept \in Seq(Int) /\ Len(Kept) \in Nat
         /\ writes # <<>> => /\ Head(writes) \in 1..Len(tx_buf)
                             /\ Len(InFlight) = Head(writes)
<1>1. /\ wire \in Seq(1..MaxBytes) /\ tx_buf \in Seq(1..MaxBytes)
      /\ tx_rbuf \in Seq(1..MaxBytes) /\ writes \in Seq(1..Capacity)
  BY DEF TypeInv, TypeOK, ByteSeq
<1>2. wire \in Seq(Int) /\ tx_rbuf \in Seq(Int)
  BY <1>1
<1>3. ASSUME writes # <<>>
      PROVE  /\ Head(writes) \in 1..Len(tx_buf)
             /\ SubSeq(tx_buf, 1, Head(writes)) \in Seq(Int)
             /\ Len(SubSeq(tx_buf, 1, Head(writes))) = Head(writes)
  <2>1. 1 \in DOMAIN writes /\ Head(writes) = writes[1] /\ writes[1] \in 1..Capacity
    BY <1>1, <1>3
  <2>2. Head(writes) \in 1..Len(tx_buf)
    BY <1>1, <2>1 DEF TypeInv, WritesInBuffer
  <2>3. \A i \in 1..Head(writes) : tx_buf[i] \in Int
    <3>1. \A i \in 1..Len(tx_buf) : tx_buf[i] \in Int
      BY <1>1
    <3>2. \A i \in 1..Head(writes) : i \in 1..Len(tx_buf)
      BY <1>1, <2>2
    <3> QED BY <3>1, <3>2
  <2> QED BY <2>2, <2>3, SubSeqProperties
<1>4. InFlight \in Seq(Int) /\ Kept = (wire \o InFlight) \o tx_rbuf
  BY <1>3 DEF InFlight, Kept
<1>5. wire \o InFlight \in Seq(Int)
  BY <1>2, <1>4
<1>6. Kept \in Seq(Int)
  BY <1>2, <1>4, <1>5
<1>7. Len(Kept) \in Nat
  BY <1>6
<1> QED BY <1>2, <1>3, <1>4, <1>6, <1>7 DEF InFlight

(* A step that leaves the transmit side alone keeps the bytes.             *)
LEMMA SameKept ==
  ASSUME UNCHANGED <<wire, writes, tx_buf, tx_rbuf>>
  PROVE  Kept' = Kept
BY DEF Kept

(* The whole ring goes out with the next transmission: no byte is dropped  *)
(* and none is sent ahead of another.                                      *)
LEMMA StartKeeps ==
  ASSUME TypeInv, writes = <<>>, tx_rbuf # <<>>, StartWrite
  PROVE  Kept' = Kept /\ sent' = sent
<1> DEFINE rest == SubSeq(tx_buf, Len(tx_rbuf) + 1, Len(tx_buf))
           memory == tx_rbuf \o rest
<1>1. /\ wire \in Seq(Int) /\ tx_rbuf \in Seq(Int) /\ InFlight = <<>>
      /\ Kept = (wire \o InFlight) \o tx_rbuf
  BY KeptPieces DEF InFlight
<1>2. tx_buf \in Seq(1..MaxBytes)
  BY DEF TypeInv, TypeOK, ByteSeq
<1>3. rest \in Seq(Int)
  <2>1. Len(tx_rbuf) \in Nat /\ Len(tx_buf) \in Nat
    BY <1>1, <1>2
  <2>2. \A i \in Len(tx_rbuf) + 1..Len(tx_buf) : tx_buf[i] \in Int
    BY <1>2, <2>1
  <2> QED BY <2>1, <2>2, SubSeqProperties
<1> HIDE DEF rest
<1>4. SubSeq(memory, 1, Len(tx_rbuf)) = tx_rbuf
  <2>1. Len(tx_rbuf) \in 1..Len(tx_rbuf) /\ 1 \in 1..Len(tx_rbuf)
    BY <1>1
  <2>2. SubSeq(memory, 1, Len(tx_rbuf)) = SubSeq(tx_rbuf, 1, Len(tx_rbuf))
    BY <1>1, <1>3, <2>1, SubSeqOfConcat1
  <2> QED BY <1>1, <2>2, SubSeqFull
<1>5. /\ tx_buf' = memory /\ writes' = <<Len(tx_rbuf)>> /\ tx_rbuf' = <<>>
      /\ UNCHANGED <<wire, sent>>
  BY DEF StartWrite, senderVars, rest
<1>6. writes' # <<>> /\ Head(writes') = Len(tx_rbuf)
  BY <1>5
<1>7. Kept' = (wire \o tx_rbuf) \o <<>>
  BY <1>4, <1>5, <1>6 DEF Kept
<1>8. Kept = wire \o tx_rbuf /\ Kept' = wire \o tx_rbuf
  <2>1. wire \o tx_rbuf \in Seq(Int)
    BY <1>1
  <2> QED BY <1>1, <1>7, <2>1, ConcatEmptySeq
<1> QED BY <1>5, <1>8

(* Three queues in a row are one queue, however they are grouped.          *)
LEMMA Regroup ==
  ASSUME NEW a \in Seq(Int), NEW b \in Seq(Int), NEW c \in Seq(Int)
  PROVE  (a \o b) \o c = a \o (b \o c)
BY ConcatAssociative, SMTT(30)

(* SendBytes stores its bytes behind all others: it asked for the room, so *)
(* the ring overwrites none.                                               *)
LEMMA StoreKeeps ==
  ASSUME TypeInv, NEW t, NEW length \in 1..Capacity,
         sent + length <= MaxBytes, Capacity - Len(tx_rbuf) >= length,
         StoreBytes(t, length, <<"write_to_port">>)
  PROVE  Kept' = Kept \o NewBytes(length) /\ sent' = sent + length
<1> DEFINE new == NewBytes(length)
           all == tx_rbuf \o new
<1>1. /\ wire \in Seq(Int) /\ InFlight \in Seq(Int) /\ tx_rbuf \in Seq(Int)
      /\ Kept = (wire \o InFlight) \o tx_rbuf
  BY KeptPieces
<1>2. new \in Seq(Int) /\ Len(new) = length
  BY DEF NewBytes, TypeInv, TypeOK
<1> HIDE DEF new
<1>3. all \in Seq(Int) /\ Len(all) = Len(tx_rbuf) + length
  BY <1>1, <1>2, ConcatProperties
<1>4. RingWrite(new) = SubSeq(all, 1, Len(all))
  <2>1. ~(Len(all) > Capacity)
    BY <1>1, <1>3
  <2> QED BY <2>1 DEF RingWrite
<1>5. RingWrite(new) = all
  BY <1>3, <1>4, SubSeqFull
<1>6. /\ tx_rbuf' = all /\ UNCHANGED <<wire, writes, tx_buf>>
      /\ sent' = sent + length
  BY <1>5 DEF StoreBytes, kernelVars, new
<1>7. Kept' = (wire \o InFlight) \o (tx_rbuf \o new)
  BY <1>6 DEF Kept, InFlight
<1>8. wire \o InFlight \in Seq(Int)
  BY <1>1
<1>9. ((wire \o InFlight) \o tx_rbuf) \o new = (wire \o InFlight) \o (tx_rbuf \o new)
  <2> DEFINE before == wire \o InFlight
  <2>1. before \in Seq(Int)
    BY <1>8
  <2> HIDE DEF before
  <2>2. new \in Seq(Int) /\ tx_rbuf \in Seq(Int)
    BY <1>1, <1>2
  <2>3. (before \o tx_rbuf) \o new = before \o (tx_rbuf \o new)
    BY <2>1, <2>2, Regroup
  <2> QED BY <2>3 DEF before
<1> QED BY <1>1, <1>6, <1>7, <1>9 DEF new

(* What the port or Close may lose: the end of the write under way.        *)
LosesTail ==
  /\ writes # <<>> /\ writes' = <<>>
  /\ \E n \in 0..Head(writes) - 1 : wire' = wire \o SubSeq(tx_buf, 1, n)
  /\ UNCHANGED <<tx_rbuf, sent>>

(* The port ends the only write there is: it took all of it, or the rest   *)
(* of it is lost.                                                          *)
LEMMA CompletionKeeps ==
  ASSUME TypeInv, PlaceInv, WriteCompletes
  PROVE  (Kept' = Kept /\ sent' = sent) \/ LosesTail
<1>1. /\ wire \in Seq(Int) /\ InFlight \in Seq(Int) /\ tx_rbuf \in Seq(Int)
      /\ Kept = (wire \o InFlight) \o tx_rbuf
  BY KeptPieces
<1>2. writes # <<>> /\ writes' = <<>>
  <2>1. writes \in Seq(1..Capacity) /\ Len(writes) <= 1 /\ writes # <<>>
    BY DEF TypeInv, TypeOK, PlaceInv, WriteCompletes
  <2> QED BY <2>1 DEF WriteCompletes
<1>3. UNCHANGED <<tx_rbuf, tx_buf, sent>>
  BY DEF WriteCompletes, txVars, senderVars
<1>4. Head(writes) \in Nat /\ Head(writes) >= 1
  <2>1. Head(writes) \in 1..Len(tx_buf)
    BY <1>2, KeptPieces
  <2>2. Len(tx_buf) \in Nat
    BY DEF TypeInv, TypeOK, ByteSeq
  <2> QED BY <2>1, <2>2
<1>5. CASE wire' = wire \o SubSeq(tx_buf, 1, Head(writes))
  <2>1. wire' = wire \o InFlight /\ wire' \in Seq(Int)
    BY <1>1, <1>2, <1>5 DEF InFlight
  <2>2. Kept' = (wire' \o <<>>) \o tx_rbuf
    BY <1>2, <1>3 DEF Kept
  <2>3. wire' \o <<>> = wire'
    BY <2>1, ConcatEmptySeq
  <2> QED BY <1>1, <1>3, <2>1, <2>2, <2>3
<1>6. ASSUME NEW n \in 1..Head(writes), wire' = wire \o SubSeq(tx_buf, 1, n),
             n # Head(writes)
      PROVE  LosesTail
  <2>1. n \in 0..Head(writes) - 1
    BY <1>4, <1>6
  <2> QED BY <1>2, <1>3, <1>6, <2>1 DEF LosesTail
<1>7. CASE UNCHANGED wire
  <2>1. 0 \in 0..Head(writes) - 1
    BY <1>4
  <2>2. wire' = wire \o SubSeq(tx_buf, 1, 0)
    BY <1>1, <1>7, SubSeqEmpty, ConcatEmptySeq
  <2> QED BY <1>2, <1>3, <2>1, <2>2 DEF LosesTail
<1> QED BY <1>5, <1>6, <1>7 DEF WriteCompletes

(* Close() gives up the write under way, and keeps the ring.               *)
LEMMA CloseKeeps ==
  ASSUME TypeInv, CloseEnd
  PROVE  (Kept' = Kept /\ sent' = sent) \/ LosesTail
<1>1. /\ wire \in Seq(Int) /\ tx_rbuf \in Seq(Int)
      /\ writes # <<>> => Head(writes) \in 1..Len(tx_buf)
      /\ Len(tx_buf) \in Nat
  <2>1. Len(tx_buf) \in Nat
    BY DEF TypeInv, TypeOK, ByteSeq
  <2> QED BY <2>1, KeptPieces
<1>2. UNCHANGED <<wire, tx_rbuf, tx_buf, sent>> /\ writes' = <<>>
  BY DEF CloseEnd, txVars, senderVars
<1>3. CASE writes = <<>>
  BY <1>2, <1>3, SameKept
<1>4. CASE writes # <<>>
  <2>1. 0 \in 0..Head(writes) - 1
    BY <1>1, <1>4
  <2>2. wire' = wire \o SubSeq(tx_buf, 1, 0)
    BY <1>1, <1>2, SubSeqEmpty, ConcatEmptySeq
  <2> QED BY <1>2, <1>4, <2>1, <2>2 DEF LosesTail
<1> QED BY <1>3, <1>4

(* Whatever step is taken, the bytes on their way stay as they are, new    *)
(* ones come behind them, or the end of the write under way is lost.       *)
LEMMA KeptStep ==
  ASSUME TypeInv, PlaceInv, [Next]_vars
  PROVE  \/ Kept' = Kept /\ sent' = sent
         \/ \E length \in 1..Capacity :
              Kept' = Kept \o NewBytes(length) /\ sent' = sent + length
         \/ LosesTail
<1>1. CASE Open \/ CloseBegin
  BY <1>1, SameKept DEF Open, CloseBegin, kernelVars, txVars, senderVars
<1>2. CASE CloseEnd
  BY <1>2, CloseKeeps
<1>3. ASSUME NEW t \in Senders, TestOpened(t)
      PROVE  Kept' = Kept /\ sent' = sent
  BY <1>3, SameKept DEF TestOpened, kernelVars, txVars
<1>4. ASSUME NEW t \in Senders, NEW length \in 1..Capacity, SendBytes(t, length)
      PROVE  \/ Kept' = Kept /\ sent' = sent
             \/ Kept' = Kept \o NewBytes(length) /\ sent' = sent + length
  <2>1. CASE /\ Capacity - Len(tx_rbuf) >= length
             /\ StoreBytes(t, length, <<"write_to_port">>)
    BY <1>4, <2>1, StoreKeeps DEF SendBytes
  <2>2. CASE UNCHANGED <<kernelVars, txVars, sent>>
    BY <2>2, SameKept DEF kernelVars, txVars
  <2> QED BY <1>4, <2>1, <2>2 DEF SendBytes
<1>5. CASE ReadFromPort \/ CloseOnIoThread \/ IoThreadExits \/ ReadCompletes
  BY <1>5, SameKept DEF ReadFromPort, CloseOnIoThread, IoThreadExits,
     ReadCompletes, kernelVars, txVars, senderVars
<1>6. CASE WriteToPort \/ WriteDone
  <2>1. CASE tx_rbuf # <<>> /\ StartWrite
    <3>1. writes = <<>>
      <4>1. ready \in Seq(Handlers) /\ ready # <<>> /\ alive
        BY <1>6 DEF WriteToPort, WriteDone, Runs, TypeInv, TypeOK
      <4>2. CASE WriteDone
        <5>1. 1 \in Where(WriteHandlers)
          BY <4>1, <4>2 DEF WriteDone, Runs, Where, WriteHandlers
        <5> QED BY <4>1, <5>1 DEF PlaceInv
      <4>3. CASE WriteToPort /\ ~tx_in_progress
        BY <4>1, <4>3 DEF PlaceInv
      <4>4. CASE WriteToPort /\ tx_in_progress
        BY <2>1, <4>4 DEF WriteToPort, StartWrite, NothingToDo, txVars
      <4> QED BY <1>6, <4>2, <4>3, <4>4
    <3> QED BY <2>1, <3>1, StartKeeps
  <2>2. CASE NothingToDo \/ EndOfTransmission
    BY <2>2, SameKept DEF NothingToDo, EndOfTransmission, kernelVars, txVars,
       senderVars
  <2> QED BY <1>6, <2>1, <2>2 DEF WriteToPort, WriteDone
<1>7. CASE WriteCompletes
  BY <1>7, CompletionKeeps
<1>8. CASE UNCHANGED vars
  BY <1>8, SameKept DEF vars, kernelVars, txVars, senderVars
<1> QED BY <1>1, <1>2, <1>3, <1>4, <1>5, <1>6, <1>7, <1>8
        DEF Next, Owner, Sender, IoThread

-----------------------------------------------------------------------------
AtMost(s, m) == \A i \in DOMAIN s : s[i] <= m

(* The bytes the driver has not lost are in the order they were accepted,  *)
(* and none carries a number that is still to be given.                    *)
OrderInv == Increasing(Kept) /\ AtMost(Kept, sent)

LEMMA AtMostConcat ==
  ASSUME NEW a \in Seq(Int), NEW b \in Seq(Int), NEW m \in Int
  PROVE  AtMost(a \o b, m) <=> AtMost(a, m) /\ AtMost(b, m)
<1> DEFINE c == a \o b
<1>1. /\ Len(a) \in Nat /\ Len(b) \in Nat
      /\ DOMAIN a = 1..Len(a) /\ DOMAIN b = 1..Len(b)
      /\ DOMAIN c = 1..Len(a) + Len(b)
  OBVIOUS
<1>2. /\ \A i \in 1..Len(a) : i \in DOMAIN c /\ c[i] = a[i]
      /\ \A j \in 1..Len(b) : Len(a) + j \in DOMAIN c /\ c[Len(a) + j] = b[j]
  <2>1. \A j \in 1..Len(b) : (Len(a) + j) - Len(a) = j
    BY <1>1
  <2> QED BY <1>1, <2>1
<1>3. \A k \in DOMAIN c : k \in 1..Len(a) \/ \E j \in 1..Len(b) : k = Len(a) + j
  <2> SUFFICES ASSUME NEW k \in DOMAIN c, k \notin 1..Len(a)
               PROVE  \E j \in 1..Len(b) : k = Len(a) + j
    OBVIOUS
  <2>1. k - Len(a) \in 1..Len(b) /\ k = Len(a) + (k - Len(a))
    BY <1>1
  <2> QED BY <2>1
<1> HIDE DEF c
<1>4. AtMost(c, m) => AtMost(a, m) /\ AtMost(b, m)
  BY <1>1, <1>2 DEF AtMost
<1>5. AtMost(a, m) /\ AtMost(b, m) => AtMost(c, m)
  BY <1>1, <1>2, <1>3 DEF AtMost
<1> QED BY <1>4, <1>5 DEF c

(* New bytes go on where the last ones ended.                              *)
LEMMA NewBytesOrder ==
  ASSUME TypeInv, OrderInv, NEW length \in 1..Capacity,
         Kept' = Kept \o NewBytes(length), sent' = sent + length
  PROVE  OrderInv'
<1> DEFINE new == NewBytes(length)
<1>1. Kept \in Seq(Int)
  BY KeptPieces
<1>2. sent \in Int /\ length \in Nat
  BY DEF TypeInv, TypeOK
<1>3. /\ new \in Seq(Int) /\ Len(new) = length /\ DOMAIN new = 1..length
      /\ \A j \in 1..length : new[j] = sent + j
  BY <1>2 DEF NewBytes
<1> HIDE DEF new
<1>4. Increasing(new) /\ AtMost(new, sent')
  BY <1>2, <1>3 DEF Increasing, AtMost
<1>5. AtMost(Kept, sent')
  <2>1. \A i \in DOMAIN Kept : Kept[i] \in Int
    BY <1>1
  <2> QED BY <1>2, <2>1 DEF OrderInv, AtMost
<1>6. \A i \in 1..Len(Kept), j \in 1..Len(new) : Kept[i] < new[j]
  <2> SUFFICES ASSUME NEW i \in 1..Len(Kept), NEW j \in 1..Len(new)
               PROVE  Kept[i] < new[j]
    OBVIOUS
  <2>1. Kept[i] \in Int /\ Kept[i] <= sent
    BY <1>1 DEF OrderInv, AtMost
  <2>2. new[j] = sent + j /\ j \in Nat \ {0}
    BY <1>3
  <2> QED BY <1>2, <2>1, <2>2
<1>7. Increasing(Kept \o new)
  BY <1>1, <1>3, <1>4, <1>6, IncreasingConcat DEF OrderInv
<1>8. AtMost(Kept \o new, sent')
  BY <1>1, <1>2, <1>3, <1>4, <1>5, AtMostConcat
<1> QED BY <1>7, <1>8 DEF OrderInv, new

(* What is left when the end of the write under way is lost is in order.   *)
LEMMA LossOrder ==
  ASSUME TypeInv, OrderInv, LosesTail
  PROVE  OrderInv'
<1>1. PICK n \in 0..Head(writes) - 1 : wire' = wire \o SubSeq(tx_buf, 1, n)
  BY DEF LosesTail
<1> DEFINE g == SubSeq(tx_buf, 1, n)
<1>2. /\ wire \in Seq(Int) /\ InFlight \in Seq(Int) /\ tx_rbuf \in Seq(Int)
      /\ Kept = (wire \o InFlight) \o tx_rbuf
  BY KeptPieces
<1>3. /\ Head(writes) \in 1..Len(tx_buf) /\ Len(InFlight) = Head(writes)
      /\ Len(tx_buf) \in Nat
  <2>1. Len(tx_buf) \in Nat
    BY DEF TypeInv, TypeOK, ByteSeq
  <2> QED BY <2>1, KeptPieces DEF LosesTail
<1>4. \A i \in 1..Len(InFlight) : InFlight[i] = tx_buf[i]
  <2>1. InFlight = SubSeq(tx_buf, 1, Head(writes))
    BY DEF InFlight, LosesTail
  <2>2. tx_buf \in Seq(1..MaxBytes)
    BY DEF TypeInv, TypeOK, ByteSeq
  <2> QED BY <1>3, <2>1, <2>2
<1>5. g \in Seq(Int) /\ Len(g) = n /\ n <= Len(InFlight) /\ n \in Nat
  <2>1. n \in Nat /\ n <= Head(writes)
    BY <1>3
  <2>2. \A i \in 1..n : i \in 1..Len(InFlight)
    BY <1>3, <2>1
  <2>3. \A i \in 1..n : tx_buf[i] \in Int
    BY <1>2, <1>4, <2>2
  <2> QED BY <1>3, <2>1, <2>3, SubSeqProperties
<1>6. \A i \in 1..n : i \in 1..Len(InFlight) /\ g[i] = InFlight[i]
  <2>1. \A i \in 1..n : i \in 1..Len(InFlight)
    BY <1>3, <1>5
  <2>2. \A i \in 1..n : g[i] = tx_buf[i]
    <3>1. tx_buf \in Seq(1..MaxBytes)
      BY DEF TypeInv, TypeOK, ByteSeq
    <3> QED BY <1>3, <1>5, <3>1
  <2> QED BY <1>4, <2>1, <2>2
<1> HIDE DEF g
<1>7. Kept' = (wire \o g) \o tx_rbuf
  <2>1. wire \o g \in Seq(Int)
    BY <1>2, <1>5
  <2>2. (wire \o g) \o <<>> = wire \o g
    BY <2>1, ConcatEmptySeq
  <2> QED BY <1>1, <2>2 DEF Kept, LosesTail, g
<1>8. wire \o InFlight \in Seq(Int) /\ wire \o g \in Seq(Int)
  BY <1>2, <1>5
<1>9. /\ Len(wire \o g) = Len(wire) + n /\ Len(wire) \in Nat
      /\ \A k \in 1..Len(wire) + n : /\ (wire \o g)[k] = (wire \o InFlight)[k]
                                     /\ k \in 1..Len(wire \o InFlight)
  <2>1. Len(wire) \in Nat /\ Len(InFlight) \in Nat
    BY <1>2
  <2>2. /\ Len(wire \o g) = Len(wire) + n
        /\ Len(wire \o InFlight) = Len(wire) + Len(InFlight)
    BY <1>2, <1>5, ConcatProperties
  <2>3. ASSUME NEW k \in 1..Len(wire) + n
        PROVE  (wire \o g)[k] = (wire \o InFlight)[k]
    <3>1. CASE k <= Len(wire)
      BY <1>2, <1>5, <2>1, <3>1, ConcatProperties
    <3>2. CASE ~(k <= Len(wire))
      <4>1. k - Len(wire) \in 1..n
        BY <1>5, <2>1, <3>2
      <4>2. (wire \o g)[k] = g[k - Len(wire)]
        BY <1>2, <1>5, <2>1, <3>2, ConcatProperties
      <4>3. (wire \o InFlight)[k] = InFlight[k - Len(wire)]
        <5>1. k \in 1..Len(wire) + Len(InFlight)
          BY <1>5, <2>1
        <5> QED BY <1>2, <2>1, <3>2, <5>1, ConcatProperties
      <4> QED BY <1>6, <4>1, <4>2, <4>3
    <3> QED BY <3>1, <3>2
  <2> QED BY <1>5, <2>1, <2>2, <2>3
<1> DEFINE old == wire \o InFlight
           new == wire \o g
<1>10. /\ old \in Seq(Int) /\ new \in Seq(Int) /\ Len(new) \in Nat
       /\ DOMAIN new = 1..Len(new) /\ DOMAIN old = 1..Len(old)
       /\ \A k \in 1..Len(new) : new[k] = old[k] /\ k \in 1..Len(old)
  BY <1>5, <1>8, <1>9
<1>11. Kept = old \o tx_rbuf /\ Kept' = new \o tx_rbuf
  BY <1>2, <1>7
<1> HIDE DEF old, new
<1>12. /\ Increasing(old) /\ Increasing(tx_rbuf)
       /\ \A i \in 1..Len(old), j \in 1..Len(tx_rbuf) : old[i] < tx_rbuf[j]
  BY <1>2, <1>10, <1>11, IncreasingConcat DEF OrderInv
<1>13. sent \in Int /\ sent' = sent
  BY DEF TypeInv, TypeOK, LosesTail
<1>14. AtMost(old, sent) /\ AtMost(tx_rbuf, sent)
  BY <1>2, <1>10, <1>11, <1>13, AtMostConcat DEF OrderInv
<1>15. /\ Increasing(new) /\ AtMost(new, sent)
       /\ \A i \in 1..Len(new), j \in 1..Len(tx_rbuf) : new[i] < tx_rbuf[j]
  BY <1>10, <1>12, <1>14 DEF Increasing, AtMost
<1>16. Increasing(new \o tx_rbuf)
  BY <1>2, <1>10, <1>12, <1>15, IncreasingConcat
<1>17. AtMost(new \o tx_rbuf, sent)
  BY <1>2, <1>10, <1>13, <1>14, <1>15, AtMostConcat
<1> QED BY <1>11, <1>13, <1>16, <1>17 DEF OrderInv

(* Every step of the driver, the port and the senders keeps that order.    *)
THEOREM OrderInvariant == Spec => []OrderInv
<1>1. Init => OrderInv
  <2> SUFFICES ASSUME Init PROVE OrderInv
    OBVIOUS
  <2>1. Kept = (<<>> \o <<>>) \o <<>>
    BY DEF Init, Kept
  <2>2. DOMAIN Kept = {}
    BY <2>1
  <2> QED BY <2>2 DEF OrderInv, Increasing, AtMost
<1>2. TypeInv /\ PlaceInv /\ OrderInv /\ [Next]_vars => OrderInv'
  <2> SUFFICES ASSUME TypeInv, PlaceInv, OrderInv, [Next]_vars PROVE OrderInv'
    OBVIOUS
  <2>1. CASE Kept' = Kept /\ sent' = sent
    BY <2>1 DEF OrderInv
  <2> QED BY <2>1, KeptStep, NewBytesOrder, LossOrder
<1> QED BY <1>1, <1>2, TypeInvariant, PlaceInvariant, PTL DEF Spec

(* Bytes leave in the order they were accepted, and none leaves twice.     *)
THEOREM BytesInOrder == Spec => []WireInOrder
<1>1. TypeInv /\ OrderInv => WireInOrder
  <2> SUFFICES ASSUME TypeInv, OrderInv PROVE WireInOrder
    OBVIOUS
  <2>1. /\ wire \in Seq(Int) /\ InFlight \in Seq(Int) /\ tx_rbuf \in Seq(Int)
        /\ Kept = (wire \o InFlight) \o tx_rbuf
    BY KeptPieces
  <2>2. wire \o InFlight \in Seq(Int)
    BY <2>1
  <2>3. Increasing(wire \o InFlight)
    BY <2>1, <2>2, IncreasingConcat DEF OrderInv
  <2>4. Increasing(wire)
    BY <2>1, <2>3, IncreasingConcat
  <2> QED BY <2>4 DEF Increasing, WireInOrder
<1> QED BY <1>1, TypeInvariant, OrderInvariant, PTL

(* No step loses a byte but the one that ends a write early.               *)
THEOREM NoByteLost == Spec => NothingLost
<1> DEFINE Keeps ==
  \/ Len(Kept) <= Len(Kept') /\ SubSeq(Kept', 1, Len(Kept)) = Kept
  \/ writes # <<>> /\ writes' = <<>> /\ Len(wire') < Len(wire) + Head(writes)
<1>1. TypeInv /\ PlaceInv /\ [Next]_vars => [Keeps]_vars
  <2> SUFFICES ASSUME TypeInv, PlaceInv, [Next]_vars PROVE Keeps
    OBVIOUS
  <2>1. Kept \in Seq(Int) /\ Len(Kept) \in Nat
    BY KeptPieces
  <2>2. SubSeq(Kept, 1, Len(Kept)) = Kept
    BY <2>1, SubSeqFull
  <2>3. CASE Kept' = Kept
    BY <2>1, <2>2, <2>3
  <2>4. ASSUME NEW length \in 1..Capacity, Kept' = Kept \o NewBytes(length)
        PROVE  Keeps
    <3> DEFINE new == NewBytes(length)
    <3>1. new \in Seq(Int)
      BY DEF NewBytes, TypeInv, TypeOK
    <3> HIDE DEF new
    <3>2. Len(Kept \o new) = Len(Kept) + Len(new) /\ Len(new) \in Nat
      BY <2>1, <3>1
    <3>3. SubSeq(Kept \o new, 1, Len(Kept)) = Kept
      <4>1. CASE Len(Kept) = 0
        <5>1. SubSeq(Kept \o new, 1, 0) = <<>> /\ Kept = <<>>
          BY <2>1, <4>1, SubSeqEmpty
        <5> QED BY <4>1, <5>1
      <4>2. CASE Len(Kept) # 0
        <5>1. 1 \in 1..Len(Kept) /\ Len(Kept) \in 1..Len(Kept)
          BY <2>1, <4>2
        <5> QED BY <2>1, <2>2, <3>1, <5>1, SubSeqOfConcat1
      <4> QED BY <4>1, <4>2
    <3>4. Len(Kept) <= Len(Kept \o new)
      BY <2>1, <3>2
    <3> QED BY <2>4, <3>3, <3>4 DEF new
  <2>5. CASE LosesTail
    <3>1. PICK n \in 0..Head(writes) - 1 : wire' = wire \o SubSeq(tx_buf, 1, n)
      BY <2>5 DEF LosesTail
    <3>2. /\ wire \in Seq(1..MaxBytes) /\ tx_buf \in Seq(1..MaxBytes)
          /\ Len(tx_buf) \in Nat
      BY DEF TypeInv, TypeOK, ByteSeq
    <3>3. Head(writes) \in 1..Len(tx_buf)
      BY <2>5, KeptPieces DEF LosesTail
    <3>4. n \in Nat /\ n < Head(writes) /\ n <= Len(tx_buf)
      BY <3>2, <3>3
    <3>5. SubSeq(tx_buf, 1, n) \in Seq(1..MaxBytes) /\ Len(SubSeq(tx_buf, 1, n)) = n
      <4>1. \A i \in 1..n : tx_buf[i] \in 1..MaxBytes
        BY <3>2, <3>4
      <4> QED BY <3>4, <4>1, SubSeqProperties
    <3>6. Len(wire') = Len(wire) + n /\ Len(wire) \in Nat
      BY <3>1, <3>2, <3>5
    <3>7. Head(writes) \in Nat
      BY <3>2, <3>3
    <3> QED BY <2>5, <3>4, <3>6, <3>7 DEF LosesTail
  <2> QED BY <2>3, <2>4, <2>5, KeptStep
<1> HIDE DEF Keeps
<1>2. Spec => [][Keeps]_vars
  BY <1>1, TypeInvariant, PlaceInvariant, PTL DEF Spec
<1> QED BY <1>2 DEF NothingLost, Keeps
=============================================================================
