----------------------------- MODULE AsyncSerial -----------------------------
(***************************************************************************)
(* AsyncSerial of src/driver/async_port: threads queue bytes in a ring     *)
(* buffer with SendBytes, and a chain of asynchronous operations that runs *)
(* on one io thread copies the buffer to the port.  The owner opens and    *)
(* closes the port.  The io_context and the port are asio's; here they are *)
(* a queue of handlers and the operations the kernel still has to finish.  *)
(*                                                                         *)
(* Bytes are numbered in the order SendBytes accepts them.  The ring is the*)
(* queue BoundedFifo that RingBuffer implements; its owner leaves the      *)
(* overwriting default on, so only SendBytes' check protects its contents. *)
(***************************************************************************)
EXTENDS Integers, Sequences

CONSTANTS Senders,       \* threads that call SendBytes
          Capacity,      \* bytes the ring holds
          MaxBytes,      \* bound: bytes sent in a behaviour
          MaxOpens,      \* bound: calls of Open
          PartialWrites, \* may the port take fewer bytes than it is given?
          PortErrors     \* may operations, and Open, fail?

ASSUME SerialAssumption ==
  /\ Capacity \in Nat \ {0} /\ MaxBytes \in Nat /\ MaxOpens \in Nat
  /\ PartialWrites \in BOOLEAN /\ PortErrors \in BOOLEAN

VARIABLES
  port,           \* serial_port_: "open" or "closed"
  io,             \* io_thread_ and its run(): "none", "running", "exited"
  owner, opens,   \* where the owner's Close() is; calls of Open so far
  stopped,        \* io_context_.stop() was called and not yet reset
  ready,          \* handlers io_context_ may run, in order
  reading,        \* how many async_read_some are under way
  writes, tx_buf, \* lengths of the writes under way; the memory they read
  tx_rbuf, tx_in_progress,
  sender,         \* threads past SendBytes' test of IsOpened
  sent, wire,     \* bytes accepted so far; bytes the port has taken
  alive           \* FALSE: std::terminate

contextVars == <<stopped, ready>>
kernelVars == <<reading, writes, wire>>
txVars == <<tx_buf, tx_rbuf, tx_in_progress>>
ownerVars == <<port, owner, opens>>
senderVars == <<sender, sent>>
vars == <<io, contextVars, kernelVars, txVars, ownerVars, senderVars, alive>>

-----------------------------------------------------------------------------
Init ==
  /\ port = "closed" /\ io = "none" /\ owner = "idle" /\ opens = 0
  /\ stopped = FALSE /\ ready = <<>>
  /\ reading = 0 /\ writes = <<>> /\ tx_buf = <<>>
  /\ tx_rbuf = <<>> /\ tx_in_progress = FALSE
  /\ sender = {} /\ sent = 0 /\ wire = <<>> /\ alive = TRUE

(* Open(): the port is opened and set up, a first handler is posted and    *)
(* the io thread starts.  When an option is refused the port stays open    *)
(* although Open reports failure, and there is no io thread.               *)
Open ==
  /\ alive /\ owner = "idle" /\ port = "closed" /\ opens < MaxOpens
  /\ opens' = opens + 1
  /\ port' = "open"
  /\ \/ /\ ready' = Append(ready, "read_start")
        /\ io' = "running"
     \/ PortErrors /\ UNCHANGED <<ready, io>>
  /\ UNCHANGED <<stopped, owner, kernelVars, txVars, senderVars, alive>>

(* Close() by the owner: the io thread is stopped and joined, the context  *)
(* is reset, then the port is closed.  What was under way is aborted: its  *)
(* handlers stay in the context until some thread runs it again.           *)
CloseBegin ==
  /\ alive /\ owner = "idle" /\ port = "open"
  /\ stopped' = TRUE
  /\ owner' = "joining"
  /\ UNCHANGED <<io, port, opens, ready, kernelVars, txVars, senderVars, alive>>

AbortedOnClose ==
  [i \in 1..reading |-> "read_error"]
    \o [i \in DOMAIN writes |-> "write_error"]

CloseEnd ==
  /\ alive /\ owner = "joining"
  /\ io \in {"none", "exited"}
  /\ owner' = "idle"
  /\ io' = "none"
  /\ stopped' = FALSE
  /\ ready' = ready \o AbortedOnClose
  /\ reading' = 0
  /\ writes' = <<>>
  /\ port' = "closed"
  /\ UNCHANGED <<opens, wire, txVars, senderVars, alive>>

-----------------------------------------------------------------------------
(* SendBytes: IsOpened is tested before the lock is taken.                 *)
TestOpened(t) ==
  /\ alive /\ t \notin sender /\ port = "open"
  /\ sender' = sender \cup {t}
  /\ UNCHANGED <<io, contextVars, kernelVars, txVars, ownerVars, sent, alive>>

NewBytes(length) == [i \in 1..length |-> sent + i]

(* The ring keeps the newest Capacity bytes.                               *)
RingWrite(bytes) ==
  LET all == tx_rbuf \o bytes
  IN  SubSeq(all, IF Len(all) > Capacity THEN Len(all) - Capacity + 1 ELSE 1,
             Len(all))

(* Under the lock: throw if the ring lacks the room, else store and post.  *)
StoreBytes(t, length, post) ==
  /\ sender' = sender \ {t}
  /\ tx_rbuf' = RingWrite(NewBytes(length))
  /\ sent' = sent + length
  /\ ready' = ready \o post
  /\ UNCHANGED <<io, stopped, kernelVars, tx_buf, tx_in_progress, ownerVars,
                 alive>>

(* A mutation: the free size is not tested.                                *)
SendBytesUnchecked(t, length) ==
  /\ alive /\ t \in sender /\ sent + length <= MaxBytes
  /\ StoreBytes(t, length, <<"write_to_port">>)

SendBytes(t, length) ==
  /\ alive /\ t \in sender /\ sent + length <= MaxBytes
  /\ \/ /\ Capacity - Len(tx_rbuf) >= length
        /\ StoreBytes(t, length, <<"write_to_port">>)
     \/ /\ Capacity - Len(tx_rbuf) < length
        /\ sender' = sender \ {t}
        /\ UNCHANGED <<io, contextVars, kernelVars, txVars, ownerVars, sent,
                       alive>>

-----------------------------------------------------------------------------
(* The io thread runs the first handler, then the next.                    *)
Runs(handler) ==
  /\ alive /\ io = "running" /\ ~stopped
  /\ ready # <<>> /\ Head(ready) = handler

(* ReadFromPort, and the receive handler, which ends in ReadFromPort.  The *)
(* port is open whenever the io thread runs handlers.  A handler left over *)
(* from before a Close keeps its chain of reads going beside the new one.  *)
ReadFromPort ==
  /\ Runs("read_start") \/ Runs("read_done")
  /\ reading' = reading + 1
  /\ ready' = Tail(ready)
  /\ UNCHANGED <<io, stopped, writes, wire, txVars, ownerVars, senderVars,
                 alive>>

(* The rest of WriteToPort: the whole ring goes to the front of tx_buf_,   *)
(* the memory the operation refers to.                                     *)
StartWrite ==
  /\ tx_in_progress' = TRUE
  /\ tx_buf' = tx_rbuf \o SubSeq(tx_buf, Len(tx_rbuf) + 1, Len(tx_buf))
  /\ tx_rbuf' = <<>>
  /\ writes' = Append(writes, Len(tx_rbuf))
  /\ ready' = Tail(ready)
  /\ UNCHANGED <<io, stopped, reading, wire, ownerVars, senderVars, alive>>

NothingToDo ==
  /\ ready' = Tail(ready)
  /\ UNCHANGED <<io, stopped, kernelVars, txVars, ownerVars, senderVars, alive>>

(* A mutation: the transmission in progress is not looked at.              *)
WriteToPortAlways ==
  /\ Runs("write_to_port")
  /\ \/ tx_rbuf # <<>> /\ StartWrite
     \/ tx_rbuf = <<>> /\ NothingToDo

(* The handler SendBytes posts, WriteToPort(true).                         *)
WriteToPort ==
  /\ Runs("write_to_port")
  /\ \/ ~tx_in_progress /\ tx_rbuf # <<>> /\ StartWrite
     \/ (tx_in_progress \/ tx_rbuf = <<>>) /\ NothingToDo

EndOfTransmission ==
  /\ tx_in_progress' = FALSE
  /\ ready' = Tail(ready)
  /\ UNCHANGED <<io, stopped, kernelVars, tx_buf, tx_rbuf, ownerVars,
                 senderVars, alive>>

(* A mutation: bytes that came during the transmission are not looked for. *)
WriteDoneAtOnce ==
  /\ Runs("write_done")
  /\ EndOfTransmission

(* A mutation: the flag stays set at the end of a transmission.            *)
WriteDoneForgetful ==
  /\ Runs("write_done")
  /\ \/ tx_rbuf # <<>> /\ StartWrite
     \/ tx_rbuf = <<>> /\ NothingToDo

(* The write handler: how many bytes went out is not looked at.            *)
WriteDone ==
  /\ Runs("write_done")
  /\ \/ tx_rbuf # <<>> /\ StartWrite
     \/ tx_rbuf = <<>> /\ EndOfTransmission

(* Both handlers call Close() on an error.  On the io thread that joins    *)
(* the thread with itself: std::thread::join throws, nothing catches it.   *)
CloseOnIoThread ==
  /\ Runs("read_error") \/ Runs("write_error")
  /\ alive' = FALSE
  /\ io' = "exited"
  /\ UNCHANGED <<contextVars, kernelVars, txVars, ownerVars, senderVars>>

(* run() returns when the context is stopped or has no work left.          *)
IoThreadExits ==
  /\ alive /\ io = "running"
  /\ stopped \/ (ready = <<>> /\ reading = 0 /\ writes = <<>>)
  /\ io' = "exited"
  /\ UNCHANGED <<contextVars, kernelVars, txVars, ownerVars, senderVars, alive>>

-----------------------------------------------------------------------------
(* The port: data arrives, or the oldest write takes some of tx_buf_.      *)
ReadCompletes ==
  /\ alive /\ reading > 0
  /\ reading' = reading - 1
  /\ \/ ready' = Append(ready, "read_done")
     \/ PortErrors /\ ready' = Append(ready, "read_error")
  /\ UNCHANGED <<io, stopped, writes, wire, txVars, ownerVars, senderVars,
                 alive>>

WriteCompletes ==
  /\ alive /\ writes # <<>>
  /\ writes' = Tail(writes)
  /\ \/ /\ \E n \in (IF PartialWrites THEN 1..Head(writes) ELSE {Head(writes)}) :
             wire' = wire \o SubSeq(tx_buf, 1, n)
        /\ ready' = Append(ready, "write_done")
     \/ /\ PortErrors
        /\ ready' = Append(ready, "write_error")
        /\ UNCHANGED wire
  /\ UNCHANGED <<io, stopped, reading, txVars, ownerVars, senderVars, alive>>

-----------------------------------------------------------------------------
IoThread ==
  \/ ReadFromPort \/ WriteToPort \/ WriteDone \/ CloseOnIoThread
  \/ IoThreadExits

Owner == Open \/ CloseBegin \/ CloseEnd

Sender ==
  \E t \in Senders :
    TestOpened(t) \/ \E length \in 1..Capacity : SendBytes(t, length)

Next == IoThread \/ Owner \/ Sender \/ ReadCompletes \/ WriteCompletes

(* The io thread runs, and the port finishes every write it was given.     *)
Fairness == WF_vars(IoThread) /\ WF_vars(WriteCompletes)

Spec == Init /\ [][Next]_vars /\ Fairness

-----------------------------------------------------------------------------
Handlers == {"read_start", "read_done", "read_error", "write_to_port",
             "write_done", "write_error"}

ByteSeq == Seq(1..MaxBytes)

(* Variables have their types and the ring does not outgrow its capacity.  *)
TypeOK ==
  /\ port \in {"open", "closed"} /\ io \in {"none", "running", "exited"}
  /\ owner \in {"idle", "joining"} /\ opens \in 0..MaxOpens
  /\ stopped \in BOOLEAN /\ ready \in Seq(Handlers)
  /\ reading \in Nat /\ writes \in Seq(1..Capacity)
  /\ tx_buf \in ByteSeq /\ tx_rbuf \in ByteSeq /\ Len(tx_rbuf) <= Capacity
  /\ tx_in_progress \in BOOLEAN /\ sender \subseteq Senders
  /\ sent \in 0..MaxBytes /\ wire \in ByteSeq /\ alive \in BOOLEAN

(* Whatever the port does, bytes leave in the order they were accepted and *)
(* none leaves twice.                                                      *)
WireInOrder ==
  \A i, j \in DOMAIN wire : i < j => wire[i] < wire[j]

(* What SendBytes accepted and the driver has not lost: the bytes the port *)
(* took, those of the writes under way and those in the ring.              *)
Kept == wire \o (IF writes = <<>> THEN <<>> ELSE SubSeq(tx_buf, 1, Head(writes)))
          \o tx_rbuf

(* No byte is lost on the way, although the ring would overwrite its oldest*)
(* bytes and the next transmission reuses the memory of the last without   *)
(* complaint: only a port that takes less than it is given, or fails, and  *)
(* Close during a transmission may lose bytes.                             *)
NothingLost ==
  [][\/ Len(Kept) <= Len(Kept') /\ SubSeq(Kept', 1, Len(Kept)) = Kept
     \/ writes # <<>> /\ writes' = <<>> /\ Len(wire') < Len(wire) + Head(writes)]_vars

WriteHandlers == {"write_done", "write_error"}

AwaitedHandlers == {i \in DOMAIN ready : ready[i] \in WriteHandlers}

(* tx_in_progress_ guards tx_buf_: while it is set exactly one transmission*)
(* is under way or waits for its handler, and while it is not there is     *)
(* none, across Close and Open too.  So no write starts while another one  *)
(* still reads the memory.                                                 *)
OneTransmission ==
  alive =>
    /\ Len(writes) <= 1
    /\ \A i, j \in AwaitedHandlers : i = j
    /\ writes # <<>> => AwaitedHandlers = {}
    /\ tx_in_progress <=> writes # <<>> \/ AwaitedHandlers # {}

(* No byte is stranded: while the ring holds bytes, a transmission whose   *)
(* handler will look at the ring is in progress, or a WriteToPort that     *)
(* will start one is posted.                                               *)
NothingStranded ==
  alive /\ tx_rbuf # <<>> =>
    \/ writes # <<>>
    \/ \E i \in DOMAIN ready : ready[i] \in WriteHandlers \cup {"write_to_port"}

(* Every byte SendBytes accepts leaves the ring in the end, as long as the *)
(* port stays open and works; io is "none" after an Open that failed.      *)
AllSent ==
  \A b \in 1..MaxBytes :
    sent >= b ~> \/ \A i \in DOMAIN tx_rbuf : tx_rbuf[i] # b
                 \/ owner # "idle" \/ port = "closed" \/ io = "none" \/ ~alive
=============================================================================
