------------------------------ MODULE AsyncCan ------------------------------
(***************************************************************************)
(* AsyncCAN of src/driver/async_port: a raw CAN socket, a chain of         *)
(* asynchronous reads on one io thread, and writes that are started by     *)
(* whoever calls SendFrame.  There is no transmit buffer.  asio tries a    *)
(* write at once, so a frame normally is in the socket before SendFrame    *)
(* returns; when the socket has no room the frame is either refused with an*)
(* error or left for the io thread, which then reads the caller's memory   *)
(* after the caller has returned.                                          *)
(*                                                                         *)
(* Only the object the program holds is modelled.  One that is replaced    *)
(* after Close stays allocated, since the aborted read keeps a shared_ptr, *)
(* but its io_context never runs again.                                    *)
(***************************************************************************)
EXTENDS Integers, Sequences

CONSTANTS Frames,     \* what the program puts on the bus
          Reports,    \* what the bus delivers to the program
          TxRoom,     \* frames the device queue holds
          RxRoom,     \* frames the socket's receive buffer holds
          PortErrors  \* may Open and the read fail?

Junk == <<"junk", "junk">>   \* memory that is no frame the program built
NoFrame == "none"            \* content of rcv_frame_ that is not read again

VARIABLES
  can,      \* the object: "null", "closed" or "open" (port_opened_)
  io,       \* io_thread_: "none", "running", "exited"
  stopped,  \* io_context_.stop() was called and not yet reset
  chain,    \* the read chain: "none", "posted", "reading", "received"
  rcv_frame, rx,  \* rcv_frame_; frames in the receive buffer
  tx,       \* frames in the device queue
  blocked,  \* some write waits for room and refers to a dead stack frame
  alive     \* FALSE: std::terminate

canVars == <<can, io, stopped, chain, rcv_frame, rx, tx, blocked, alive>>

CanInit ==
  /\ can = "null" /\ io = "none" /\ stopped = FALSE
  /\ chain = "none" /\ rcv_frame = NoFrame /\ rx = <<>>
  /\ tx = <<>> /\ blocked = FALSE /\ alive = TRUE

-----------------------------------------------------------------------------
(* A new object and its Open().  On failure Close() runs on the caller's   *)
(* thread and there is no io thread to join.                               *)
Open ==
  \/ /\ can' = "open" /\ io' = "running"
     /\ chain' = "posted" /\ rcv_frame' = NoFrame
     /\ rx' = <<>> /\ blocked' = FALSE
     /\ UNCHANGED <<stopped, tx, alive>>
  \/ /\ PortErrors
     /\ can' = "closed" /\ io' = "none" /\ chain' = "none"
     /\ rcv_frame' = NoFrame /\ rx' = <<>> /\ blocked' = FALSE
     /\ UNCHANGED <<stopped, tx, alive>>

(* A mutation: the context is not stopped.                                 *)
CloseBeginUnstopped == UNCHANGED canVars

(* Close(): stop the context, join the io thread, then close the socket.   *)
CloseBegin ==
  /\ stopped' = TRUE
  /\ UNCHANGED <<can, io, chain, rcv_frame, rx, tx, blocked, alive>>

(* A mutation: the io thread is detached and the context reset.            *)
CloseEndDetached ==
  /\ stopped' = FALSE /\ can' = "closed"
  /\ UNCHANGED <<io, chain, rcv_frame, rx, tx, blocked, alive>>

CloseEnd ==
  /\ io = "exited"
  /\ io' = "none" /\ stopped' = FALSE /\ can' = "closed"
  /\ UNCHANGED <<chain, rcv_frame, rx, tx, blocked, alive>>

(* SendFrame(frame): behind a waiting write it waits too; a full queue     *)
(* refuses it (ENOBUFS) or makes it wait (EAGAIN).                         *)
SendFrame(frame) ==
  /\ \/ ~blocked /\ Len(tx) < TxRoom /\ tx' = Append(tx, frame) /\ UNCHANGED blocked
     \/ blocked /\ UNCHANGED <<tx, blocked>>
     \/ ~blocked /\ Len(tx) = TxRoom /\ UNCHANGED tx /\ blocked' \in BOOLEAN
  /\ UNCHANGED <<can, io, stopped, chain, rcv_frame, rx, alive>>

-----------------------------------------------------------------------------
Runs == alive /\ io = "running" /\ ~stopped

ReadFromPort ==
  /\ Runs /\ chain = "posted"
  /\ chain' = "reading"
  /\ UNCHANGED <<can, io, stopped, rcv_frame, rx, tx, blocked, alive>>

ReadCompletes ==
  /\ Runs /\ chain = "reading" /\ rx # <<>>
  /\ rcv_frame' = Head(rx) /\ rx' = Tail(rx)
  /\ chain' = "received"
  /\ UNCHANGED <<can, io, stopped, tx, blocked, alive>>

(* The handler calls rcv_cb_ and reads on.                                 *)
HandleReceived ==
  /\ Runs /\ chain = "received"
  /\ chain' = "reading" /\ rcv_frame' = NoFrame
  /\ UNCHANGED <<can, io, stopped, rx, tx, blocked, alive>>

(* On an error the handler calls Close(), which joins the thread it runs   *)
(* on: std::thread::join throws out of io_context::run.                    *)
ReadFails ==
  /\ Runs /\ chain = "reading" /\ PortErrors
  /\ alive' = FALSE /\ io' = "exited"
  /\ UNCHANGED <<can, stopped, chain, rcv_frame, rx, tx, blocked>>

(* The io thread performs a write that waited, with whatever the memory    *)
(* holds by now.                                                           *)
WriteLate ==
  /\ Runs /\ blocked /\ Len(tx) < TxRoom
  /\ \E content \in Frames \cup {Junk} : tx' = Append(tx, content)
  /\ blocked' \in BOOLEAN
  /\ UNCHANGED <<can, io, stopped, chain, rcv_frame, rx, alive>>

IoThreadExits ==
  /\ alive /\ io = "running" /\ stopped
  /\ io' = "exited"
  /\ UNCHANGED <<can, stopped, chain, rcv_frame, rx, tx, blocked, alive>>

(* The device sends the oldest frame; a frame of the bus is received, or   *)
(* lost when the buffer is full.                                           *)
Transmit ==
  /\ alive /\ tx # <<>>
  /\ tx' = Tail(tx)
  /\ UNCHANGED <<can, io, stopped, chain, rcv_frame, rx, blocked, alive>>

Receive(frame) ==
  /\ alive /\ can = "open" /\ Len(rx) < RxRoom
  /\ rx' = Append(rx, frame)
  /\ UNCHANGED <<can, io, stopped, chain, rcv_frame, tx, blocked, alive>>

(* Variables have their types and the queues of the socket their bounds.   *)
CanTypeOK ==
  /\ can \in {"null", "closed", "open"} /\ io \in {"none", "running", "exited"}
  /\ stopped \in BOOLEAN /\ blocked \in BOOLEAN /\ alive \in BOOLEAN
  /\ chain \in {"none", "posted", "reading", "received"}
  /\ rcv_frame \in Reports \cup {NoFrame}
  /\ chain = "received" => rcv_frame # NoFrame
  /\ rx \in Seq(Reports) /\ Len(rx) <= RxRoom
  /\ tx \in Seq(Frames \cup {Junk}) /\ Len(tx) <= TxRoom
=============================================================================
