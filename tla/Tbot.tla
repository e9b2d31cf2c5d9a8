-------------------------------- MODULE Tbot --------------------------------
(***************************************************************************)
(* The TBot application of src/platform/tbot: a window whose panels are    *)
(* drawn in turn on one thread.  The CAN panel connects and disconnects    *)
(* the Messenger; the control panel compares the mode the user has selected*)
(* with the one the board last reported, asks for the selected mode as long*)
(* as they differ, and sends the drive command of the reported mode.  The  *)
(* io thread of AsyncCan stores the reports.                               *)
(*                                                                         *)
(* Wheel speeds and encoder frames are left out: they are displayed or     *)
(* passed on, and decide nothing.  The board is external.                  *)
(***************************************************************************)
EXTENDS Integers, Sequences

CONSTANTS TxRoom, RxRoom, PortErrors,
          MaxResets   \* bound: restarts of the board

ASSUME TbotAssumption ==
  /\ TxRoom \in Nat \ {0} /\ RxRoom \in Nat \ {0}
  /\ PortErrors \in BOOLEAN /\ MaxResets \in Nat

Modes == {"NonSupervised", "SupervisedPwm", "SupervisedRpm"}

VARIABLES
  can, io, stopped, chain, rcv_frame, rx, tx, blocked, alive,
  gui,         \* the GUI thread: what it draws next, or the Close it is in
  selected,    \* e, the selected radio button
  supervised,  \* Messenger::supervised_state_
  control_mode,\* the mode the control panel read in this frame
  board, resets

Supervise(mode) == <<"supervise", mode>>
Drive(mode) == <<"drive", mode>>
Frames == {Supervise(mode) : mode \in Modes} \cup {Drive(mode) : mode \in Modes}

C == INSTANCE AsyncCan WITH Reports <- Modes

canVars == <<can, io, stopped, chain, rcv_frame, rx, tx, blocked, alive>>
vars == <<canVars, gui, selected, supervised, control_mode, board, resets>>

Init ==
  /\ C!CanInit /\ gui = "control"
  /\ selected = "NonSupervised" /\ supervised = "NonSupervised"
  /\ control_mode = "NonSupervised"
  /\ board \in Modes /\ resets = 0

-----------------------------------------------------------------------------
(* A mutation: the mode is asked for when it is selected and not again.    *)
AsksOnce(e, mode) == e # selected

(* Is the mode asked for?                                                  *)
Asks(e, mode) == e # mode

Sends(frame) == can = "open" /\ C!SendFrame(frame)

(* ControlPanel::Draw reads the state once, asks for the selected mode,    *)
DrawControl(e) ==
  /\ alive /\ gui = "control"
  /\ selected' = e
  /\ control_mode' = supervised
  /\ gui' = "drive"
  /\ \/ Asks(e, supervised) /\ Sends(Supervise(e))
     \/ ~(Asks(e, supervised) /\ can = "open") /\ UNCHANGED canVars
  /\ UNCHANGED <<supervised, board, resets>>

(* and sends the drive command of the mode it has read.                    *)
DrawDrive ==
  /\ alive /\ gui = "drive"
  /\ gui' = "canbus"
  /\ Sends(Drive(control_mode)) \/ (can # "open" /\ UNCHANGED canVars)
  /\ UNCHANGED <<selected, supervised, control_mode, board, resets>>

(* CanbusPanel::Draw, where the user may press the one button it shows.    *)
NoClick == gui' = "control" /\ UNCHANGED canVars

Start == can # "open" /\ gui' = "control" /\ C!Open

Stop == can = "open" /\ gui' = "disconnecting" /\ C!CloseBegin

DrawCanbus ==
  /\ alive /\ gui = "canbus"
  /\ NoClick \/ Start \/ Stop
  /\ UNCHANGED <<selected, supervised, control_mode, board, resets>>

(* ~TbotWidget: the window was closed between two frames.                  *)
CloseWindow ==
  /\ alive /\ gui = "control"
  /\ \/ can = "open" /\ gui' = "ending" /\ C!CloseBegin
     \/ can # "open" /\ gui' = "done" /\ UNCHANGED canVars
  /\ UNCHANGED <<selected, supervised, control_mode, board, resets>>

StopReturns ==
  /\ alive
  /\ \/ gui = "disconnecting" /\ gui' = "control"
     \/ gui = "ending" /\ gui' = "done"
  /\ C!CloseEnd
  /\ UNCHANGED <<selected, supervised, control_mode, board, resets>>

-----------------------------------------------------------------------------
(* HandleCanFrame, on the io thread.                                       *)
HandleCanFrame ==
  /\ C!HandleReceived
  /\ supervised' = rcv_frame
  /\ UNCHANGED <<gui, selected, control_mode, board, resets>>

IoThread ==
  \/ HandleCanFrame
  \/ /\ \/ C!ReadFromPort \/ C!ReadCompletes \/ C!ReadFails
        \/ C!WriteLate \/ C!IoThreadExits
     /\ UNCHANGED <<gui, selected, supervised, control_mode, board, resets>>

(* The board: it takes the frames in turn, reports its mode, and a restart *)
(* returns it to its first mode.                                           *)
BoardTakes ==
  /\ C!Transmit
  /\ board' = IF Head(tx) \in {Supervise(mode) : mode \in Modes}
              THEN Head(tx)[2] ELSE board
  /\ UNCHANGED <<gui, selected, supervised, control_mode, resets>>

BoardReports ==
  /\ C!Receive(board)
  /\ UNCHANGED <<gui, selected, supervised, control_mode, board, resets>>

BoardRestarts ==
  /\ resets < MaxResets
  /\ resets' = resets + 1
  /\ board' = "NonSupervised"
  /\ UNCHANGED <<canVars, gui, selected, supervised, control_mode>>

-----------------------------------------------------------------------------
Gui ==
  DrawDrive \/ DrawCanbus \/ StopReturns \/ \E e \in Modes : DrawControl(e)

Next ==
  Gui \/ CloseWindow \/ IoThread \/ BoardTakes \/ BoardReports \/ BoardRestarts

(* Both threads run; the bus carries frames and the board reports.         *)
Fairness ==
  /\ WF_vars(Gui) /\ WF_vars(IoThread)
  /\ WF_vars(BoardTakes) /\ WF_vars(BoardReports)

Spec == Init /\ [][Next]_vars /\ Fairness

-----------------------------------------------------------------------------
(* Variables have their types and the queues of the socket their bounds.   *)
TypeOK ==
  /\ C!CanTypeOK
  /\ gui \in {"control", "drive", "canbus", "disconnecting", "ending", "done"}
  /\ selected \in Modes /\ supervised \in Modes
  /\ control_mode \in Modes /\ board \in Modes
  /\ resets \in 0..MaxResets

(* HandleCanFrame writes the Messenger without a lock, on the io thread.   *)
(* It runs only while the port is open: once Stop has returned, or the     *)
(* window is gone, no frame is handled, whatever was received before.      *)
HandledWhileOpen == [][HandleCanFrame => can = "open" /\ gui # "done"]_vars

(* Disconnecting and closing the window end: unless a read error has ended *)
(* the program, Close() returns although the io thread waits in a read.    *)
StopEnds == gui \in {"disconnecting", "ending"} ~> gui \in {"control", "done"} \/ ~alive

(* The device queue has room at the start of a frame, again and again. If  *)
(* it were full at every request, each slot that becomes free could go to  *)
(* the drive command that follows, and the request would never be sent.    *)
BusKeepsUp == []<>(gui = "control" /\ Len(tx) < TxRoom)

(* A mode that stays selected on a connection that stays open is the mode  *)
(* of the board in the end, on a bus that keeps up: requests refused by a  *)
(* full queue, reports that were lost or are old, and restarts of the      *)
(* board are made up for.                                                  *)
ModeAgreed ==
  BusKeepsUp =>
    \A mode \in Modes :
      <>[](alive /\ can = "open" /\ ~stopped /\ selected = mode /\ ~blocked)
        => <>[](board = mode)
=============================================================================
