-------------------------- MODULE ApplicationProofs --------------------------
(***************************************************************************)
(* What is proved of the applications.  SbotSystem: its types, and that a  *)
(* stopped robot stays stopped, for every number of axes, queue size and   *)
(* timeout, wherever in Initialize() or Run() the signal comes.  Tbot: its *)
(* types, and that frames are handled only while the port is open, for     *)
(* sockets with any room.                                                  *)
(***************************************************************************)
EXTENDS SbotSystem, TLAPS

(* Of Tbot, with its names.                                                *)
CONSTANTS TxRoom, RxRoom, PortErrors, MaxResets

VARIABLES
  can, io, stopped, chain, rcv_frame, rx, tx, blocked, alive,
  gui, selected, supervised, control_mode, board, resets

T == INSTANCE Tbot

-----------------------------------------------------------------------------
(* The types of SbotSystem.                                                *)

(* A queue that accepts an element stays one and within its limit.         *)
LEMMA PushType ==
  ASSUME NEW S, NEW q \in Seq(S), NEW x \in S, NEW n \in Nat \ {0}, Len(q) <= n
  PROVE  Push(q, x, n) \in Seq(S) /\ Len(Push(q, x, n)) <= n
<1>1. CASE Len(q) = n
  <2>1. q # <<>> /\ Tail(q) \in Seq(S) /\ Len(Tail(q)) = n - 1
    BY <1>1
  <2> QED BY <1>1, <2>1 DEF Push
<1>2. CASE Len(q) # n
  BY <1>2 DEF Push
<1> QED BY <1>1, <1>2

(* An element that is taken leaves a shorter queue.                        *)
LEMMA PopType ==
  ASSUME NEW S, NEW q \in Seq(S), CanPop(q)
  PROVE  Front(q) \in S /\ Rest(q) \in Seq(S) /\ Len(Rest(q)) <= Len(q)
BY DEF CanPop, Front, Rest

(* The watchdog and the scaling yield twists.                              *)
LEMMA TwistTypes ==
  /\ ZeroTwist \in Twists
  /\ vel \in Twists => Watched \in Twists /\ Scaled(Watched) \in Twists
<1>1. 0 \in Speeds
  BY SbotAssumption DEF Speeds
<1>2. ZeroTwist \in Twists
  BY <1>1 DEF ZeroTwist, Twists
<1>3. ASSUME vel \in Twists PROVE Watched \in Twists
  BY <1>2, <1>3 DEF Watched
<1>4. \A v \in Twists : Scaled(v) \in Twists
  BY <1>1 DEF Scaled, Twists
<1> QED BY <1>2, <1>3, <1>4

(* What a message of the receiver is turned into.                          *)
LEMMA MessageEvents ==
  ASSUME InputType = "rc", NEW msg \in RcMessages
  PROVE  LeverEvents(msg) \o AxisEvents(msg) \in Seq(Pushes)
<1>1. LeverEvents(msg) \in Seq(Pushes)
  <2>1. msg.mode \in ModeEvent
    BY DEF ModeEvent, RcMessages
  <2>2. [queue |-> "mode", item |-> msg.mode] \in Pushes
    BY <2>1 DEF Pushes
  <2> QED BY <2>2 DEF LeverEvents
<1> DEFINE moved(a) == IF a \in Axes /\ prev_msg.axes[a] # msg.axes[a]
             THEN <<[queue |-> "axis", item |-> [axis |-> a, value |-> msg.axes[a]]]>>
             ELSE <<>>
<1>2. \A a : moved(a) \in Seq(Pushes)
  <2>1. ASSUME NEW a \in Axes
        PROVE  [queue |-> "axis", item |-> [axis |-> a, value |-> msg.axes[a]]] \in Pushes
    <3>1. [axis |-> a, value |-> msg.axes[a]] \in AxisEvent
      BY DEF AxisEvent, RcMessages
    <3> QED BY <3>1 DEF Pushes
  <2> QED BY <2>1
<1>3. AxisEvents(msg) = moved("kX") \o moved("kY") \o moved("kRX")
  BY DEF AxisEvents
<1> HIDE DEF moved
<1>4. AxisEvents(msg) \in Seq(Pushes)
  BY <1>2, <1>3
<1> QED BY <1>1, <1>4

(* The end of the process.                                                 *)
LEMMA ExitTypes ==
  ASSUME TypeOK, NEW how \in {"done", "crashed"}, Exit(how)
  PROVE  TypeOK'
<1>1. main' \in MainStates
  BY DEF Exit, MainStates
<1>2. outbox' \in Seq(Pushes)
  BY DEF Exit
<1> QED
  BY <1>1, <1>2 DEF Exit, TypeOK, fsmVars, robotVars, flagVars, queueVars

(* The main thread takes a mutex.                                          *)
LEMMA AcquireTypes ==
  ASSUME TypeOK, NEW pc, NEW queue \in {"axis", "command", "mode"}, Acquire(pc, queue)
  PROVE  TypeOK'
BY DEF Acquire, TypeOK, fsmVars, robotVars, flagVars, inputVars, queueVars

(* Every variable of SbotSystem keeps its type, and no queue outgrows its  *)
(* limit, whatever the operator does and wherever the signal comes.        *)
THEOREM TypeCorrect == Spec => []TypeOK
<1> USE SbotAssumption
<1>1. Init => TypeOK
  <2> SUFFICES ASSUME Init PROVE TypeOK
    OBVIOUS
  <2>1. age \in 0..Timeout + 1 /\ frames \in 0..MaxFrames
    BY DEF Init
  <2>2. /\ vel \in Twists /\ twist \in Twists /\ motors \in Twists
        /\ prev_msg \in RcMessages \cup {NoMessage}
    BY TwistTypes DEF Init
  <2>3. /\ outbox \in Seq(Pushes) /\ axis_queue \in Seq(AxisEvent)
        /\ mode_queue \in Seq(ModeEvent) /\ command_queue \in Seq(Twists)
        /\ Len(axis_queue) = 0 /\ Len(mode_queue) = 0 /\ Len(command_queue) = 0
    BY DEF Init
  <2>4. /\ Len(axis_queue) <= QueueSize /\ Len(mode_queue) <= QueueSize
        /\ Len(command_queue) <= QueueSize
    BY <2>3
  <2>5. main \in MainStates /\ handler \in HandlerStates
    BY DEF Init, MainStates, Starting, HandlerStates
  <2> QED BY <2>1, <2>2, <2>3, <2>4, <2>5 DEF Init, TypeOK
<1>2. TypeOK /\ [Next]_vars => TypeOK'
  <2> SUFFICES ASSUME TypeOK, [Next]_vars PROVE TypeOK'
    OBVIOUS
  <2> USE DEF TypeOK, threadVars, fsmVars, robotVars, flagVars, inputVars, queueVars
  <2>1. CASE MainThread
    <3>1. CASE OpenInput
      <4>1. CASE Exit("done")
        BY <4>1, ExitTypes
      <4> QED BY <3>1, <4>1 DEF OpenInput, MainStates, Starting
    <3>2. CASE OpenBase
      <4>1. CASE Exit("done")
        BY <4>1, ExitTypes
      <4> QED BY <3>2, <4>1 DEF OpenBase, MainStates, Starting
    <3>3. CASE TestMainLoop
      <4>1. CASE Exit("done")
        BY <4>1, ExitTypes
      <4>2. CASE ~Exit("done")
        <5>1. main' = "drain" /\ UNCHANGED <<handler, held, fsmVars, control, robotVars,
                                            flagVars, inputVars, queueVars>>
          BY <3>3, <4>2, Zenon DEF TestMainLoop
        <5>2. main' \in MainStates
          BY <5>1 DEF MainStates
        <5> QED BY <5>1, <5>2
      <4> QED BY <4>1, <4>2
    <3>4. CASE SetRcCallback \/ CreateFsm
      BY <3>4 DEF SetRcCallback, CreateFsm, MainStates, Starting
    <3>9. CASE SpawnControl \/ EnterMainLoop
      BY <3>9 DEF SpawnControl, EnterMainLoop, MainStates
    <3>5. CASE DrainAxisEvents
      <4>1. CASE Acquire("drain", "axis")
        BY <4>1, AcquireTypes
      <4>2. CASE CanPop(axis_queue) /\ ~Acquire("drain", "axis")
        <5>1. /\ Front(axis_queue) \in AxisEvent /\ Rest(axis_queue) \in Seq(AxisEvent)
              /\ Len(Rest(axis_queue)) <= Len(axis_queue)
          BY <4>2, PopType
        <5>2. [vel EXCEPT ![Front(axis_queue).axis] = -Front(axis_queue).value] \in Twists
          BY <5>1 DEF Twists, Speeds, AxisEvent
        <5>3. 0 \in 0..Timeout + 1 /\ Len(Rest(axis_queue)) <= QueueSize
          BY <5>1
        <5> QED BY <3>5, <4>2, <5>1, <5>2, <5>3 DEF DrainAxisEvents
      <4>3. CASE ~CanPop(axis_queue) /\ ~Acquire("drain", "axis")
        BY <3>5, <4>3 DEF DrainAxisEvents, MainStates
      <4> QED BY <4>1, <4>2, <4>3
    <3>6. CASE PushCommand
      <4>1. CASE Acquire("command", "command")
        BY <4>1, AcquireTypes
      <4>2. CASE ~Acquire("command", "command")
        <5>1. Watched \in Twists /\ Scaled(Watched) \in Twists
          BY TwistTypes
        <5>2. /\ Push(command_queue, Scaled(Watched), QueueSize) \in Seq(Twists)
              /\ Len(Push(command_queue, Scaled(Watched), QueueSize)) <= QueueSize
          BY <5>1, PushType
        <5> QED BY <3>6, <4>2, <5>1, <5>2 DEF PushCommand, MainStates
      <4> QED BY <4>1, <4>2
    <3>7. CASE Transit
      <4>1. CASE Acquire("transit", "mode")
        BY <4>1, AcquireTypes
      <4>2. CASE CanPop(mode_queue) /\ ~Acquire("transit", "mode")
        <5>1. /\ Front(mode_queue) \in ModeEvent /\ Rest(mode_queue) \in Seq(ModeEvent)
              /\ Len(Rest(mode_queue)) <= Len(mode_queue)
          BY <4>2, PopType
        <5>2. NextMode(Front(mode_queue)) \in {"Auto", "Manual"}
          BY <5>1 DEF NextMode, ModeEvent
        <5> QED BY <3>7, <4>2, <5>1, <5>2, TwistTypes DEF Transit, MainStates
      <4>3. CASE ~CanPop(mode_queue) /\ ~Acquire("transit", "mode")
        BY <3>7, <4>3 DEF Transit, MainStates
      <4> QED BY <4>1, <4>2, <4>3
    <3>8. CASE Sleep
      BY <3>8 DEF Sleep, MainStates
    <3> QED BY <2>1, <3>1, <3>2, <3>3, <3>4, <3>5, <3>6, <3>7, <3>8, <3>9 DEF MainThread
  <2>2. CASE ControlThread
    <3>1. CASE EnterControlLoop \/ TestControlLoop \/ UpdateBase
      BY <3>1 DEF EnterControlLoop, TestControlLoop, UpdateBase
    <3>2. CASE PopCommand
      <4>1. CASE CanPop(command_queue)
        <5>1. /\ Front(command_queue) \in Twists /\ Rest(command_queue) \in Seq(Twists)
              /\ Len(Rest(command_queue)) <= Len(command_queue)
          BY <4>1, PopType
        <5>2. Len(Rest(command_queue)) <= QueueSize
          BY <5>1
        <5> QED BY <3>2, <4>1, <5>1, <5>2 DEF PopCommand
      <4>2. CASE ~CanPop(command_queue)
        BY <3>2, <4>2 DEF PopCommand
      <4> QED BY <4>1, <4>2
    <3> QED BY <2>2, <3>1, <3>2 DEF ControlThread
  <2>3. CASE EventThread
    <3>1. ASSUME NEW msg \in RcMessages, NEW frame_loss \in BOOLEAN,
                 OnSbusMsgReceived(msg, frame_loss)
          PROVE  TypeOK'
      <4>1. CASE main \in Starting \/ frame_loss
        BY <3>1, <4>1 DEF OnSbusMsgReceived
      <4>2. CASE ~(main \in Starting \/ frame_loss)
        <5>1. outbox' \in Seq(Pushes)
          BY <3>1, <4>2, MessageEvents DEF OnSbusMsgReceived, Callback
        <5>2. prev_msg' \in RcMessages /\ frames' \in 0..MaxFrames
          BY <3>1, <4>2 DEF OnSbusMsgReceived, Callback, Reading
        <5> QED BY <3>1, <4>2, <5>1, <5>2 DEF OnSbusMsgReceived, Callback, Pushes
      <4> QED BY <3>1, <4>1, <4>2 DEF OnSbusMsgReceived
    <3>2. CASE OnJsButtonEvent
      <4>1. outbox' \in Seq(Pushes)
        BY <3>2 DEF OnJsButtonEvent, Callback, Pushes, ModeEvent
      <4> QED BY <3>2, <4>1 DEF OnJsButtonEvent, Callback, Reading, Pushes
    <3>3. ASSUME NEW axis \in Axes, NEW value \in AxisValues, OnJsAxisEvent(axis, value)
          PROVE  TypeOK'
      <4>1. outbox' \in Seq(Pushes)
        BY <3>3 DEF OnJsAxisEvent, Callback, Pushes, AxisEvent
      <4> QED BY <3>3, <4>1 DEF OnJsAxisEvent, Callback, Reading, Pushes
    <3>4. CASE PushEvent
      <4> DEFINE e == Head(outbox)
      <4>1. e \in Pushes /\ Tail(outbox) \in Seq(Pushes)
        BY <3>4 DEF PushEvent
      <4>2. CASE e.queue = "axis"
        <5>1. e.item \in AxisEvent
          BY <4>1, <4>2 DEF Pushes
        <5>2. /\ Push(axis_queue, e.item, QueueSize) \in Seq(AxisEvent)
              /\ Len(Push(axis_queue, e.item, QueueSize)) <= QueueSize
          BY <5>1, PushType
        <5> QED BY <3>4, <4>1, <4>2, <5>2 DEF PushEvent, Pushes
      <4>3. CASE e.queue = "mode"
        <5>1. e.item \in ModeEvent
          BY <4>1, <4>3 DEF Pushes
        <5>2. /\ Push(mode_queue, e.item, QueueSize) \in Seq(ModeEvent)
              /\ Len(Push(mode_queue, e.item, QueueSize)) <= QueueSize
          BY <5>1, PushType
        <5> QED BY <3>4, <4>1, <4>3, <5>2 DEF PushEvent, Pushes
      <4> QED BY <4>1, <4>2, <4>3 DEF Pushes
    <3>5. CASE TestKeepRunning \/ ReadError
      BY <3>5 DEF TestKeepRunning, ReadError
    <3> QED BY <2>3, <3>1, <3>2, <3>3, <3>4, <3>5 DEF EventThread
  <2>4. CASE Sigint
    BY <2>4 DEF Sigint, HandlerStates
  <2>5. CASE Stop
    <3>1. CASE StopControl
      BY <3>1 DEF StopControl, HandlerStates
    <3>4. CASE JoinControl
      BY <3>4 DEF JoinControl, HandlerStates
    <3>5. CASE StopMainLoop
      BY <3>5 DEF StopMainLoop, HandlerStates
    <3>2. CASE CloseInput
      <4>1. CASE Exit("crashed")
        BY <4>1, ExitTypes
      <4> QED BY <3>2, <4>1 DEF CloseInput, HandlerStates
    <3>3. CASE StopMotors
      <4>1. CASE Exit("crashed")
        BY <4>1, ExitTypes
      <4> QED BY <3>3, <4>1, TwistTypes DEF StopMotors, HandlerStates
    <3>6. CASE JoinInput
      BY <3>6 DEF JoinInput, HandlerStates
    <3> QED BY <2>5, <3>1, <3>2, <3>3, <3>4, <3>5, <3>6 DEF Stop
  <2>6. CASE Terminated \/ UNCHANGED vars
    BY <2>6 DEF Terminated, vars
  <2> QED BY <2>1, <2>2, <2>3, <2>4, <2>5, <2>6 DEF Next
<1> QED BY <1>1, <1>2, PTL DEF Spec

-----------------------------------------------------------------------------
(* Stop() of SbotSystem.                                                   *)
USE SbotAssumption

BeforeControl == Starting \cup {"spawn"}

PastJoin == {"input", "join_input", "zero", "main_flag", "returned"}

PastInput == {"zero", "main_flag", "returned"}

(* Nothing that moves is stored anywhere between the sticks and the motors.*)
NotMoving ==
  /\ vel = ZeroTwist /\ twist = ZeroTwist /\ motors = ZeroTwist
  /\ command_queue \in Seq({ZeroTwist})

(* Events still in the axis queue are dropped by AutoMode, and ManualMode  *)
(* is not reached before the queue is empty.                               *)
AxisEventsUnused ==
  /\ mode \in {"Auto", "Manual"}
  /\ mode = "Manual" \/ main \in {"command", "transit"} => axis_queue = <<>>

(* Why RobotStaysStopped holds.  Once Stop() is past the join, either the  *)
(* control thread is gone, or it has yet to be started: then the input is  *)
(* closed before a ManualMode could use it, so the thread will only ever   *)
(* see zero commands.                                                      *)
StopInv ==
  /\ control = "none" <=> main \in BeforeControl
  /\ main \in BeforeControl => NotMoving /\ mode = "Auto"
  /\ handler \in PastInput => event = "stopped" /\ outbox = <<>>
  /\ handler \in {"main_flag", "returned"} =>
       main \notin {"init_input", "init_callback"}
  /\ handler \in PastJoin =>
       \/ control = "exited"
       \/ /\ NotMoving /\ AxisEventsUnused
          /\ main \in BeforeControl \/ handler = "returned"
  /\ RobotStaysStopped

(* Scaling and the watchdog leave a robot at rest at rest.                 *)
LEMMA RestStaysAtRest ==
  ASSUME vel = ZeroTwist
  PROVE  Watched = ZeroTwist /\ Scaled(ZeroTwist) = ZeroTwist
BY DEF Watched, Scaled, ZeroTwist

(* A queue of zero commands accepts another one.                           *)
LEMMA PushZero ==
  ASSUME NEW z, NEW q \in Seq({z})
  PROVE  Push(q, z, QueueSize) \in Seq({z})
<1>1. CASE Len(q) = QueueSize
  <2>1. q # <<>>
    BY <1>1
  <2> QED BY <2>1 DEF Push
<1>2. CASE Len(q) # QueueSize
  BY <1>2 DEF Push
<1> QED BY <1>1, <1>2

(* A queue of zero commands yields a zero command.                         *)
LEMMA PopZero ==
  ASSUME NEW z, NEW q \in Seq({z}), CanPop(q)
  PROVE  Front(q) = z /\ Rest(q) \in Seq({z})
BY DEF CanPop, Front, Rest

-----------------------------------------------------------------------------
(* The invariant of the stop protocol, with what each thread may disturb.  *)
THEOREM StopInvariant == Spec => []StopInv
<1> USE DEF BeforeControl, Starting, PastJoin, PastInput
<1>1. Init => StopInv
  BY DEF Init, StopInv, NotMoving, AxisEventsUnused, RobotStaysStopped
<1>2. StopInv /\ [Next]_vars => StopInv'
  <2> SUFFICES ASSUME StopInv, [Next]_vars PROVE StopInv'
    OBVIOUS
  <2> USE DEF StopInv, RobotStaysStopped, NotMoving, AxisEventsUnused
  <2>1. CASE MainThread
    <3>1. CASE OpenInput \/ SetRcCallback \/ OpenBase \/ CreateFsm
      BY <3>1 DEF OpenInput, SetRcCallback, OpenBase, CreateFsm, At, Exit,
                  fsmVars, robotVars, queueVars, inputVars
    <3>2. CASE SpawnControl \/ EnterMainLoop \/ TestMainLoop
      BY <3>2 DEF SpawnControl, EnterMainLoop, TestMainLoop, At, Exit,
                  fsmVars, robotVars, queueVars, inputVars
    <3>3. CASE DrainAxisEvents
      BY <3>3 DEF DrainAxisEvents, Acquire, At, CanPop, fsmVars, robotVars,
                  queueVars, inputVars
    <3>4. CASE PushCommand
      BY <3>4, RestStaysAtRest, PushZero
         DEF PushCommand, Acquire, At, fsmVars, robotVars, queueVars, inputVars
    <3>5. CASE Transit \/ Sleep
      BY <3>5 DEF Transit, Sleep, Acquire, At, NextMode, fsmVars, robotVars,
                  queueVars, inputVars
    <3> QED BY <2>1, <3>1, <3>2, <3>3, <3>4, <3>5 DEF MainThread
  <2>2. CASE ControlThread
    <3>1. CASE EnterControlLoop \/ TestControlLoop \/ UpdateBase
      BY <3>1 DEF EnterControlLoop, TestControlLoop, UpdateBase, threadVars,
                  fsmVars, robotVars, inputVars, queueVars
    <3>2. CASE PopCommand
      <4>1. ASSUME NotMoving PROVE NotMoving'
        <5>1. CASE CanPop(command_queue)
          <6>1. /\ Front(command_queue) = ZeroTwist
                /\ Rest(command_queue) \in Seq({ZeroTwist})
            BY <4>1, <5>1, PopZero
          <6>2. vel' = vel /\ motors' = motors
            BY <3>2 DEF PopCommand, fsmVars
          <6>3. /\ twist' = Front(command_queue)
                /\ command_queue' = Rest(command_queue)
            BY <3>2, <5>1 DEF PopCommand
          <6>4. ZeroTwist' = ZeroTwist
            BY DEF ZeroTwist
          <6> QED BY <4>1, <6>1, <6>2, <6>3, <6>4
        <5>2. CASE ~CanPop(command_queue)
          BY <3>2, <4>1, <5>2 DEF PopCommand, fsmVars
        <5> QED BY <5>1, <5>2
      <4>2. main \notin BeforeControl /\ control # "none" /\ control' # "none"
        BY <3>2 DEF PopCommand
      <4>3. UNCHANGED <<threadVars, fsmVars, motors, inputVars, axis_queue>>
        BY <3>2 DEF PopCommand
      <4> HIDE DEF NotMoving
      <4> QED BY <4>1, <4>2, <4>3, <3>2
              DEF threadVars, fsmVars, inputVars, PopCommand
    <3> QED BY <2>2, <3>1, <3>2 DEF ControlThread
  <2>3. CASE EventThread
    <3>1. UNCHANGED <<threadVars, fsmVars, control, robotVars, command_queue>>
      BY <2>3 DEF EventThread, OnSbusMsgReceived, OnJsButtonEvent,
                  OnJsAxisEvent, PushEvent, TestKeepRunning, ReadError, Callback,
                  vars, queueVars
    <3>2. CASE handler \in PastInput
      BY <2>3, <3>1, <3>2
         DEF EventThread, OnSbusMsgReceived, OnJsButtonEvent, OnJsAxisEvent,
             PushEvent, TestKeepRunning, ReadError, Callback, Reading, vars, queueVars,
             threadVars, fsmVars, robotVars, inputVars
    <3>3. CASE handler \notin PastInput
      BY <3>1, <3>3 DEF threadVars, fsmVars, robotVars
    <3> QED BY <3>2, <3>3
  <2>4. CASE Sigint
    BY <2>4 DEF Sigint, fsmVars, robotVars, inputVars, queueVars
  <2>5. CASE Stop
    BY <2>5 DEF Stop, StopControl, JoinControl, CloseInput, JoinInput,
                StopMotors, StopMainLoop, Exit, fsmVars, robotVars, inputVars, queueVars
  <2>6. CASE Terminated \/ UNCHANGED vars
    BY <2>6 DEF Terminated, vars, threadVars, fsmVars, robotVars, inputVars,
                queueVars
  <2> QED BY <2>1, <2>2, <2>3, <2>4, <2>5, <2>6 DEF Next
<1> QED BY <1>1, <1>2, PTL DEF Spec

(* Once Stop() has zeroed the motors nothing moves them again, whatever    *)
(* the main thread was doing when the signal came.                         *)
THEOREM StoppedForGood == Spec => []RobotStaysStopped
<1>1. StopInv => RobotStaysStopped
  BY DEF StopInv
<1> QED BY <1>1, StopInvariant, PTL

-----------------------------------------------------------------------------
(* Tbot.  There is room for a frame in either direction.                   *)
HIDE SbotAssumption

Rooms == TxRoom \in Nat \ {0} /\ RxRoom \in Nat \ {0} /\ MaxResets \in Nat

(* A frame is stored, refused or waits.                                    *)
LEMMA SendFrameType ==
  ASSUME Rooms, T!TypeOK, NEW frame \in T!Frames, T!C!SendFrame(frame)
  PROVE  T!C!CanTypeOK'
<1> USE DEF T!TypeOK, T!C!CanTypeOK
<1>1. tx' \in Seq(T!Frames \cup {T!C!Junk}) /\ Len(tx') <= TxRoom
  <2>1. CASE tx' = tx
    BY <2>1
  <2>2. CASE Len(tx) < TxRoom /\ tx' = Append(tx, frame)
    <3>1. frame \in T!Frames \cup {T!C!Junk} /\ Len(tx) \in Nat
      OBVIOUS
    <3>2. Append(tx, frame) \in Seq(T!Frames \cup {T!C!Junk}) /\ Len(Append(tx, frame)) = Len(tx) + 1
      BY <3>1
    <3> QED BY <2>2, <3>1, <3>2 DEF Rooms
  <2> QED BY <2>1, <2>2 DEF T!C!SendFrame
<1>2. blocked' \in BOOLEAN
  BY DEF T!C!SendFrame
<1>3. UNCHANGED <<can, io, stopped, chain, rcv_frame, rx, alive>>
  BY DEF T!C!SendFrame
<1> QED BY <1>1, <1>2, <1>3

(* Every variable of Tbot keeps its type, and both queues of the socket    *)
(* their bound: SendFrame never puts a frame where there is no room.       *)
THEOREM TbotTypeCorrect ==
  ASSUME Rooms
  PROVE  T!Spec => []T!TypeOK
<1> USE DEF T!TypeOK, T!C!CanTypeOK, T!canVars
<1>1. T!Init => T!TypeOK
  <2> SUFFICES ASSUME T!Init PROVE T!TypeOK
    OBVIOUS
  <2>1. rx = <<>> /\ tx = <<>> /\ rcv_frame = T!C!NoFrame /\ chain = "none"
    BY DEF T!Init, T!C!CanInit
  <2>2. /\ rx \in Seq(T!Modes) /\ tx \in Seq(T!Frames \cup {T!C!Junk})
        /\ Len(rx) <= RxRoom /\ Len(tx) <= TxRoom /\ resets \in 0..MaxResets
    BY <2>1 DEF Rooms, T!Init
  <2> QED BY <2>1, <2>2 DEF T!Init, T!C!CanInit, T!Modes
<1>2. T!TypeOK /\ [T!Next]_(T!vars) => T!TypeOK'
  <2> SUFFICES ASSUME T!TypeOK, [T!Next]_(T!vars) PROVE T!TypeOK'
    OBVIOUS
  <2>1. CASE T!DrawCanbus
    <3>1. CASE T!Start
      <4>1. rx' = <<>> /\ rcv_frame' = T!C!NoFrame /\ chain' \in {"posted", "none"}
        BY <3>1 DEF T!Start, T!C!Open
      <4>2. rx' \in Seq(T!Modes) /\ Len(rx') <= RxRoom
        BY <4>1 DEF Rooms
      <4> QED BY <2>1, <3>1, <4>1, <4>2 DEF T!DrawCanbus, T!Start, T!C!Open
    <3>2. CASE T!NoClick \/ T!Stop
      BY <2>1, <3>2 DEF T!DrawCanbus, T!NoClick, T!Stop, T!C!CloseBegin
    <3> QED BY <2>1, <3>1, <3>2 DEF T!DrawCanbus
  <2>2. CASE T!StopReturns
    BY <2>2 DEF T!StopReturns, T!C!CloseEnd
  <2>3. ASSUME NEW e \in T!Modes, T!DrawControl(e) PROVE T!TypeOK'
    <3>1. T!C!CanTypeOK'
      <4>1. CASE T!Sends(T!Supervise(e))
        <5>1. T!Supervise(e) \in T!Frames
          BY DEF T!Frames
        <5> QED BY <4>1, <5>1, SendFrameType DEF T!Sends
      <4>2. CASE UNCHANGED T!canVars
        BY <4>2
      <4> QED BY <2>3, <4>1, <4>2 DEF T!DrawControl
    <3>2. /\ UNCHANGED <<supervised, board, resets>>
          /\ selected' = e /\ control_mode' = supervised /\ gui' = "drive"
      BY <2>3 DEF T!DrawControl
    <3> QED BY <3>1, <3>2
  <2>10. CASE T!DrawDrive
    <3>1. T!C!CanTypeOK'
      <4>1. CASE T!Sends(T!Drive(control_mode))
        <5>1. T!Drive(control_mode) \in T!Frames
          BY DEF T!Frames
        <5> QED BY <4>1, <5>1, SendFrameType DEF T!Sends
      <4>2. CASE UNCHANGED T!canVars
        BY <4>2
      <4> QED BY <2>10, <4>1, <4>2 DEF T!DrawDrive
    <3>2. /\ UNCHANGED <<selected, supervised, control_mode, board, resets>>
          /\ gui' = "canbus"
      BY <2>10 DEF T!DrawDrive
    <3> QED BY <3>1, <3>2
  <2>4. CASE T!CloseWindow
    BY <2>4 DEF T!CloseWindow, T!C!CloseBegin
  <2>5. CASE T!IoThread
    <3>1. CASE T!HandleCanFrame
      BY <3>1 DEF T!HandleCanFrame, T!C!HandleReceived, T!C!NoFrame
    <3>2. CASE T!C!ReadFromPort \/ T!C!ReadFails \/ T!C!IoThreadExits
      BY <2>5, <3>2
         DEF T!IoThread, T!HandleCanFrame, T!C!HandleReceived, T!C!ReadFromPort,
             T!C!ReadFails, T!C!IoThreadExits
    <3>3. CASE T!C!ReadCompletes
      <4>1. Head(rx) \in T!Modes /\ Tail(rx) \in Seq(T!Modes) /\ Len(Tail(rx)) <= RxRoom
        BY <3>3 DEF T!C!ReadCompletes, Rooms
      <4>2. rcv_frame' \in T!Modes /\ rcv_frame' # T!C!NoFrame
        BY <3>3, <4>1 DEF T!C!ReadCompletes, T!Modes, T!C!NoFrame
      <4>3. UNCHANGED <<gui, selected, supervised, control_mode, board, resets>>
        BY <2>5, <3>3
           DEF T!IoThread, T!HandleCanFrame, T!C!HandleReceived, T!C!ReadCompletes
      <4> QED BY <3>3, <4>1, <4>2, <4>3 DEF T!C!ReadCompletes
    <3>4. CASE T!C!WriteLate
      <4>1. PICK content \in T!Frames \cup {T!C!Junk} : tx' = Append(tx, content)
        BY <3>4 DEF T!C!WriteLate
      <4>2. tx' \in Seq(T!Frames \cup {T!C!Junk}) /\ Len(tx') <= TxRoom
        BY <3>4, <4>1 DEF T!C!WriteLate, Rooms
      <4>3. /\ UNCHANGED <<can, io, stopped, chain, rcv_frame, rx, alive>>
            /\ blocked' \in BOOLEAN
        BY <3>4 DEF T!C!WriteLate
      <4>4. UNCHANGED <<gui, selected, supervised, control_mode, board, resets>>
        BY <2>5, <4>3, <3>4
           DEF T!IoThread, T!HandleCanFrame, T!C!HandleReceived, T!C!WriteLate
      <4> QED BY <4>2, <4>3, <4>4
    <3> QED BY <2>5, <3>1, <3>2, <3>3, <3>4 DEF T!IoThread
  <2>6. CASE T!BoardTakes
    <3>1. Tail(tx) \in Seq(T!Frames \cup {T!C!Junk}) /\ Len(Tail(tx)) <= TxRoom
      BY <2>6 DEF T!BoardTakes, T!C!Transmit, Rooms
    <3>2. board' \in T!Modes
      BY <2>6 DEF T!BoardTakes, T!Supervise
    <3> QED BY <2>6, <3>1, <3>2 DEF T!BoardTakes, T!C!Transmit
  <2>7. CASE T!BoardReports
    <3>1. Append(rx, board) \in Seq(T!Modes)
      OBVIOUS
    <3>2. rx' = Append(rx, board) /\ Len(rx') <= RxRoom
      BY <2>7 DEF T!BoardReports, T!C!Receive, Rooms
    <3> QED BY <2>7, <3>1, <3>2 DEF T!BoardReports, T!C!Receive
  <2>8. CASE T!BoardRestarts
    BY <2>8 DEF T!BoardRestarts, Rooms, T!Modes
  <2>9. CASE UNCHANGED T!vars
    BY <2>9 DEF T!vars
  <2> QED BY <2>1, <2>2, <2>3, <2>4, <2>5, <2>6, <2>7, <2>8, <2>9, <2>10
        DEF T!Next, T!Gui
<1> QED BY <1>1, <1>2, PTL DEF T!Spec

-----------------------------------------------------------------------------
(* The io thread runs only for an open port and a window that is there:    *)
(* whoever leaves either state has joined it.                              *)
RunsWhileOpen == io = "running" => can = "open" /\ gui # "done"

(* The handler of frames, which writes the Messenger without a lock, never *)
(* runs for a closed port or a window that is gone.                        *)
THEOREM HandledInTime == T!Spec => T!HandledWhileOpen
<1>1. T!Init => RunsWhileOpen
  BY DEF T!Init, T!C!CanInit, RunsWhileOpen
<1>2. RunsWhileOpen /\ [T!Next]_(T!vars) => RunsWhileOpen'
  <2> SUFFICES ASSUME RunsWhileOpen, [T!Next]_(T!vars) PROVE RunsWhileOpen'
    OBVIOUS
  <2> USE DEF RunsWhileOpen, T!canVars
  <2>1. CASE T!DrawCanbus
    BY <2>1 DEF T!DrawCanbus, T!NoClick, T!Start, T!Stop, T!C!Open, T!C!CloseBegin
  <2>2. CASE T!StopReturns
    BY <2>2 DEF T!StopReturns, T!C!CloseEnd
  <2>3. ASSUME NEW e \in T!Modes, T!DrawControl(e) PROVE RunsWhileOpen'
    BY <2>3 DEF T!DrawControl, T!Sends, T!C!SendFrame
  <2>10. CASE T!DrawDrive
    BY <2>10 DEF T!DrawDrive, T!Sends, T!C!SendFrame
  <2>4. CASE T!CloseWindow
    BY <2>4 DEF T!CloseWindow, T!C!CloseBegin
  <2>5. CASE T!IoThread
    BY <2>5 DEF T!IoThread, T!HandleCanFrame, T!C!HandleReceived, T!C!ReadFromPort,
                T!C!ReadCompletes, T!C!ReadFails, T!C!WriteLate, T!C!IoThreadExits
  <2>6. CASE T!BoardTakes
    BY <2>6 DEF T!BoardTakes, T!C!Transmit
  <2>7. CASE T!BoardReports
    BY <2>7 DEF T!BoardReports, T!C!Receive
  <2>8. CASE T!BoardRestarts
    BY <2>8 DEF T!BoardRestarts
  <2>9. CASE UNCHANGED T!vars
    BY <2>9 DEF T!vars
  <2> QED BY <2>1, <2>2, <2>3, <2>4, <2>5, <2>6, <2>7, <2>8, <2>9, <2>10
        DEF T!Next, T!Gui
<1>3. RunsWhileOpen => [T!HandleCanFrame => can = "open" /\ gui # "done"]_(T!vars)
  BY DEF RunsWhileOpen, T!HandleCanFrame, T!C!HandleReceived, T!C!Runs
<1> QED BY <1>1, <1>2, <1>3, PTL DEF T!Spec, T!HandledWhileOpen
=============================================================================
