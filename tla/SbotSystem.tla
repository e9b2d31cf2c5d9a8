----------------------------- MODULE SbotSystem ------------------------------
(***************************************************************************)
(* SbotSystem of src/platform/swervebot: the main thread runs the mode     *)
(* state machine, a control thread drives the motors, an event thread      *)
(* turns joystick or RC input into events, and a SIGINT handler, which     *)
(* interrupts the main thread, runs Stop().  The threads share four queues.*)
(*                                                                         *)
(* Every queue operation holds the queue's mutex.  What other threads do   *)
(* under it is one step; the main thread takes the mutex in one step and   *)
(* finishes the operation in the next, because the signal handler can come *)
(* between the two.                                                        *)
(***************************************************************************)
EXTENDS Integers, Sequences, ThreadSafeQueue

CONSTANTS InputType,   \* user_input.type: "joystick" or "rc"
          QueueSize,   \* N of the queues (64 in the code)
          Axes,        \* the stick axes in use, of "kX", "kY", "kRX"
          AxisValues,  \* stick deflections, 0 is released
          Deadband,    \* lateral deflections up to this one are dropped
          LeverValues, \* positions of the mode lever, the sign selects a mode
          Timeout,     \* watchdog: main loop periods in 500 ms
          MaxFrames,   \* bound: input callbacks in one main loop period
          SignalAt,    \* where the main thread may be when SIGINT comes
          SignalEarly  \* may it come before the control thread runs?

ASSUME SbotAssumption ==
  /\ InputType \in {"joystick", "rc"}
  /\ QueueSize \in Nat \ {0}
  /\ Axes \subseteq {"kX", "kY", "kRX"}
  /\ AxisValues \subseteq Int /\ 0 \in AxisValues
  /\ Deadband \in Nat /\ Timeout \in Nat /\ MaxFrames \in Nat
  /\ LeverValues \subseteq Int
  /\ -100 \notin LeverValues \cup AxisValues

VARIABLES
  main,              \* where the main thread is
  handler,           \* how far Stop() has come inside the signal handler
  held,              \* the queue whose mutex the main thread holds
  mode, vel, age,    \* current_state_; vx_, vy_, wz_; time since an event
  control,           \* where the control thread is
  twist, motors,     \* current_twist_; what the motors were last told
  keep_main_loop, keep_control_loop,
  event, outbox,     \* the event thread; what its callback still has to push
  prev_msg, frames,  \* the last good RC message; callbacks in this period
  axis_queue, mode_queue, command_queue

threadVars == <<main, handler, held>>
fsmVars == <<mode, vel, age>>
robotVars == <<twist, motors>>
flagVars == <<keep_main_loop, keep_control_loop>>
inputVars == <<event, outbox, prev_msg, frames>>
queueVars == <<axis_queue, mode_queue, command_queue>>
vars == <<threadVars, fsmVars, control, robotVars, flagVars, inputVars,
          queueVars>>

-----------------------------------------------------------------------------
Starting == {"init_input", "init_callback", "init_base", "init_fsm"}

MainStates == Starting \cup
  {"spawn", "enter", "test", "drain", "command", "transit", "sleep", "done",
   "crashed"}

HandlerStates == {"none", "flag", "join", "input", "join_input", "zero",
                  "main_flag", "returned"}

(* What a lever with two and one with three positions is scaled to.        *)
TwoPositions == {-1, 1}
ThreePositions == {-1, 0, 1}

Speeds == AxisValues \cup {-v : v \in AxisValues}

Twists == [Axes -> Speeds]

ZeroTwist == [a \in Axes |-> 0]

RawZero == -100  \* channel value 0, which no transmitter sends

NoMessage == [mode |-> RawZero, axes |-> [a \in Axes |-> RawZero]]

RcMessages == [mode : LeverValues, axes : [Axes -> AxisValues]]

Init ==
  /\ main = "init_input" /\ handler = "none" /\ held = "none"
  /\ mode = "Auto" /\ vel = ZeroTwist /\ age = 0
  /\ control = "none"
  /\ twist = ZeroTwist /\ motors = ZeroTwist
  /\ keep_main_loop = FALSE /\ keep_control_loop = FALSE
  /\ event = "none" /\ outbox = <<>> /\ prev_msg = NoMessage /\ frames = 0
  /\ axis_queue = <<>> /\ mode_queue = <<>> /\ command_queue = <<>>

(* The main thread executes its own code: the handler is not running.      *)
At(pc) == main = pc /\ handler \in {"none", "returned"}

(* The process is gone, and its threads with it.                           *)
Exit(how) ==
  /\ main' = how
  /\ control' = "exited"
  /\ event' = "stopped"
  /\ outbox' = <<>>
  /\ UNCHANGED <<handler, held, fsmVars, robotVars, flagVars, prev_msg,
                 frames, queueVars>>

-----------------------------------------------------------------------------
(* Initialize().  The input device starts its thread before the robot base *)
(* and the state machine exist; an RC receiver even before its callback is *)
(* set.  Each part may fail to open, and then main() returns.              *)
OpenInput ==
  /\ At("init_input")
  /\ \/ /\ main' = IF InputType = "rc" THEN "init_callback" ELSE "init_base"
        /\ event' = "reading"
        /\ UNCHANGED <<handler, held, fsmVars, control, robotVars, flagVars,
                       outbox, prev_msg, frames, queueVars>>
     \/ Exit("done")

SetRcCallback ==
  /\ At("init_callback")
  /\ main' = "init_base"
  /\ UNCHANGED <<handler, held, fsmVars, control, robotVars, flagVars,
                 inputVars, queueVars>>

OpenBase ==
  /\ At("init_base")
  /\ \/ /\ main' = "init_fsm"
        /\ UNCHANGED <<handler, held, fsmVars, control, robotVars, flagVars,
                       inputVars, queueVars>>
     \/ Exit("done")

CreateFsm ==
  /\ At("init_fsm")
  /\ main' = "spawn"
  /\ UNCHANGED <<handler, held, fsmVars, control, robotVars, flagVars,
                 inputVars, queueVars>>

(* Run(): the control thread is started, then the loop flag is set.        *)
SpawnControl ==
  /\ At("spawn")
  /\ main' = "enter"
  /\ control' = "starting"
  /\ UNCHANGED <<handler, held, fsmVars, robotVars, flagVars, inputVars,
                 queueVars>>

EnterMainLoop ==
  /\ At("enter")
  /\ main' = "test"
  /\ keep_main_loop' = TRUE
  /\ UNCHANGED <<handler, held, fsmVars, control, robotVars,
                 keep_control_loop, inputVars, queueVars>>

TestMainLoop ==
  /\ At("test")
  /\ \/ /\ keep_main_loop
        /\ main' = "drain"
        /\ UNCHANGED <<handler, held, fsmVars, control, robotVars, flagVars,
                       inputVars, queueVars>>
     \/ ~keep_main_loop /\ Exit("done")

-----------------------------------------------------------------------------
(* FiniteStateMachine::Update(): Update of the current state, then Transit.*)

Acquire(pc, queue) ==
  /\ At(pc)
  /\ held = "none"
  /\ held' = queue
  /\ UNCHANGED <<main, handler, fsmVars, control, robotVars, flagVars,
                 inputVars, queueVars>>

(* Update() of both modes empties the axis queue; only ManualMode uses the *)
(* events.  AutoMode is done then.                                         *)
DrainAxisEvents ==
  \/ Acquire("drain", "axis")
  \/ /\ At("drain") /\ held = "axis" /\ held' = "none"
     /\ \/ /\ CanPop(axis_queue)
           /\ axis_queue' = Rest(axis_queue)
           /\ IF mode = "Manual"
              THEN /\ vel' = [vel EXCEPT ![Front(axis_queue).axis] =
                                -Front(axis_queue).value]
                   /\ age' = 0
              ELSE UNCHANGED <<vel, age>>
           /\ UNCHANGED main
        \/ /\ ~CanPop(axis_queue)
           /\ main' = IF mode = "Manual" THEN "command" ELSE "transit"
           /\ UNCHANGED <<axis_queue, vel, age>>
     /\ UNCHANGED <<handler, mode, control, robotVars, flagVars, inputVars,
                    mode_queue, command_queue>>

(* Velocities are scaled; small lateral ones (from kX) are dropped.        *)
Scaled(v) ==
  [a \in Axes |-> IF a = "kX" /\ v[a] <= Deadband /\ -v[a] <= Deadband
                  THEN 0 ELSE v[a]]

NoWatchdog == vel

(* The watchdog: no event for too long counts as a released stick.         *)
Watched == IF age > Timeout THEN ZeroTwist ELSE vel

(* The rest of ManualMode::Update: watchdog, then push of a command.       *)
PushCommand ==
  \/ Acquire("command", "command")
  \/ /\ At("command") /\ held = "command" /\ held' = "none"
     /\ vel' = Watched
     /\ command_queue' = Push(command_queue, Scaled(Watched), QueueSize)
     /\ main' = "transit"
     /\ UNCHANGED <<handler, mode, age, control, robotVars, flagVars,
                    inputVars, axis_queue, mode_queue>>

(* The mode Transit selects for one event: a button toggles, a lever       *)
(* position selects by its sign.                                           *)
NextMode(e) ==
  IF InputType = "joystick" THEN IF mode = "Auto" THEN "Manual" ELSE "Auto"
  ELSE CASE e > 0 -> "Auto"
         [] e < 0 -> "Manual"
         [] OTHER -> mode

(* Transit: one event per Update.  A new ManualMode starts from zero.      *)
Transit ==
  \/ Acquire("transit", "mode")
  \/ /\ At("transit") /\ held = "mode" /\ held' = "none"
     /\ main' = "sleep"
     /\ \/ /\ CanPop(mode_queue)
           /\ mode_queue' = Rest(mode_queue)
           /\ mode' = NextMode(Front(mode_queue))
           /\ IF mode' # mode THEN vel' = ZeroTwist /\ age' = 0
              ELSE UNCHANGED <<vel, age>>
        \/ ~CanPop(mode_queue) /\ UNCHANGED <<mode_queue, fsmVars>>
     /\ UNCHANGED <<handler, control, robotVars, flagVars, inputVars,
                    axis_queue, command_queue>>

(* sleep_for(50 ms): a period passes on the clock the watchdog reads.      *)
Sleep ==
  /\ At("sleep")
  /\ main' = "test"
  /\ age' = IF mode = "Manual" /\ age <= Timeout THEN age + 1 ELSE age
  /\ frames' = 0
  /\ UNCHANGED <<handler, held, mode, vel, control, robotVars, flagVars,
                 event, outbox, prev_msg, queueVars>>

-----------------------------------------------------------------------------
(* ControlLoop() on the control thread.                                    *)
EnterControlLoop ==
  /\ control = "starting"
  /\ control' = "test"
  /\ keep_control_loop' = TRUE
  /\ UNCHANGED <<threadVars, fsmVars, robotVars, keep_main_loop, inputVars,
                 queueVars>>

TestControlLoop ==
  /\ control = "test"
  /\ control' = IF keep_control_loop THEN "pop" ELSE "exited"
  /\ UNCHANGED <<threadVars, fsmVars, robotVars, flagVars, inputVars,
                 queueVars>>

PopCommand ==
  /\ control = "pop" /\ held # "command"
  /\ \/ /\ CanPop(command_queue)
        /\ twist' = Front(command_queue)
        /\ command_queue' = Rest(command_queue)
        /\ UNCHANGED control
     \/ /\ ~CanPop(command_queue)
        /\ control' = "update"
        /\ UNCHANGED <<twist, command_queue>>
  /\ UNCHANGED <<threadVars, fsmVars, motors, flagVars, inputVars,
                 axis_queue, mode_queue>>

UpdateBase ==
  /\ control = "update"
  /\ motors' = twist
  /\ control' = "test"
  /\ UNCHANGED <<threadVars, fsmVars, twist, flagVars, inputVars, queueVars>>

-----------------------------------------------------------------------------
(* The event thread.  A callback first decides what to push, then pushes   *)
(* event by event; it touches only its own prev_msg in between.            *)

(* MaxFrames bounds the callbacks of one main loop period, except while    *)
(* Stop() joins this thread: no period passes there.                       *)
Reading ==
  /\ event = "reading" /\ outbox = <<>>
  /\ frames < MaxFrames \/ handler = "join_input"

(* The receiver's thread calls back in sbus_.read(), which then returns.   *)
Callback(events) ==
  /\ outbox' = events
  /\ frames' = IF handler = "join_input" THEN frames ELSE frames + 1
  /\ event' = IF InputType = "rc" THEN "returned" ELSE event
  /\ UNCHANGED <<threadVars, fsmVars, control, robotVars, flagVars, queueVars>>

(* Axes that have moved since the last good message, in this order.        *)
AxisEvents(msg) ==
  LET moved(a) ==
        IF a \in Axes /\ prev_msg.axes[a] # msg.axes[a]
        THEN <<[queue |-> "axis", item |-> [axis |-> a, value |-> msg.axes[a]]]>>
        ELSE <<>>
  IN  moved("kX") \o moved("kY") \o moved("kRX")

LeverEvents(msg) ==
  IF prev_msg.mode # msg.mode
  THEN <<[queue |-> "mode", item |-> msg.mode]>> ELSE <<>>

(* A mutation: a message with a lost frame is remembered, not handled.     *)
OnSbusMsgReceivedForgetful(msg, frame_loss) ==
  /\ InputType = "rc" /\ Reading /\ main \notin Starting
  /\ prev_msg' = msg
  /\ Callback((IF frame_loss THEN <<>> ELSE LeverEvents(msg)) \o AxisEvents(msg))

(* OnSbusMsgReceived: events for the channels that changed since the last  *)
(* good message.  A message with a lost frame, or one that comes before    *)
(* the state machine exists, leaves no trace but that read() returns.      *)
OnSbusMsgReceived(msg, frame_loss) ==
  /\ InputType = "rc" /\ Reading
  /\ \/ /\ main \in Starting \/ frame_loss
        /\ event' = "returned"
        /\ UNCHANGED <<threadVars, fsmVars, control, robotVars, flagVars,
                       outbox, prev_msg, frames, queueVars>>
     \/ /\ ~(main \in Starting \/ frame_loss)
        /\ prev_msg' = msg
        /\ Callback(LeverEvents(msg) \o AxisEvents(msg))

OnJsButtonEvent ==   \* kStart pressed; all other buttons are ignored
  /\ InputType = "joystick" /\ Reading /\ main \notin Starting
  /\ Callback(<<[queue |-> "mode", item |-> "kStart"]>>)
  /\ UNCHANGED prev_msg

OnJsAxisEvent(axis, value) ==
  /\ InputType = "joystick" /\ Reading /\ main \notin Starting
  /\ Callback(<<[queue |-> "axis", item |-> [axis |-> axis, value |-> value]]>>)
  /\ UNCHANGED prev_msg

PushEvent ==
  /\ outbox # <<>>
  /\ LET e == Head(outbox) IN
     /\ held # e.queue
     /\ \/ /\ e.queue = "axis"
           /\ axis_queue' = Push(axis_queue, e.item, QueueSize)
           /\ UNCHANGED mode_queue
        \/ /\ e.queue = "mode"
           /\ mode_queue' = Push(mode_queue, e.item, QueueSize)
           /\ UNCHANGED axis_queue
  /\ outbox' = Tail(outbox)
  /\ UNCHANGED <<threadVars, fsmVars, control, robotVars, flagVars, event,
                 prev_msg, frames, command_queue>>

(* The receiver's loop: while keep_running_ is set, which Close() clears,  *)
(* it reads again, and read() blocks until something comes.                *)
TestKeepRunning ==
  /\ event = "returned" /\ outbox = <<>>
  /\ event' = IF handler = "join_input" THEN "stopped" ELSE "reading"
  /\ UNCHANGED <<threadVars, fsmVars, control, robotVars, flagVars, outbox,
                 prev_msg, frames, queueVars>>

(* The RC reading thread ends for good at the first read error.            *)
ReadError ==
  /\ InputType = "rc" /\ event = "reading" /\ outbox = <<>>
  /\ event' = "stopped"
  /\ UNCHANGED <<threadVars, fsmVars, control, robotVars, flagVars, outbox,
                 prev_msg, frames, queueVars>>

-----------------------------------------------------------------------------
(* SIGINT: the handler runs Stop() on the main thread, wherever that is.   *)
Sigint ==
  /\ handler = "none" /\ main \in SignalAt
  /\ SignalEarly \/ control \notin {"none", "starting"}
  /\ handler' = "flag"
  /\ UNCHANGED <<main, held, fsmVars, control, robotVars, flagVars, inputVars,
                 queueVars>>

(* A mutation: Stop() forgets the flag of the control loop.                *)
StopControlForgotten ==
  /\ handler = "flag"
  /\ handler' = "join"
  /\ UNCHANGED <<main, held, fsmVars, control, robotVars, flagVars, inputVars,
                 queueVars>>

StopControl ==
  /\ handler = "flag"
  /\ handler' = "join"
  /\ keep_control_loop' = FALSE
  /\ UNCHANGED <<main, held, fsmVars, control, robotVars, keep_main_loop,
                 inputVars, queueVars>>

(* A mutation: Stop() goes on without joining the control thread.          *)
DetachControl ==
  /\ handler = "join"
  /\ handler' = "input"
  /\ UNCHANGED <<main, held, fsmVars, control, robotVars, flagVars, inputVars,
                 queueVars>>

(* A thread that was never started is not joinable and is skipped.         *)
JoinControl ==
  /\ handler = "join"
  /\ control \in {"none", "exited"}
  /\ handler' = "input"
  /\ UNCHANGED <<main, held, fsmVars, control, robotVars, flagVars, inputVars,
                 queueVars>>

(* The input is told to stop.  While Initialize opens the device, the      *)
(* pointer may be null.                                                    *)
CloseInput ==
  /\ handler = "input"
  /\ \/ main = "init_input" /\ Exit("crashed")
     \/ /\ handler' = "join_input"
        /\ UNCHANGED <<main, held, fsmVars, control, robotVars, flagVars,
                       inputVars, queueVars>>

(* Its thread is joined.  That of the joystick wakes up by itself and ends *)
(* after its callback; that of the receiver only when its read() returns.  *)
JoinInput ==
  /\ handler = "join_input" /\ outbox = <<>>
  /\ InputType = "rc" => event \in {"none", "stopped"}
  /\ event' = "stopped"
  /\ handler' = "zero"
  /\ UNCHANGED <<main, held, fsmVars, control, robotVars, flagVars, outbox,
                 prev_msg, frames, queueVars>>

(* Without a robot base sbot_ is null; while the base opens its ports it   *)
(* has no robot model yet and ignores the commands.                        *)
StopMotors ==
  /\ handler = "zero"
  /\ \/ main \in {"init_input", "init_callback", "init_base"} /\ Exit("crashed")
     \/ /\ main \notin {"init_input", "init_callback"}
        /\ motors' = ZeroTwist
        /\ handler' = "main_flag"
        /\ UNCHANGED <<main, held, fsmVars, control, twist, flagVars,
                       inputVars, queueVars>>

StopMainLoop ==
  /\ handler = "main_flag"
  /\ handler' = "returned"
  /\ keep_main_loop' = FALSE
  /\ UNCHANGED <<main, held, fsmVars, control, robotVars, keep_control_loop,
                 inputVars, queueVars>>

-----------------------------------------------------------------------------
MainThread ==
  \/ OpenInput \/ SetRcCallback \/ OpenBase \/ CreateFsm
  \/ SpawnControl \/ EnterMainLoop \/ TestMainLoop
  \/ DrainAxisEvents \/ PushCommand \/ Transit \/ Sleep

ControlThread == EnterControlLoop \/ TestControlLoop \/ PopCommand \/ UpdateBase

EventThread ==
  \/ \E msg \in RcMessages, frame_loss \in BOOLEAN :
       OnSbusMsgReceived(msg, frame_loss)
  \/ OnJsButtonEvent
  \/ \E axis \in Axes, value \in AxisValues : OnJsAxisEvent(axis, value)
  \/ PushEvent \/ TestKeepRunning \/ ReadError

Stop ==
  \/ StopControl \/ JoinControl \/ CloseInput \/ JoinInput
  \/ StopMotors \/ StopMainLoop

(* main() has returned, or the process was killed.                         *)
Terminated == main \in {"done", "crashed"} /\ UNCHANGED vars

Next ==
  MainThread \/ ControlThread \/ EventThread \/ Sigint \/ Stop \/ Terminated

(* Threads run and callbacks return; input and signals need not come.  A   *)
(* thread that waits for a queue's mutex gets it in the end, because the   *)
(* main thread sleeps 50 ms without holding one: strong fairness.          *)
Fairness ==
  /\ WF_vars(MainThread) /\ SF_vars(ControlThread)
  /\ SF_vars(PushEvent) /\ WF_vars(TestKeepRunning) /\ WF_vars(Stop)

Spec == Init /\ [][Next]_vars /\ Fairness

-----------------------------------------------------------------------------
AxisEvent == [axis : Axes, value : AxisValues]

ModeEvent == IF InputType = "rc" THEN LeverValues ELSE {"kStart"}

Pushes ==
  [queue : {"axis"}, item : AxisEvent] \cup [queue : {"mode"}, item : ModeEvent]

(* Variables have their types and no queue outgrows its limit.             *)
TypeOK ==
  /\ main \in MainStates /\ handler \in HandlerStates
  /\ held \in {"none", "axis", "command", "mode"}
  /\ mode \in {"Auto", "Manual"} /\ vel \in Twists /\ age \in 0..Timeout + 1
  /\ control \in {"none", "starting", "test", "pop", "update", "exited"}
  /\ twist \in Twists /\ motors \in Twists
  /\ keep_main_loop \in BOOLEAN /\ keep_control_loop \in BOOLEAN
  /\ event \in {"none", "reading", "returned", "stopped"} /\ frames \in 0..MaxFrames
  /\ outbox \in Seq(Pushes)
  /\ prev_msg \in RcMessages \cup {NoMessage}
  /\ axis_queue \in Seq(AxisEvent) /\ Len(axis_queue) <= QueueSize
  /\ mode_queue \in Seq(ModeEvent) /\ Len(mode_queue) <= QueueSize
  /\ command_queue \in Seq(Twists) /\ Len(command_queue) <= QueueSize

(* Once Stop() has told the motors to stand still nothing moves them       *)
(* again: the control thread, which writes the last command it saw in      *)
(* every period, is gone by then.                                          *)
RobotStaysStopped ==
  handler \in {"main_flag", "returned"} => motors = ZeroTwist

(* A lever that rests on one side ends up selecting that side's mode,      *)
(* whatever was lost in full queues, dropped with lost frames or came      *)
(* while the system was starting, unless the application is stopped.       *)
ModeFollowsLever ==
  /\ <>[](prev_msg # NoMessage /\ prev_msg.mode < 0) =>
       <>[](mode = "Manual") \/ <>(handler # "none")
  /\ <>[](prev_msg.mode > 0) => <>[](mode = "Auto") \/ <>(handler # "none")

(* The watchdog of ManualMode: when events stop coming (sticks at rest,    *)
(* or a dead reading thread) the twist the control thread applies becomes  *)
(* zero and stays so, unless that thread is stopped, or SIGINT has come    *)
(* while the main thread held the mutex that thread needs.                 *)
DeadManStops ==
  <>[](mode = "Manual" /\ axis_queue = <<>>) =>
    \/ <>[](twist = ZeroTwist)
    \/ <>(control = "exited") \/ <>(handler # "none" /\ held = "command")

(* The receiver goes on sending: its read() returns again and again.       *)
LinkSpeaks == InputType = "rc" => []<>(event # "reading")

(* After a SIGINT that comes while the main thread is in no queue both     *)
(* loops end and the application returns from Run(), as long as the link   *)
(* to the RC transmitter is not silent.                                    *)
StopCompletes ==
  LinkSpeaks =>
    (handler = "flag" /\ held = "none" ~> main = "done" /\ control = "exited")

(* Stop() returns.  It does not: on a silent link it waits for the thread  *)
(* that reads, and in a queue for one that waits for the mutex the         *)
(* interrupted main thread holds.                                          *)
StopReturns == handler = "flag" ~> handler = "returned" \/ main = "crashed"
=============================================================================
