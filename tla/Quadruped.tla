------------------------------ MODULE Quadruped ------------------------------
(***************************************************************************)
(* QuadrupedSystem of src/platform/quadruped: a control thread runs the    *)
(* mode state machine, an estimation thread takes sensor samples from a    *)
(* queue the robot's subscription fills, the keyboard thread leaves keys   *)
(* in two queues of one place, and SIGINT runs Stop() on the main thread.  *)
(*                                                                         *)
(* Joint angles and poses are abstracted to what the threads hand on: a    *)
(* sample to where it comes from, a pose to steps per term.                *)
(***************************************************************************)
EXTENDS Integers, Sequences

CONSTANTS ModeKeys, ControlKeys, \* the KeyFunctions in use
          Limit,       \* pose_limit and change_limit, in steps
          MaxModeKeys, MaxControlKeys, \* bounds: presses of either kind
          MaxSamples   \* bound: low-level state messages of the robot

ASSUME QuadrupedAssumption ==
  /\ ModeKeys \subseteq {"Passive", "FixedStand", "FreeStand", "Trotting",
                         "SwingTest", "BalanceTest", "MoveBase"}
  /\ ControlKeys \subseteq {"LeftStickUp", "LeftStickDown", "LeftStickLeft",
                            "LeftStickRight", "RightStickUp",
                            "RightStickDown", "RightStickLeft",
                            "RightStickRight"}
  /\ Limit \in Nat /\ MaxSamples \in Nat
  /\ MaxModeKeys \in Nat /\ MaxControlKeys \in Nat

VARIABLES
  main, handler,     \* main(): where it is; how far Stop() has come
  signalled,         \* where main() was when SIGINT came, or "no"
  control, estimation, \* where these threads are
  keep,              \* keep_running_, keep_control_loop_, ..._estimation_
  mode, pose, basis, \* current_state_: its target pose, the estimate it uses
  gains,             \* whose joint gains the legs have
  key,               \* key_event of PollKeyFunction
  queue,             \* kb_mode_switch_queue_ and kb_control_input_queue_
  sensor, data,      \* sensor_data_queue_; the sample taken from it
  x_hat,             \* the estimator's state
  warm,              \* threads whose first_run is over
  pressed, sampled,  \* what the environment did so far
  sent,              \* history: the last command the robot got
  stale              \* history: keys this mode took that came before it

mainVars == <<main, handler, signalled>>
fsmVars == <<mode, pose, basis, gains, key, stale>>
keyVars == <<queue, pressed>>
sensorVars == <<sensor, data, sampled>>
vars == <<mainVars, control, estimation, keep, fsmVars, keyVars, sensorVars,
          x_hat, warm, sent>>

Modes == {"FixedStand", "LyingDown", "SwingTest", "FreeStand", "BalanceTest",
          "MoveBase", "Passive", "Trotting"}

Terms == {"height", "yaw", "pitch", "roll"}  \* z, yaw, x and y elsewhere

Loops == {"running", "control", "estimation"}

Kinds == {"mode", "control"}

(* What x_hat_ can be: never set, a sample of the robot, the empty one of  *)
(* Stop(), or, as Update writes without the mutex of its readers, torn.    *)
Samples == {"robot", "empty"}
Estimates == Samples \cup {"unset", "torn"}

(* A key, and whether the mode was entered since it was pressed.           *)
NoKey == [fn |-> "none", old |-> FALSE]

Keys == [fn : ModeKeys \cup ControlKeys, old : BOOLEAN] \cup {NoKey}

Init ==
  /\ main = "config" /\ handler = "none" /\ signalled = "no"
  /\ control = "none" /\ estimation = "none"
  /\ keep = [l \in Loops |-> FALSE]
  /\ mode = "Passive" /\ pose = [t \in Terms |-> 0] /\ basis = "unset"
  /\ gains = "none" /\ key = NoKey
  /\ queue = [k \in Kinds |-> <<>>] /\ pressed = [k \in Kinds |-> 0]
  /\ sensor = <<>> /\ data = "empty" /\ sampled = 0
  /\ x_hat = "unset" /\ warm = {}
  /\ sent = [mode |-> "none", gains |-> "none", basis |-> "unset"]
  /\ stale = 0

(* main() executes its own code: the signal handler is not running.        *)
MainAt(pc) == main = pc /\ handler \in {"none", "returned"}

-----------------------------------------------------------------------------
(* main(): the configuration may not load.                                 *)
LoadConfig ==
  /\ MainAt("config")
  /\ main' \in {"created", "done"}
  /\ UNCHANGED <<handler, signalled, control, estimation, keep, fsmVars,
                 keyVars, sensorVars, x_hat, warm, sent>>

(* Initialize().  When the keyboard cannot be opened main() returns, and   *)
(* ~QuadrupedSystem calls Stop(), which uses the queue that is not there.  *)
Initialize ==
  /\ MainAt("created")
  /\ \/ /\ main' = "initialized"
        /\ keep' = [keep EXCEPT !["control"] = TRUE, !["estimation"] = TRUE]
        /\ gains' = "Passive"
     \/ main' = "crashed" /\ UNCHANGED <<keep, gains>>
  /\ UNCHANGED <<handler, signalled, control, estimation, mode, pose, basis,
                 key, stale, keyVars, sensorVars, x_hat, warm, sent>>

(* Run(): the threads start, then the keyboard listener.                   *)
StartThreads ==
  /\ MainAt("initialized")
  /\ main' = "started"
  /\ control' = "test" /\ estimation' = "test"
  /\ UNCHANGED <<handler, signalled, keep, fsmVars, keyVars, sensorVars,
                 x_hat, warm, sent>>

EnterMainLoop ==
  /\ MainAt("started")
  /\ main' = "loop"
  /\ keep' = [keep EXCEPT !["running"] = TRUE]
  /\ UNCHANGED <<handler, signalled, control, estimation, fsmVars, keyVars,
                 sensorVars, x_hat, warm, sent>>

(* The end of the loop returns from main(), and Stop() runs once more from *)
(* the destructor: the threads it joins are gone or were never started.    *)
LeaveMainLoop ==
  /\ MainAt("loop") /\ ~keep["running"]
  /\ main' = "done"
  /\ sensor' = Append(sensor, "empty")
  /\ UNCHANGED <<handler, signalled, control, estimation, keep, fsmVars,
                 keyVars, data, sampled, x_hat, warm, sent>>

-----------------------------------------------------------------------------
(* SIGINT.  The handler does nothing before there is a system; before      *)
(* Initialize() Stop() uses the queue that is not there.                   *)
Signal ==
  /\ signalled = "no" /\ handler = "none"
  /\ signalled' = main
  /\ \/ main = "config" /\ handler' = "returned" /\ UNCHANGED main
     \/ main = "created" /\ main' = "crashed" /\ UNCHANGED handler
     \/ main \in {"initialized", "started", "loop"}
        /\ handler' = "control" /\ UNCHANGED main
  /\ UNCHANGED <<control, estimation, keep, fsmVars, keyVars, sensorVars,
                 x_hat, warm, sent>>

(* Mutations: the estimation thread is not woken up; the control thread is *)
(* not waited for.                                                         *)
UnblockNothing ==
  /\ handler = "unblock"
  /\ handler' = "join_estimation"
  /\ UNCHANGED <<main, signalled, control, estimation, keep, fsmVars, keyVars,
                 sensorVars, x_hat, warm, sent>>

JoinNothing ==
  /\ handler = "join_control"
  /\ handler' = "estimation"
  /\ UNCHANGED <<main, signalled, control, estimation, keep, fsmVars, keyVars,
                 sensorVars, x_hat, warm, sent>>

(* Stop(), a step per statement that another thread can see.               *)
StopControl ==
  /\ handler = "control"
  /\ keep' = [keep EXCEPT !["control"] = FALSE]
  /\ handler' = "join_control"
  /\ UNCHANGED <<main, signalled, control, estimation, fsmVars, keyVars,
                 sensorVars, x_hat, warm, sent>>

JoinControl ==
  /\ handler = "join_control" /\ control \in {"none", "exited"}
  /\ handler' = "estimation"
  /\ UNCHANGED <<main, signalled, control, estimation, keep, fsmVars, keyVars,
                 sensorVars, x_hat, warm, sent>>

StopEstimation ==
  /\ handler = "estimation"
  /\ keep' = [keep EXCEPT !["estimation"] = FALSE]
  /\ handler' = "unblock"
  /\ UNCHANGED <<main, signalled, control, estimation, fsmVars, keyVars,
                 sensorVars, x_hat, warm, sent>>

Unblock ==
  /\ handler = "unblock"
  /\ sensor' = Append(sensor, "empty")
  /\ handler' = "join_estimation"
  /\ UNCHANGED <<main, signalled, control, estimation, keep, fsmVars, keyVars,
                 data, sampled, x_hat, warm, sent>>

JoinEstimation ==
  /\ handler = "join_estimation" /\ estimation \in {"none", "exited"}
  /\ keep' = [keep EXCEPT !["running"] = FALSE]
  /\ handler' = "returned"
  /\ UNCHANGED <<main, signalled, control, estimation, fsmVars, keyVars,
                 sensorVars, x_hat, warm, sent>>

-----------------------------------------------------------------------------
(* A mutation: a queue that keeps them all.                                *)
PushBehind(q, k) == Append(q, k)

(* The keyboard thread.  OnKeyEvent sorts a key into its queue, where it   *)
(* replaces the key nobody has taken yet.                                  *)
Push(q, k) == <<k>>

OnKeyEvent ==
  \E kind \in Kinds :
    /\ main \in {"started", "loop"}
    /\ pressed[kind] < IF kind = "mode" THEN MaxModeKeys ELSE MaxControlKeys
    /\ pressed' = [pressed EXCEPT ![kind] = @ + 1]
    /\ \E fn \in IF kind = "mode" THEN ModeKeys ELSE ControlKeys :
         queue' = [queue EXCEPT ![kind] =
                     Push(@, [fn |-> fn, old |-> FALSE])]
    /\ UNCHANGED <<mainVars, control, estimation, keep, fsmVars, sensorVars,
                   x_hat, warm, sent>>

(* PollKeyFunction: no key, no answer.  With one in hand it tries again.   *)
(* After a second key the loop has no way out; it has no side effect       *)
(* either, so the compiler may remove it and the newer key is the answer.  *)
TryPop(kind, none, again) ==
  IF queue[kind] = <<>>
  THEN control' = none /\ UNCHANGED <<key, queue>>
  ELSE /\ key' = Head(queue[kind])
       /\ queue' = [queue EXCEPT ![kind] = Tail(@)]
       /\ control' = again

PollAgain(kind, next) ==
  IF queue[kind] = <<>>
  THEN control' = next /\ UNCHANGED <<key, queue>>
  ELSE /\ key' = Head(queue[kind])
       /\ queue' = [queue EXCEPT ![kind] = Tail(@)]
       /\ control' \in {next, "spin"}

-----------------------------------------------------------------------------
(* The control thread.  Its first turn only sets the clock.                *)
ControlTest ==
  /\ control = "test"
  /\ IF ~keep["control"]
     THEN control' = "exited" /\ UNCHANGED warm
     ELSE IF "control" \in warm
     THEN control' = "input" /\ UNCHANGED warm
     ELSE warm' = warm \cup {"control"} /\ UNCHANGED control
  /\ UNCHANGED <<mainVars, estimation, keep, fsmVars, keyVars, sensorVars,
                 x_hat, sent>>

TakesOld == queue["control"] # <<>> /\ Head(queue["control"]).old

Keyboard == {"FreeStand", "SwingTest", "BalanceTest"}

(* Update of the mode begins with HandleKeyboardInput, where there is one. *)
HandleKeyboardInput ==
  /\ control = "input"
  /\ IF mode \in Keyboard
     THEN TryPop("control", "compute", "input_again")
     ELSE control' = "compute" /\ UNCHANGED <<key, queue>>
  /\ stale' = IF mode \in Keyboard /\ TakesOld THEN stale + 1 ELSE stale
  /\ UNCHANGED <<mainVars, estimation, keep, mode, pose, basis, gains, pressed,
                 sensorVars, x_hat, warm, sent>>

InputAgain ==
  /\ control = "input_again"
  /\ PollAgain("control", "pose")
  /\ stale' = IF TakesOld THEN stale + 1 ELSE stale
  /\ UNCHANGED <<mainVars, estimation, keep, mode, pose, basis, gains, pressed,
                 sensorVars, x_hat, warm, sent>>

(* Which term a key moves, and which way.                                  *)
Moves(fn) ==
  CASE fn = "LeftStickUp"     -> [term |-> "height", step |-> 1]
    [] fn = "LeftStickDown"   -> [term |-> "height", step |-> -1]
    [] fn = "LeftStickLeft"   -> [term |-> "yaw",    step |-> 1]
    [] fn = "LeftStickRight"  -> [term |-> "yaw",    step |-> -1]
    [] fn = "RightStickUp"    -> [term |-> "pitch",  step |-> 1]
    [] fn = "RightStickDown"  -> [term |-> "pitch",  step |-> -1]
    [] fn = "RightStickLeft"  -> [term |-> "roll",   step |-> -1]
    [] fn = "RightStickRight" -> [term |-> "roll",   step |-> 1]

(* FreeStandMode moves what the key says.                                  *)
FreeStandPose(fn) == [pose EXCEPT ![Moves(fn).term] = @ + Moves(fn).step]

(* SwingTestMode has no yaw, and its left is positive.                     *)
SwingTestPose(fn) ==
  LET m == Moves(fn)
  IN  CASE m.term = "yaw"  -> pose
        [] m.term = "roll" -> [pose EXCEPT !["roll"] = @ - m.step]
        [] OTHER           -> [pose EXCEPT ![m.term] = @ + m.step]

(* The change is made if its result is between min and max.                *)
RangeLimited(new, min, max) ==
  IF \A t \in Terms : new[t] >= min /\ new[t] <= max THEN new ELSE pose

(* UpdateTargetPose and UpdateTargetFootPosition.  BalanceTestMode passes  *)
(* the limit as min and its negative as max: no pose passes.               *)
UpdateTargetPose ==
  /\ control = "pose"
  /\ control' = "compute"
  /\ pose' =
       CASE mode = "FreeStand" -> RangeLimited(FreeStandPose(key.fn), -Limit, Limit)
         [] mode = "SwingTest" -> RangeLimited(SwingTestPose(key.fn), -Limit, Limit)
         [] mode = "BalanceTest" -> RangeLimited(FreeStandPose(key.fn), Limit, -Limit)
  /\ key' = NoKey
  /\ UNCHANGED <<mainVars, estimation, keep, mode, basis, gains, stale, keyVars,
                 sensorVars, x_hat, warm, sent>>

(* The rest of Update computes the joint targets and sends them; modes     *)
(* that follow the legs use the newest estimate.  TrottingMode and         *)
(* MoveBaseMode only print.                                                *)
SendCommandToRobot ==
  /\ control = "compute"
  /\ control' = "transit"
  /\ basis' = IF mode \in {"SwingTest", "BalanceTest"} THEN x_hat ELSE basis
  /\ sent' = [mode |-> mode, gains |-> gains, basis |-> basis']
  /\ UNCHANGED <<mainVars, estimation, keep, mode, pose, gains, key, stale,
                 keyVars, sensorVars, x_hat, warm>>

(* Transit of the mode polls the mode keys.                                *)
PollModeKey ==
  /\ control = "transit"
  /\ TryPop("mode", "test", "transit_again")
  /\ UNCHANGED <<mainVars, estimation, keep, mode, pose, basis, gains, stale,
                 pressed, sensorVars, x_hat, warm, sent>>

PollModeAgain ==
  /\ control = "transit_again"
  /\ PollAgain("mode", "switch")
  /\ UNCHANGED <<mainVars, estimation, keep, mode, pose, basis, gains, stale,
                 pressed, sensorVars, x_hat, warm, sent>>

(* A mutation: the balance test can be entered lying down.                 *)
TransitLying(m, fn) ==
  CASE m = "FixedStand" /\ fn = "FixedStand" -> "LyingDown"
    [] m \in {"FixedStand", "LyingDown"} -> fn
    [] fn = "FixedStand" -> fn
    [] OTHER -> m

(* ModeTransition::Transit for every mode; the mode itself: no change.     *)
Transit(m, fn) ==
  CASE m = "FixedStand" /\ fn = "FixedStand" -> "LyingDown"
    [] m = "FixedStand" /\ fn \in Keyboard -> fn
    [] m = "LyingDown" /\ fn \in {"Passive", "FixedStand"} -> fn
    [] m \in Keyboard \cup {"Passive"} /\ fn = "FixedStand" -> fn
    [] m = "MoveBase" -> "Passive"
    [] OTHER -> m

(* Whose gains the constructor of a mode sets: FreeStandMode those of the  *)
(* fixed stand, BalanceTestMode none.                                      *)
Gains(m) == CASE m = "FreeStand" -> "FixedStand"
              [] m = "BalanceTest" -> gains
              [] OTHER -> m

(* The new mode is constructed from the estimate; BalanceTestMode leaves   *)
(* its target pose as the memory was, here one of two values.              *)
SwitchMode ==
  /\ control = "switch"
  /\ control' = "test"
  /\ LET new == Transit(mode, key.fn)
     IN  IF new = mode
         THEN UNCHANGED <<mode, pose, basis, gains, stale, queue>>
         ELSE /\ mode' = new
              /\ gains' = Gains(new)
              /\ basis' = IF new = "Passive" THEN "unset" ELSE x_hat
              /\ pose' \in {[t \in Terms |-> p] :
                              p \in IF new = "BalanceTest" THEN {0, Limit}
                                    ELSE {0}}
              /\ stale' = 0
              /\ queue' = [queue EXCEPT !["control"] =
                     [i \in DOMAIN @ |-> [@[i] EXCEPT !.old = TRUE]]]
  /\ key' = NoKey
  /\ UNCHANGED <<mainVars, estimation, keep, pressed, sensorVars, x_hat, warm,
                 sent>>

-----------------------------------------------------------------------------
(* The estimation thread.  Pop waits for a sample; the first one only sets *)
(* the clock; Update writes x_hat_ without its mutex.                      *)
EstimationTest ==
  /\ estimation = "test"
  /\ estimation' = IF keep["estimation"] THEN "pop" ELSE "exited"
  /\ UNCHANGED <<mainVars, control, keep, fsmVars, keyVars, sensorVars, x_hat,
                 warm, sent>>

Pop ==
  /\ estimation = "pop" /\ sensor # <<>>
  /\ data' = Head(sensor) /\ sensor' = Tail(sensor)
  /\ IF "estimation" \in warm
     THEN estimation' = "update" /\ x_hat' = "torn" /\ UNCHANGED warm
     ELSE /\ estimation' = "test" /\ UNCHANGED x_hat
          /\ warm' = warm \cup {"estimation"}
  /\ UNCHANGED <<mainVars, control, keep, fsmVars, keyVars, sampled, sent>>

Update ==
  /\ estimation = "update"
  /\ estimation' = "test"
  /\ x_hat' = data
  /\ UNCHANGED <<mainVars, control, keep, fsmVars, keyVars, sensorVars, warm,
                 sent>>

(* The robot's subscription, from Initialize() on.                         *)
OnLowLevelStateMessageReceived ==
  /\ main \in {"initialized", "started", "loop"} /\ sampled < MaxSamples
  /\ sampled' = sampled + 1
  /\ sensor' = Append(sensor, "robot")
  /\ UNCHANGED <<mainVars, control, estimation, keep, fsmVars, keyVars, data,
                 x_hat, warm, sent>>

-----------------------------------------------------------------------------
Main == LoadConfig \/ Initialize \/ StartThreads \/ EnterMainLoop
          \/ LeaveMainLoop

Stop == StopControl \/ JoinControl \/ StopEstimation \/ Unblock
          \/ JoinEstimation

ControlSubsystem ==
  \/ ControlTest \/ HandleKeyboardInput \/ InputAgain \/ UpdateTargetPose
  \/ SendCommandToRobot \/ PollModeKey \/ PollModeAgain \/ SwitchMode

EstimationSubsystem == EstimationTest \/ Pop \/ Update

(* The process lives until main() has returned or a null pointer was used. *)
Next ==
  /\ main \notin {"done", "crashed"}
  /\ \/ Main \/ Stop \/ Signal
     \/ ControlSubsystem \/ EstimationSubsystem
     \/ OnKeyEvent \/ OnLowLevelStateMessageReceived

Spec == Init /\ [][Next]_vars

(* The scheduler serves every thread; nobody has to press a key or send.   *)
FairSpec ==
  /\ Spec
  /\ WF_vars(Next /\ (Main \/ Stop))
  /\ WF_vars(Next /\ ControlSubsystem)
  /\ WF_vars(Next /\ EstimationSubsystem)

-----------------------------------------------------------------------------
(* Variables have their types; a test pose stays within its limit.        *) 
TypeOK ==
  /\ main \in {"config", "created", "initialized", "started", "loop", "done",
               "crashed"}
  /\ handler \in {"none", "control", "join_control", "estimation", "unblock",
                  "join_estimation", "returned"}
  /\ signalled \in {"no", "config", "created", "initialized", "started",
                    "loop"}
  /\ control \in {"none", "test", "input", "input_again", "pose", "compute",
                  "transit", "transit_again", "switch", "spin", "exited"}
  /\ estimation \in {"none", "test", "pop", "update", "exited"}
  /\ keep \in [Loops -> BOOLEAN]
  /\ mode \in Modes /\ basis \in Estimates /\ x_hat \in Estimates
  /\ pose \in [Terms -> Int]
  /\ mode # "BalanceTest" => \A t \in Terms : pose[t] \in -Limit..Limit
  /\ queue \in [Kinds -> Seq(Keys)] /\ key \in Keys
  /\ sensor \in Seq(Samples) /\ data \in Samples
  /\ warm \subseteq {"control", "estimation"}

(* A mode takes at most one control key that was pressed before it was     *)
(* entered, however many were: the queue holds the newest alone.           *)
OneStaleKey == stale <= 1

(* A command goes out with the gains of its mode; FreeStand shares those   *)
(* of the fixed stand, and BalanceTest, which sets none, has them because  *)
(* it is only entered from there.                                          *)
GainsFitMode ==
  sent.mode # "none" =>
    sent.gains = IF sent.mode \in {"FreeStand", "BalanceTest"}
                 THEN "FixedStand" ELSE sent.mode

(* The sample Stop() makes up to wake the estimation thread never reaches  *)
(* the robot: the control thread is gone before it is pushed.              *)
EmptySampleUnused == sent.basis # "empty"

(* SIGINT in the main loop ends the process, wherever the other threads    *)
(* are, unless the control thread is caught in PollKeyFunction.            *)
StopCompletes ==
  (signalled = "loop") ~> (main = "done" \/ control = "spin")

(* utils.cpp: "keep polling until the latest key event is obtained".  So a *)
(* poll that finds a second key ends.                                      *)
PollEnds == []<>(control # "spin")
=============================================================================
