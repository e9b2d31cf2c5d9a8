--------------------------- MODULE QuadrupedProofs ---------------------------
(***************************************************************************)
(* What Stop() may do to the control thread, whose gains a command carries *)
(* and what a key that waits can do to a new mode: for any keys, limit and *)
(* number of samples.                                                      *)
(***************************************************************************)
EXTENDS Quadruped, SequenceTheorems, TLAPS

ControlKey == [fn : ControlKeys, old : BOOLEAN]

ModeKey == [fn : ModeKeys, old : BOOLEAN]

(* The keys of each queue, and the key in the hand of a mode that moves a  *)
(* pose: UpdateTargetPose meets no key it does not know.                   *)
KeysSorted ==
  /\ queue["mode"] \in Seq(ModeKey) /\ queue["control"] \in Seq(ControlKey)
  /\ control \in {"input_again", "pose"} => key \in ControlKey /\ mode \in Keyboard

TypeInv == TypeOK /\ KeysSorted

(* Sequences over a smaller set.                                           *)
LEMMA SeqOfLess ==
  ASSUME NEW S, NEW T, S \subseteq T
  PROVE  Seq(S) \subseteq Seq(T)
<1>1. ASSUME NEW q \in Seq(S) PROVE q \in Seq(T)
  <2>1. DOMAIN q = 1..Len(q) /\ Len(q) \in Nat /\ \A i \in 1..Len(q) : q[i] \in S
    OBVIOUS
  <2>2. q = [i \in 1..Len(q) |-> q[i]]
    OBVIOUS
  <2> QED BY <2>1, <2>2
<1> QED BY <1>1

(* Taking a key.                                                           *)
LEMMA TakeKey ==
  ASSUME NEW S, NEW q \in Seq(S), q # <<>>
  PROVE  /\ Head(q) \in S /\ Tail(q) \in Seq(S) /\ Tail(q) # q
         /\ Len(q) <= 1 => Tail(q) = <<>>
<1>1. /\ Head(q) \in S /\ Tail(q) \in Seq(S) /\ Len(q) \in Nat \ {0}
      /\ Len(Tail(q)) = Len(q) - 1
  OBVIOUS
<1>2. ASSUME Len(q) <= 1
      PROVE  Tail(q) = <<>>
  <2>1. Len(Tail(q)) = 0
    BY <1>1, <1>2
  <2> QED BY <1>1, <2>1, EmptySeq
<1>3. Len(Tail(q)) # Len(q)
  <2>1. \A m, n : n \in Nat \ {0} /\ m = n - 1 => m # n
    OBVIOUS
  <2> QED BY <1>1, <2>1, Zenon
<1>4. Tail(q) # q
  BY <1>3, Zenon
<1> QED BY <1>1, <1>2, <1>4

(* Polling, with whatever the poll found.                                  *)
LEMMA PollType ==
  ASSUME TypeInv, NEW kind \in Kinds, NEW S,
         S = IF kind = "mode" THEN ModeKey ELSE ControlKey,
         \/ UNCHANGED <<key, queue>>
         \/ /\ queue[kind] # <<>> /\ key' = Head(queue[kind])
            /\ queue' = [queue EXCEPT ![kind] = Tail(@)]
  PROVE  /\ queue' \in [Kinds -> Seq(Keys)] /\ key' \in Keys
         /\ queue'["mode"] \in Seq(ModeKey) /\ queue'["control"] \in Seq(ControlKey)
         /\ UNCHANGED key \/ key' \in S
<1>1. /\ queue["mode"] \in Seq(ModeKey) /\ queue["control"] \in Seq(ControlKey)
      /\ queue \in [Kinds -> Seq(Keys)] /\ key \in Keys
  BY DEF TypeInv, TypeOK, KeysSorted
<1>2. CASE UNCHANGED <<key, queue>>
  BY <1>1, <1>2
<1>3. CASE ~UNCHANGED <<key, queue>>
  <2>1. queue[kind] # <<>> /\ queue[kind] \in Seq(S) /\ queue[kind] \in Seq(Keys)
    BY <1>1, <1>3 DEF Kinds
  <2>2. /\ Head(queue[kind]) \in S /\ Tail(queue[kind]) \in Seq(S)
        /\ Head(queue[kind]) \in Keys /\ Tail(queue[kind]) \in Seq(Keys)
    BY <2>1, TakeKey
  <2> QED BY <1>1, <1>3, <2>2 DEF Kinds
<1> QED BY <1>2, <1>3

(* A pose that moves stays a pose, and within the limit.                   *)
LEMMA PoseMoves ==
  ASSUME TypeInv, control = "pose"
  PROVE  /\ \A p \in {FreeStandPose(key.fn), SwingTestPose(key.fn)} : p \in [Terms -> Int]
         /\ mode \in Keyboard
<1>1. /\ key.fn \in ControlKeys /\ mode \in Keyboard /\ pose \in [Terms -> Int]
  BY DEF TypeInv, TypeOK, KeysSorted, ControlKey
<1>2. Moves(key.fn) \in [term : Terms, step : {1, -1}]
  BY <1>1, QuadrupedAssumption DEF Moves, Terms
<1> DEFINE m == Moves(key.fn)
<1>3. m.term \in Terms /\ m.step \in Int /\ \A t \in Terms : pose[t] \in Int
  BY <1>1, <1>2
<1> HIDE DEF m
<1>4. FreeStandPose(key.fn) = [pose EXCEPT ![m.term] = @ + m.step]
  BY DEF FreeStandPose, m
<1>5. SwingTestPose(key.fn) \in {pose, [pose EXCEPT !["roll"] = @ - m.step],
                                 [pose EXCEPT ![m.term] = @ + m.step]}
  BY DEF SwingTestPose, m
<1>6. "roll" \in Terms
  BY DEF Terms
<1>7. /\ [pose EXCEPT ![m.term] = @ + m.step] \in [Terms -> Int]
      /\ [pose EXCEPT !["roll"] = @ - m.step] \in [Terms -> Int]
  BY <1>1, <1>3, <1>6
<1> QED BY <1>1, <1>4, <1>5, <1>7

(* The control thread.                                                     *)
LEMMA ControlType ==
  ASSUME TypeInv, ControlSubsystem
  PROVE  TypeInv'
<1>1. CASE ControlTest
  <2>1. /\ control' \in {"exited", "input", "test"}
        /\ warm' \subseteq warm \cup {"control"}
        /\ UNCHANGED <<main, handler, signalled, estimation, keep, mode, pose,
                       basis, key, queue, sensor, data, x_hat>>
    BY <1>1 DEF ControlTest, mainVars, fsmVars, keyVars, sensorVars
  <2> QED BY <2>1 DEF TypeInv, TypeOK, KeysSorted
<1>2. CASE HandleKeyboardInput \/ InputAgain
  <2>1. /\ \/ UNCHANGED <<key, queue>>
           \/ /\ queue["control"] # <<>> /\ key' = Head(queue["control"])
              /\ queue' = [queue EXCEPT !["control"] = Tail(@)]
        /\ control' \in {"compute", "input_again", "pose", "spin"}
        /\ control' \in {"input_again", "pose"} => mode \in Keyboard
        /\ control' \in {"input_again", "pose"} =>
             control = "input_again" \/ ~UNCHANGED <<key, queue>>
        /\ UNCHANGED <<mainVars, estimation, keep, mode, pose, basis, gains,
                       pressed, sensorVars, x_hat, warm, sent>>
    <3>1. CASE HandleKeyboardInput
      <4>1. queue["control"] # <<>> => Tail(queue["control"]) # queue["control"]
        <5>1. queue["control"] \in Seq(ControlKey)
          BY DEF TypeInv, KeysSorted
        <5> QED BY <5>1, TakeKey
      <4>2. queue \in [Kinds -> Seq(Keys)]
        BY DEF TypeInv, TypeOK
      <4> QED BY <3>1, <4>1, <4>2 DEF HandleKeyboardInput, TryPop, Kinds
    <3>2. CASE InputAgain
      <4>1. control = "input_again" /\ mode \in Keyboard
        BY <3>2 DEF InputAgain, TypeInv, KeysSorted
      <4> QED BY <3>2, <4>1 DEF InputAgain, PollAgain
    <3> QED BY <1>2, <3>1, <3>2
  <2>2. "control" \in Kinds
    BY DEF Kinds
  <2>3. /\ queue' \in [Kinds -> Seq(Keys)] /\ key' \in Keys
        /\ queue'["mode"] \in Seq(ModeKey) /\ queue'["control"] \in Seq(ControlKey)
        /\ UNCHANGED key \/ key' \in ControlKey
    BY <2>1, <2>2, PollType
  <2>4. control' \in {"input_again", "pose"} => key' \in ControlKey
    BY <2>1, <2>3 DEF TypeInv, KeysSorted
  <2> QED BY <2>1, <2>3, <2>4 DEF TypeInv, TypeOK, KeysSorted, mainVars, sensorVars
<1>3. CASE UpdateTargetPose
  <2>1. /\ control = "pose" /\ control' = "compute" /\ key' = NoKey
        /\ UNCHANGED <<mainVars, estimation, keep, mode, basis, gains, keyVars,
                       sensorVars, x_hat, warm, sent>>
    BY <1>3 DEF UpdateTargetPose
  <2>2. /\ mode \in Keyboard
        /\ \A p \in {FreeStandPose(key.fn), SwingTestPose(key.fn)} : p \in [Terms -> Int]
    BY <2>1, PoseMoves
  <2>3. pose \in [Terms -> Int]
        /\ (mode # "BalanceTest" => \A t \in Terms : pose[t] \in -Limit..Limit)
    BY DEF TypeInv, TypeOK
  <2> USE QuadrupedAssumption
  <2>4. /\ pose' \in [Terms -> Int]
        /\ mode # "BalanceTest" => \A t \in Terms : pose'[t] \in -Limit..Limit
    <3>1. ASSUME NEW new \in [Terms -> Int], NEW min \in Int, NEW max \in Int
          PROVE  /\ RangeLimited(new, min, max) \in [Terms -> Int]
                 /\ \/ RangeLimited(new, min, max) = pose
                    \/ \A t \in Terms : RangeLimited(new, min, max)[t] \in min..max
      BY <2>3 DEF RangeLimited
    <3>2. CASE mode = "FreeStand"
      <4>1. pose' = RangeLimited(FreeStandPose(key.fn), -Limit, Limit)
        BY <1>3, <3>2 DEF UpdateTargetPose
      <4> QED BY <2>2, <2>3, <3>1, <4>1
    <3>3. CASE mode = "SwingTest"
      <4>1. pose' = RangeLimited(SwingTestPose(key.fn), -Limit, Limit)
        BY <1>3, <3>3 DEF UpdateTargetPose
      <4> QED BY <2>2, <2>3, <3>1, <4>1
    <3>4. CASE mode = "BalanceTest"
      <4>1. pose' = RangeLimited(FreeStandPose(key.fn), Limit, -Limit)
        BY <1>3, <3>4 DEF UpdateTargetPose
      <4> QED BY <2>2, <2>3, <3>1, <3>4, <4>1
    <3> QED BY <2>2, <3>2, <3>3, <3>4 DEF Keyboard
  <2> QED BY <2>1, <2>4 DEF TypeInv, TypeOK, KeysSorted, Keys, mainVars, keyVars,
          sensorVars
<1>4. CASE SendCommandToRobot
  BY <1>4 DEF SendCommandToRobot, TypeInv, TypeOK, KeysSorted, mainVars,
              keyVars, sensorVars
<1>5. CASE PollModeKey \/ PollModeAgain
  <2>1. /\ \/ UNCHANGED <<key, queue>>
           \/ /\ queue["mode"] # <<>> /\ key' = Head(queue["mode"])
              /\ queue' = [queue EXCEPT !["mode"] = Tail(@)]
        /\ control' \in {"test", "transit_again", "switch", "spin"}
        /\ UNCHANGED <<mainVars, estimation, keep, mode, pose, basis, gains,
                       pressed, sensorVars, x_hat, warm, sent>>
    BY <1>5 DEF PollModeKey, PollModeAgain, TryPop, PollAgain
  <2>2. "mode" \in Kinds
    BY DEF Kinds
  <2>3. /\ queue' \in [Kinds -> Seq(Keys)] /\ key' \in Keys
        /\ queue'["mode"] \in Seq(ModeKey) /\ queue'["control"] \in Seq(ControlKey)
    BY <2>1, <2>2, PollType
  <2> QED BY <2>1, <2>3 DEF TypeInv, TypeOK, KeysSorted, mainVars, sensorVars
<1>6. CASE SwitchMode
  <2>1. /\ control' = "test" /\ key' = NoKey
        /\ UNCHANGED <<mainVars, estimation, keep, pressed, sensorVars, x_hat,
                       warm, sent>>
    BY <1>6 DEF SwitchMode
  <2>2. CASE UNCHANGED <<mode, pose, basis, queue>>
    BY <2>1, <2>2 DEF TypeInv, TypeOK, KeysSorted, Keys, mainVars, sensorVars
  <2>3. CASE ~UNCHANGED <<mode, pose, basis, queue>>
    <3>1. /\ mode' = Transit(mode, key.fn)
          /\ basis' = IF mode' = "Passive" THEN "unset" ELSE x_hat
          /\ pose' \in {[t \in Terms |-> p] :
                          p \in IF mode' = "BalanceTest" THEN {0, Limit} ELSE {0}}
          /\ queue' = [queue EXCEPT !["control"] =
                         [i \in DOMAIN @ |-> [@[i] EXCEPT !.old = TRUE]]]
      BY <1>6, <2>3 DEF SwitchMode
    <3>2. mode' \in Modes
      BY <3>1 DEF Transit, Modes, Keyboard, TypeInv, TypeOK
    <3>3. basis' \in Estimates
      BY <3>1 DEF Estimates, Samples, TypeInv, TypeOK
    <3>4. pose' \in [Terms -> Int] /\ \A t \in Terms : pose'[t] \in -Limit..Limit
      BY <3>1, QuadrupedAssumption
    <3>5. queue'["mode"] \in Seq(ModeKey) /\ queue'["control"] \in Seq(ControlKey)
      <4> DEFINE q == queue["control"]
      <4>1. queue \in [Kinds -> Seq(Keys)] /\ q \in Seq(ControlKey)
            /\ queue["mode"] \in Seq(ModeKey)
        BY DEF TypeInv, TypeOK, KeysSorted
      <4>2. /\ queue'["control"] = [i \in DOMAIN q |-> [q[i] EXCEPT !.old = TRUE]]
            /\ queue'["mode"] = queue["mode"]
        BY <3>1, <4>1 DEF Kinds
      <4> HIDE DEF q
      <4>3. \A i \in DOMAIN q : [q[i] EXCEPT !.old = TRUE] \in ControlKey
        <5>1. \A i \in DOMAIN q : q[i] \in ControlKey
          BY <4>1
        <5> QED BY <5>1 DEF ControlKey
      <4>4. DOMAIN q = 1..Len(q) /\ Len(q) \in Nat
        BY <4>1
      <4> QED BY <4>1, <4>2, <4>3, <4>4
    <3>6. queue' \in [Kinds -> Seq(Keys)]
      <4>1. Seq(ModeKey) \subseteq Seq(Keys) /\ Seq(ControlKey) \subseteq Seq(Keys)
        <5>1. ModeKey \subseteq Keys /\ ControlKey \subseteq Keys
          BY DEF ModeKey, ControlKey, Keys
        <5> QED BY <5>1, SeqOfLess
      <4>2. queue'["mode"] \in Seq(Keys) /\ queue'["control"] \in Seq(Keys)
        BY <3>5, <4>1
      <4>3. queue \in [Kinds -> Seq(Keys)]
        BY DEF TypeInv, TypeOK
      <4> QED BY <3>1, <4>2, <4>3 DEF Kinds
    <3> QED BY <2>1, <3>2, <3>3, <3>4, <3>5, <3>6
            DEF TypeInv, TypeOK, KeysSorted, Keys, mainVars, sensorVars
  <2> QED BY <2>2, <2>3
<1> QED BY <1>1, <1>2, <1>3, <1>4, <1>5, <1>6 DEF ControlSubsystem

(* The other threads.                                                      *)
LEMMA OthersType ==
  ASSUME TypeInv, Main \/ Stop \/ Signal \/ EstimationSubsystem
                    \/ OnKeyEvent \/ OnLowLevelStateMessageReceived
  PROVE  TypeInv'
<1>1. sensor \in Seq(Samples) /\ keep \in [Loops -> BOOLEAN] /\ data \in Samples
  BY DEF TypeInv, TypeOK
<1>2. /\ Append(sensor, "empty") \in Seq(Samples) /\ Append(sensor, "robot") \in Seq(Samples)
      /\ sensor # <<>> => Head(sensor) \in Samples /\ Tail(sensor) \in Seq(Samples)
  <2>1. "empty" \in Samples /\ "robot" \in Samples
    BY DEF Samples
  <2> QED BY <1>1, <2>1, TakeKey, AppendProperties
<1>3. CASE Main
  <2>1. /\ main' \in {"created", "done", "initialized", "crashed", "started", "loop"}
        /\ keep' \in [Loops -> BOOLEAN] /\ sensor' \in Seq(Samples)
        /\ control' \in {control, "test"} /\ estimation' \in {estimation, "test"}
        /\ UNCHANGED <<handler, signalled, mode, pose, basis, key, queue, data,
                       x_hat, warm>>
    BY <1>1, <1>2, <1>3
       DEF Main, LoadConfig, Initialize, StartThreads, EnterMainLoop,
           LeaveMainLoop, fsmVars, keyVars, sensorVars
  <2> QED BY <2>1 DEF TypeInv, TypeOK, KeysSorted
<1>4. CASE Stop \/ Signal
  <2>1. /\ keep' \in [Loops -> BOOLEAN] /\ sensor' \in Seq(Samples)
        /\ main' \in {main, "crashed"}
        /\ handler' \in {"none", "control", "join_control", "estimation", "unblock",
                        "join_estimation", "returned"}
        /\ signalled' \in {signalled, main}
        /\ UNCHANGED <<control, estimation, mode, pose, basis, key, queue, data,
                       x_hat, warm>>
    BY <1>1, <1>2, <1>4
       DEF Stop, StopControl, JoinControl, StopEstimation, Unblock,
           JoinEstimation, Signal, mainVars, fsmVars, keyVars, sensorVars,
           TypeInv, TypeOK
  <2>2. signalled' \in {"no", "config", "created", "initialized", "started", "loop"}
    BY <1>4 DEF Stop, StopControl, JoinControl, StopEstimation, Unblock,
                JoinEstimation, Signal, TypeInv, TypeOK
  <2> QED BY <2>1, <2>2 DEF TypeInv, TypeOK, KeysSorted
<1>5. CASE EstimationSubsystem
  <2>1. /\ sensor' \in Seq(Samples) /\ data' \in Samples
        /\ estimation' \in {"test", "pop", "update", "exited"}
        /\ x_hat' \in {x_hat, data, "torn"}
        /\ warm' \subseteq warm \cup {"estimation"}
        /\ UNCHANGED <<main, handler, signalled, control, keep, mode, pose, basis,
                       key, queue>>
    BY <1>1, <1>2, <1>5
       DEF EstimationSubsystem, EstimationTest, Pop, Update, mainVars, fsmVars,
           keyVars, sensorVars
  <2> QED BY <1>1, <2>1 DEF TypeInv, TypeOK, KeysSorted, Estimates
<1>6. CASE OnLowLevelStateMessageReceived
  BY <1>2, <1>6
     DEF OnLowLevelStateMessageReceived, TypeInv, TypeOK, KeysSorted, mainVars,
         fsmVars, keyVars
<1>7. CASE OnKeyEvent
  <2>1. PICK kind \in Kinds, fn \in ModeKeys \cup ControlKeys :
          /\ fn \in IF kind = "mode" THEN ModeKeys ELSE ControlKeys
          /\ queue' = [queue EXCEPT ![kind] = <<[fn |-> fn, old |-> FALSE]>>]
          /\ UNCHANGED <<mainVars, control, estimation, keep, fsmVars, sensorVars,
                         x_hat, warm, sent>>
    BY <1>7 DEF OnKeyEvent, Push
  <2>2. queue \in [Kinds -> Seq(Keys)] /\ queue["mode"] \in Seq(ModeKey)
        /\ queue["control"] \in Seq(ControlKey)
    BY DEF TypeInv, TypeOK, KeysSorted
  <2>3. /\ [fn |-> fn, old |-> FALSE] \in Keys
        /\ kind = "mode" => [fn |-> fn, old |-> FALSE] \in ModeKey
        /\ kind = "control" => [fn |-> fn, old |-> FALSE] \in ControlKey
    BY <2>1 DEF Keys, ModeKey, ControlKey
  <2>4. queue' \in [Kinds -> Seq(Keys)] /\ queue'["mode"] \in Seq(ModeKey)
        /\ queue'["control"] \in Seq(ControlKey)
    BY <2>1, <2>2, <2>3 DEF Kinds
  <2> QED BY <2>1, <2>4 DEF TypeInv, TypeOK, KeysSorted, mainVars, fsmVars, sensorVars
<1> QED BY <1>3, <1>4, <1>5, <1>6, <1>7

(* Types, and which keys get where.                                        *)
LEMMA TypeInvariant == Spec => []TypeInv
<1>1. Init => TypeInv
  <2> SUFFICES ASSUME Init PROVE TypeInv
    OBVIOUS
  <2>1. /\ queue \in [Kinds -> Seq(Keys)]
        /\ queue["mode"] \in Seq(ModeKey) /\ queue["control"] \in Seq(ControlKey)
        /\ sensor \in Seq(Samples)
    BY DEF Init, Kinds
  <2>2. pose \in [Terms -> Int] /\ \A t \in Terms : pose[t] \in -Limit..Limit
    BY QuadrupedAssumption DEF Init
  <2> QED BY <2>1, <2>2
          DEF Init, TypeInv, TypeOK, KeysSorted, Modes, Estimates, Keys, Samples
<1>2. TypeInv /\ [Next]_vars => TypeInv'
  <2>1. TypeInv /\ UNCHANGED vars => TypeInv'
    BY DEF vars, mainVars, fsmVars, keyVars, sensorVars, TypeInv, TypeOK, KeysSorted
  <2> QED BY <2>1, ControlType, OthersType DEF Next
<1> QED BY <1>1, <1>2, PTL DEF Spec

(* Types; no sequence of keys takes the pose of a test over its limit, and *)
(* no mode is handed a key it does not know.                               *)
THEOREM TypeCorrect == Spec => []TypeOK
<1>1. TypeInv => TypeOK
  BY DEF TypeInv
<1> QED BY <1>1, TypeInvariant, PTL

-----------------------------------------------------------------------------
(* A queue holds one key; one that was pressed before the mode was entered *)
(* can be taken only if the mode has taken none yet.                       *)
StaleInv ==
  /\ \A kind \in Kinds : Len(queue[kind]) <= 1
  /\ stale \in {0, 1} /\ (TakesOld => stale = 0)

(* However many keys are pressed before a mode is entered, the mode takes  *)
(* at most one of them: taking it empties the queue, and what comes later  *)
(* is not old.                                                             *)
THEOREM OneKeyOutlivesMode == Spec => []OneStaleKey
<1>1. Init => StaleInv
  BY DEF Init, StaleInv, TakesOld, Kinds
<1>2. TypeInv /\ StaleInv /\ [Next]_vars => StaleInv'
  <2> SUFFICES ASSUME TypeInv, StaleInv, [Next]_vars PROVE StaleInv'
    OBVIOUS
  <2>1. queue \in [Kinds -> Seq(Keys)] /\ \A kind \in Kinds : Len(queue[kind]) <= 1
    BY DEF TypeInv, TypeOK, StaleInv
  <2>2. "mode" \in Kinds /\ "control" \in Kinds
    BY DEF Kinds
  <2>3. \A kind \in Kinds : queue[kind] # <<>> => Tail(queue[kind]) = <<>>
    <3>1. ASSUME NEW kind \in Kinds, queue[kind] # <<>>
          PROVE  Tail(queue[kind]) = <<>>
      <4>1. queue[kind] \in Seq(Keys) /\ Len(queue[kind]) <= 1
        BY <2>1
      <4> QED BY <3>1, <4>1, TakeKey
    <3> QED BY <3>1
  <2>4. CASE UNCHANGED <<queue, stale>>
    BY <2>4 DEF StaleInv, TakesOld
  <2>5. CASE HandleKeyboardInput \/ InputAgain
    <3>1. \/ UNCHANGED queue /\ stale' = stale
          \/ /\ queue["control"] # <<>>
             /\ queue' = [queue EXCEPT !["control"] = <<>>]
             /\ stale' = IF TakesOld THEN stale + 1 ELSE stale
      BY <2>2, <2>3, <2>5 DEF HandleKeyboardInput, InputAgain, TryPop, PollAgain, TakesOld
    <3>2. CASE UNCHANGED <<queue, stale>>
      BY <2>4, <3>2
    <3>3. CASE ~UNCHANGED <<queue, stale>>
      BY <2>1, <2>2, <3>1, <3>3 DEF StaleInv, TakesOld
    <3> QED BY <3>2, <3>3
  <2>6. CASE PollModeKey \/ PollModeAgain
    <3>1. /\ stale' = stale
          /\ queue' = queue \/ queue' = [queue EXCEPT !["mode"] = <<>>]
      BY <2>2, <2>3, <2>6 DEF PollModeKey, PollModeAgain, TryPop, PollAgain
    <3> QED BY <2>1, <2>2, <3>1 DEF StaleInv, TakesOld, Kinds
  <2>7. CASE OnKeyEvent
    <3>1. PICK kind \in Kinds, fn \in ModeKeys \cup ControlKeys :
            /\ queue' = [queue EXCEPT ![kind] = <<[fn |-> fn, old |-> FALSE]>>]
            /\ UNCHANGED stale
      BY <2>7 DEF OnKeyEvent, Push, fsmVars
    <3>2. /\ Len(<<[fn |-> fn, old |-> FALSE]>>) = 1
          /\ Head(<<[fn |-> fn, old |-> FALSE]>>).old = FALSE
      OBVIOUS
    <3> QED BY <2>1, <2>2, <3>1, <3>2 DEF StaleInv, TakesOld
  <2>8. CASE SwitchMode
    <3>1. CASE UNCHANGED <<queue, stale>>
      BY <2>4, <3>1
    <3>2. CASE ~UNCHANGED <<queue, stale>>
      <4> DEFINE q == queue["control"]
      <4>1. /\ stale' = 0
            /\ queue' = [queue EXCEPT !["control"] =
                           [i \in DOMAIN q |-> [q[i] EXCEPT !.old = TRUE]]]
        BY <2>8, <3>2 DEF SwitchMode
      <4>2. q \in Seq(Keys) /\ Len(q) <= 1
        BY <2>1, <2>2
      <4> DEFINE aged == [i \in DOMAIN q |-> [q[i] EXCEPT !.old = TRUE]]
      <4>3. Len(aged) = Len(q)
        <5>1. DOMAIN aged = 1..Len(q) /\ Len(q) \in Nat
          BY <4>2
        <5> QED BY <5>1
      <4> HIDE DEF aged, q
      <4>4. \A kind \in Kinds : queue'[kind] = IF kind = "control" THEN aged ELSE queue[kind]
        BY <2>1, <4>1 DEF aged, q
      <4>5. \A kind \in Kinds : Len(queue'[kind]) <= 1
        BY <2>1, <4>2, <4>3, <4>4
      <4> QED BY <4>1, <4>5 DEF StaleInv
    <3> QED BY <3>1, <3>2
  <2> QED BY <2>4, <2>5, <2>6, <2>7, <2>8
      DEF Next, Main, LoadConfig, Initialize, StartThreads, EnterMainLoop,
          LeaveMainLoop, Stop, StopControl, JoinControl, StopEstimation, Unblock,
          JoinEstimation, Signal, ControlSubsystem, ControlTest, UpdateTargetPose,
          SendCommandToRobot, EstimationSubsystem, EstimationTest, Pop, Update,
          OnLowLevelStateMessageReceived, vars, fsmVars, keyVars
<1>3. StaleInv => OneStaleKey
  BY DEF StaleInv, OneStaleKey
<1> QED BY <1>1, <1>2, <1>3, TypeInvariant, PTL DEF Spec

-----------------------------------------------------------------------------
(* The gains a mode needs.                                                 *)
Fit(m, g) == g = IF m \in {"FreeStand", "BalanceTest"} THEN "FixedStand" ELSE m

(* The legs have the gains of the mode from Initialize() on; no command is *)
(* sent before.                                                            *)
GainsInv ==
  /\ main \in {"config", "created"} => control = "none" /\ mode = "Passive"
  /\ main \in {"initialized", "started", "loop"} \/ control # "none" => Fit(mode, gains)
  /\ GainsFitMode

(* Changing modes, which the code spreads over the constructors, sets the  *)
(* gains or finds them set: the balance test sets none.                    *)
LEMMA SwitchFits ==
  ASSUME Fit(mode, gains), NEW fn, Transit(mode, fn) # mode
  PROVE  Fit(Transit(mode, fn), Gains(Transit(mode, fn)))
BY DEF Fit, Gains, Transit, Keyboard

(* Every command goes out with the gains of the mode that sends it.        *)
THEOREM GainsAlwaysFit == Spec => []GainsFitMode
<1>1. Init => GainsInv
  BY DEF Init, GainsInv, GainsFitMode
<1>2. GainsInv /\ [Next]_vars => GainsInv'
  <2> SUFFICES ASSUME GainsInv, [Next]_vars PROVE GainsInv'
    OBVIOUS
  <2>1. CASE Main \/ Stop \/ Signal
    BY <2>1 DEF Main, LoadConfig, Initialize, StartThreads, EnterMainLoop,
          LeaveMainLoop, MainAt, Stop, StopControl, JoinControl, StopEstimation,
          Unblock, JoinEstimation, Signal, GainsInv, GainsFitMode, Fit, mainVars,
          fsmVars
  <2>2. CASE SwitchMode
    <3>1. /\ control = "switch" /\ control' = "test"
          /\ \/ UNCHANGED <<mode, gains>>
             \/ /\ mode' = Transit(mode, key.fn) /\ mode' # mode
                /\ gains' = Gains(mode')
          /\ UNCHANGED <<main, sent>>
      BY <2>2 DEF SwitchMode, mainVars
    <3>2. Fit(mode, gains)
      BY <3>1 DEF GainsInv
    <3>3. Fit(mode', gains')
      BY <3>1, <3>2, SwitchFits
    <3>4. main \notin {"config", "created"}
      BY <3>1 DEF GainsInv
    <3> QED BY <3>1, <3>3, <3>4 DEF GainsInv, GainsFitMode, Fit
  <2>3. CASE ControlSubsystem /\ ~SwitchMode
    <3>1. control \notin {"none"} /\ UNCHANGED <<main, mode, gains>>
      BY <2>3 DEF ControlSubsystem, ControlTest, HandleKeyboardInput, InputAgain,
                  UpdateTargetPose, SendCommandToRobot, PollModeKey, PollModeAgain,
                  mainVars, fsmVars
    <3>2. UNCHANGED sent \/ (sent'.mode = mode /\ sent'.gains = gains)
      BY <2>3 DEF ControlSubsystem, ControlTest, HandleKeyboardInput, InputAgain,
                  UpdateTargetPose, SendCommandToRobot, PollModeKey, PollModeAgain
    <3> QED BY <3>1, <3>2 DEF GainsInv, GainsFitMode, Fit
  <2>4. CASE \/ EstimationSubsystem \/ OnKeyEvent \/ OnLowLevelStateMessageReceived
             \/ UNCHANGED vars
    BY <2>4 DEF EstimationSubsystem, EstimationTest, Pop, Update, OnKeyEvent,
          OnLowLevelStateMessageReceived, vars, mainVars, fsmVars, GainsInv,
          GainsFitMode, Fit
  <2> QED BY <2>1, <2>2, <2>3, <2>4 DEF Next
<1>3. GainsInv => GainsFitMode
  BY DEF GainsInv
<1> QED BY <1>1, <1>2, <1>3, PTL DEF Spec

-----------------------------------------------------------------------------
(* The control thread takes no more turn: if main() starts it after Stop() *)
(* has run, it finds its loop ended.                                       *)
Halted == ~keep["control"] /\ control \in {"none", "test", "exited"}

(* Stop() is past the join of the control thread.                          *)
Joined ==
  \/ handler \in {"estimation", "unblock", "join_estimation"}
  \/ handler = "returned" /\ signalled # "config"

(* Where a sample of Stop() can be before a command is computed from it.   *)
EmptyAround ==
  \/ \E i \in DOMAIN sensor : sensor[i] = "empty"
  \/ estimation = "update" /\ data = "empty"
  \/ x_hat = "empty"

(* Stop() makes its sample up when the control thread is halted for good:  *)
(* only Initialize(), which is over then, sets the flag of its loop.  When *)
(* it runs again from the destructor the process ends with it.             *)
StopInv ==
  /\ Joined => Halted
  /\ handler = "join_control" => ~keep["control"]
  /\ handler \in {"control", "join_control"} \/ Joined =>
       main \notin {"config", "created"}
  /\ handler \notin {"none", "returned"} => signalled # "config"
  /\ EmptyAround => Joined \/ main = "done"
  /\ basis # "empty" /\ sent.basis # "empty"

(* A sample that is added or taken is the only one of the queue to come or *)
(* go.                                                                     *)
LEMMA SampleQueue ==
  ASSUME NEW q \in Seq(Samples), NEW x \in Samples
  PROVE  /\ (\E i \in DOMAIN Append(q, x) : Append(q, x)[i] = "empty")
              => x = "empty" \/ \E i \in DOMAIN q : q[i] = "empty"
         /\ q # <<>> =>
              /\ (\E i \in DOMAIN Tail(q) : Tail(q)[i] = "empty")
                   => \E i \in DOMAIN q : q[i] = "empty"
              /\ Head(q) = "empty" => \E i \in DOMAIN q : q[i] = "empty"
<1>1. /\ DOMAIN q = 1..Len(q) /\ Len(q) \in Nat
      /\ DOMAIN Append(q, x) = 1..Len(q) + 1
      /\ \A i \in 1..Len(q) : Append(q, x)[i] = q[i]
      /\ Append(q, x)[Len(q) + 1] = x
  BY AppendProperties
<1>2. ASSUME q # <<>>
      PROVE  /\ Head(q) = q[1] /\ 1 \in 1..Len(q)
             /\ DOMAIN Tail(q) = 1..Len(q) - 1
             /\ \A i \in 1..Len(q) - 1 : Tail(q)[i] = q[i + 1] /\ i + 1 \in 1..Len(q)
  BY <1>1, <1>2
<1> QED BY <1>1, <1>2

(* The sample that wakes the estimation thread is never computed with: the *)
(* control thread has been joined, or can take no more turn, before it is  *)
(* made up.                                                                *)
THEOREM NoEmptySample == Spec => []EmptySampleUnused
<1>1. Init => StopInv
  BY DEF Init, StopInv, Joined, Halted, EmptyAround
<1>2. TypeInv /\ StopInv /\ [Next]_vars => StopInv'
  <2> SUFFICES ASSUME TypeInv, StopInv, [Next]_vars PROVE StopInv'
    OBVIOUS
  <2>1. /\ sensor \in Seq(Samples) /\ keep \in [Loops -> BOOLEAN]
        /\ "empty" \in Samples /\ "robot" \in Samples
        /\ "control" \in Loops /\ "estimation" \in Loops /\ "running" \in Loops
    BY DEF TypeInv, TypeOK, Samples, Loops
  <2>2. CASE UNCHANGED vars
    BY <2>2 DEF vars, mainVars, fsmVars, sensorVars, StopInv, Joined, Halted, EmptyAround
  <2>3. CASE LoadConfig \/ Initialize \/ StartThreads \/ EnterMainLoop
    <3>1. /\ UNCHANGED <<handler, signalled, basis, x_hat, sensor, data, sent>>
          /\ handler \in {"none", "returned"}
          /\ estimation' \in {estimation, "test"}
          /\ main # "done"
      BY <2>3 DEF LoadConfig, Initialize, StartThreads, EnterMainLoop, MainAt,
                  fsmVars, sensorVars
    <3>2. EmptyAround' => EmptyAround
      BY <3>1 DEF EmptyAround
    <3>3. Joined' <=> Joined
      BY <3>1 DEF Joined
    <3>4. Joined => Halted' /\ main' \notin {"config", "created"}
      BY <2>1, <2>3 DEF LoadConfig, Initialize, StartThreads, EnterMainLoop, MainAt,
                  StopInv, Halted
    <3> QED BY <3>1, <3>2, <3>3, <3>4 DEF StopInv
  <2>4. CASE LeaveMainLoop
    <3>1. /\ main = "loop" /\ main' = "done" /\ handler \in {"none", "returned"}
          /\ UNCHANGED <<handler, signalled, control, keep, basis, sent>>
      BY <2>4 DEF LeaveMainLoop, MainAt, fsmVars
    <3> QED BY <3>1 DEF StopInv, Joined, Halted
  <2>5. CASE Signal
    <3>1. UNCHANGED <<control, estimation, keep, basis, x_hat, sensor, data, sent>>
      BY <2>5 DEF Signal, fsmVars, sensorVars
    <3>2. ~Joined /\ ~Joined' /\ (main = "done" => main' = "done")
      BY <2>5 DEF Signal, Joined
    <3>3. /\ handler' # "join_control"
          /\ handler' = "control" => main' \notin {"config", "created"}
                                    /\ signalled' # "config"
      BY <2>5 DEF Signal
    <3>5. handler' \notin {"none", "returned"} => signalled' # "config"
      BY <2>5 DEF Signal
    <3>4. EmptyAround' => EmptyAround
      BY <3>1 DEF EmptyAround
    <3> QED BY <3>1, <3>2, <3>3, <3>4, <3>5 DEF StopInv
  <2>6. CASE Stop
    <3>1. UNCHANGED <<main, signalled, control, estimation, basis, x_hat, data, sent>>
      BY <2>6 DEF Stop, StopControl, JoinControl, StopEstimation, Unblock,
                  JoinEstimation, fsmVars, sensorVars
    <3>2. keep'["control"] \in {FALSE, keep["control"]}
      BY <2>1, <2>6 DEF Stop, StopControl, JoinControl, StopEstimation, Unblock,
                  JoinEstimation
    <3>3. sensor' = sensor \/ (sensor' = Append(sensor, "empty") /\ Joined')
      BY <2>6 DEF Stop, StopControl, JoinControl, StopEstimation, Unblock,
                  JoinEstimation, Joined, StopInv, sensorVars
    <3>4. EmptyAround' => EmptyAround \/ Joined'
      BY <3>1, <3>3 DEF EmptyAround
    <3>5. /\ Joined' <=> handler' # "join_control"
          /\ handler' # "control" /\ main \notin {"config", "created"}
          /\ handler' = "join_control" => ~keep'["control"]
          /\ Joined' => Halted'
          /\ Joined => Joined'
          /\ signalled # "config"
      <4>1. signalled # "config"
        BY <2>6 DEF Stop, StopControl, JoinControl, StopEstimation, Unblock,
                  JoinEstimation, StopInv
      <4> QED BY <2>1, <2>6, <3>1, <3>2, <4>1
              DEF Stop, StopControl, JoinControl, StopEstimation, Unblock,
                  JoinEstimation, StopInv, Joined, Halted
    <3> QED BY <3>1, <3>4, <3>5 DEF StopInv
  <2>7. CASE Next /\ ControlSubsystem
    <3>1. /\ UNCHANGED <<main, handler, signalled, estimation, keep, x_hat, sensor, data>>
          /\ basis' \in {basis, x_hat, "unset"} /\ sent'.basis \in {sent.basis, basis'}
      BY <2>7 DEF ControlSubsystem, ControlTest, HandleKeyboardInput, InputAgain,
                  UpdateTargetPose, SendCommandToRobot, PollModeKey, PollModeAgain,
                  SwitchMode, mainVars, fsmVars, sensorVars
    <3>2. Halted => Halted' /\ UNCHANGED <<basis, sent>>
      BY <2>7 DEF ControlSubsystem, ControlTest, HandleKeyboardInput, InputAgain,
                  UpdateTargetPose, SendCommandToRobot, PollModeKey, PollModeAgain,
                  SwitchMode, Halted, fsmVars
    <3>3. main # "done"
      BY <2>7 DEF Next
    <3>4. x_hat = "empty" => Halted
      BY <3>3 DEF StopInv, EmptyAround
    <3>5. basis' # "empty" /\ sent'.basis # "empty"
      BY <3>1, <3>2, <3>4 DEF StopInv
    <3>6. (EmptyAround' <=> EmptyAround) /\ (Joined' <=> Joined)
      BY <3>1 DEF EmptyAround, Joined
    <3> QED BY <3>1, <3>2, <3>5, <3>6 DEF StopInv
  <2>8. CASE EstimationSubsystem \/ OnLowLevelStateMessageReceived \/ OnKeyEvent
    <3>1. UNCHANGED <<main, handler, signalled, control, keep, basis, sent>>
      BY <2>8 DEF EstimationSubsystem, EstimationTest, Pop, Update, OnKeyEvent,
                  OnLowLevelStateMessageReceived, mainVars, fsmVars
    <3>2. EmptyAround' => EmptyAround
      <4>1. CASE Pop
        <5>1. /\ sensor # <<>> /\ data' = Head(sensor) /\ sensor' = Tail(sensor)
              /\ x_hat' \in {x_hat, "torn"}
          BY <4>1 DEF Pop
        <5> QED BY <2>1, <5>1, SampleQueue DEF EmptyAround
      <4>2. CASE OnLowLevelStateMessageReceived
        <5>1. /\ sensor' = Append(sensor, "robot")
              /\ UNCHANGED <<estimation, data, x_hat>>
          BY <4>2 DEF OnLowLevelStateMessageReceived
        <5> QED BY <2>1, <5>1, SampleQueue DEF EmptyAround
      <4>3. CASE EstimationTest \/ Update \/ OnKeyEvent
        BY <4>3 DEF EstimationTest, Update, OnKeyEvent, sensorVars, EmptyAround
      <4> QED BY <2>8, <4>1, <4>2, <4>3 DEF EstimationSubsystem
    <3> QED BY <3>1, <3>2 DEF StopInv, Joined, Halted
  <2> QED BY <2>2, <2>3, <2>4, <2>5, <2>6, <2>7, <2>8 DEF Next, Main
<1>3. StopInv => EmptySampleUnused
  BY DEF StopInv, EmptySampleUnused
<1> QED BY <1>1, <1>2, <1>3, TypeInvariant, PTL DEF Spec
=============================================================================
