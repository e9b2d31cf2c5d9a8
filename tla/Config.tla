-------------------------------- MODULE Config -------------------------------
(***************************************************************************)
(* The configuration files of the quadruped and of the swerve robot, and   *)
(* the names of keys in them.  An entry of a file is <<section, name>>;    *)
(* of its value matters whether it is there, how long a vector is, and     *)
(* what a gain set, a key or the input type is called.                     *)
(***************************************************************************)
EXTENDS Integers, Sequences, SequencesExt, TLC

(* KeyboardMapping: the codes of KeyboardCode are 1, 2, ... in this order. *)
KeyNames ==
  <<"A", "B", "C", "D", "E", "F", "G", "H", "I", "J", "K", "L", "M", "N",
    "O", "P", "Q", "R", "S", "T", "U", "V", "W", "X", "Y", "Z", "Esc", "1",
    "2", "3", "4", "5", "6", "7", "8", "9", "0", "-", "=", "Backspace",
    "Tab", "Enter", "Space", "CapsLock", "F1", "F2", "F3", "F4", "F5",
    "F6", "F7", "F8", "F9", "F10", "F11", "F12", "LeftCtrl", "RightCtrl",
    "LeftShift", "RightShift", "LeftAlt", "RightAlt", "Left", "Right",
    "Up", "Down", "Home", "End", "PageUp", "PageDown">>

kUnknown == 0
GetKeyName(code) == KeyNames[code]
GetKeyCode(name) ==
  IF name \in ToSet(KeyNames) THEN CHOOSE c \in DOMAIN KeyNames : KeyNames[c] = name ELSE kUnknown

ModeKeys ==
  <<"passive_mode", "fixed_stand_mode", "free_stand_mode", "trotting_mode",
    "swing_test_mode", "balance_test_mode", "move_base_mode">>
ControlKeys ==
  <<"left_stick_up", "left_stick_down", "left_stick_left", "left_stick_right",
    "right_stick_up", "right_stick_down", "right_stick_left", "right_stick_right">>

(* str_to_key_mapping: the values of HidSettings::KeyFunction.             *)
KeyFunctions ==
  [f \in ToSet(ModeKeys \o ControlKeys) |->
     IF f \in ToSet(ModeKeys) THEN CHOOSE n \in 1..7 : ModeKeys[n] = f
     ELSE 9 + CHOOSE n \in 1..8 : ControlKeys[n] = f]

-----------------------------------------------------------------------------
(* What is read of a file, in order: entries that are read together and,   *)
(* when they are vectors, must have a size.                                *)
Item(section, names, size) == [section |-> section, names |-> names, size |-> size]
Scalars(section, names) == [n \in DOMAIN names |-> Item(section, <<names[n]>>, 0)]
Keys == <<Item("keyboard_mappings", <<>>, 0)>>
GainSets == <<Item("gain_sets", <<>>, 0)>>
Gains(mode) == <<Item(mode, <<"default_joint_gains">>, 0)>>

SystemItems ==
  Scalars("", <<"dds_domain_id", "network_interface", "is_simulation">>)
    \o Scalars("keyboard", <<"enable", "device_name">>) \o Keys
    \o Scalars("joystick", <<"enable", "device_name">>)
    \o Scalars("estimator_settings", <<"expected_dt">>) \o <<Item("simple_estimator", <<"Q_diag">>, 18)>>

StandItems(mode) ==
  Gains(mode) \o <<Item(mode, <<"q_desired">>, 12)>> \o Scalars(mode, <<"duration_ms">>)

SwingTestItems ==
  Gains("swing_test_mode") \o Scalars("swing_test_mode", <<"swing_leg_index">>)
    \o Scalars("joint_s_0", <<"kp", "kd">>) \o Scalars("joint_s_1", <<"kp", "kd">>)
    \o Scalars("joint_s_2", <<"kp", "kd">>) \o <<Item("swing_test_mode", <<"kp", "kd">>, 3)>>
    \o Scalars("change_limit", <<"x_min", "x_max", "y_min", "y_max", "z_min", "z_max">>)
    \o Scalars("swing_test_mode", <<"move_step">>)

FreeStandItems ==
  Gains("free_stand_mode") \o Scalars("free_stand_mode.pose_limit", <<"roll", "pitch", "yaw", "height">>)
    \o Scalars("free_stand_mode", <<"angle_step", "height_step">>)

BalanceTestItems ==
  Gains("balance_test_mode") \o <<Item("position_controller", <<"kp", "kd">>, 3)>>
    \o Scalars("orientation_controller", <<"kp">>) \o <<Item("orientation_controller", <<"kd">>, 3)>>
    \o Scalars("balance_test_mode.pose_limit", <<"x", "y", "z", "yaw">>)
    \o Scalars("balance_test_mode", <<"move_step", "rotate_step", "friction_ratio">>)

BalanceControllerItems ==
  <<Item("balance_controller", <<"s">>, 6), Item("balance_controller", <<"w">>, 12),
    Item("balance_controller", <<"u">>, 12)>> \o Scalars("balance_controller", <<"alpha", "beta">>)

QuadrupedItems ==
  SystemItems \o GainSets \o Gains("passive_mode") \o StandItems("fixed_stand_mode")
    \o StandItems("lying_down_mode") \o SwingTestItems \o FreeStandItems \o BalanceTestItems
    \o BalanceControllerItems

RcChannel(name) == Scalars(name, <<"channel", "min", "neutral", "max", "invert">>)
SbotItems ==
  Scalars("robot_base", <<"steering_motor_port", "driving_motor_port", "max_driving_speed",
                          "max_steering_angle", "driving_deadzone", "steering_deadzone">>)
    \o Scalars("user_input", <<"type">>) \o Scalars("joystick", <<"device">>)
    \o Scalars("rc_receiver", <<"port">>)
    \o RcChannel("mode") \o RcChannel("linear_x") \o RcChannel("linear_y") \o RcChannel("angular_z")
    \o Scalars("manual_mode", <<"driving_scale", "steering_scale">>)
    \o Scalars("auto_mode", <<"driving_scale", "steering_scale">>)

Entries(items) == UNION {{<<items[i].section, n>> : n \in ToSet(items[i].names)} : i \in DOMAIN items}

-----------------------------------------------------------------------------
(* A file: whether it can be opened; the entries it lacks; the sizes of    *)
(* its vectors, by entry; the keys for functions and the joints that have  *)
(* gains in each gain set, in the order of the file; the gain set each     *)
(* mode names; the input type.  A configuration: the entries that were     *)
(* loaded; the function of each key; gain sets; the modes' gains.          *)
NoConfig == [result |-> "reading", loaded |-> {}, keys |-> <<>>, sets |-> <<>>, gains |-> <<>>]

(* A mutation: a key that is no key is mapped.                             *)
LoadAnyKey(file, c) ==
  LET map(d, k) ==
        IF k[1] \notin DOMAIN KeyFunctions THEN [d EXCEPT !.result = "false"]
        ELSE [d EXCEPT !.keys = GetKeyCode(k[2]) :> KeyFunctions[k[1]] @@ @]
  IN  FoldLeft(map, c, file.keys)

(* The first unknown function or key ends the loading; the others before   *)
(* it stay.  A key that has two functions keeps the later one.             *)
LoadKeys(file, c) ==
  LET map(d, k) ==
        IF d.result # "reading" THEN d
        ELSE IF k[1] \notin DOMAIN KeyFunctions \/ GetKeyCode(k[2]) = kUnknown
        THEN [d EXCEPT !.result = "false"]
        ELSE [d EXCEPT !.keys = GetKeyCode(k[2]) :> KeyFunctions[k[1]] @@ @]
  IN  FoldLeft(map, c, file.keys)

LoadGainSets(file, c) ==
  LET map(d, s) == IF d.result # "reading" THEN d
                   ELSE IF s.joints # 0..11 THEN [d EXCEPT !.result = "throws"]
                   ELSE [d EXCEPT !.sets = s.name :> s.gains @@ @]
  IN  FoldLeft(map, c, file.sets)

LoadGains(file, c, mode) ==
  IF file.gains[mode] \notin DOMAIN c.sets THEN [c EXCEPT !.result = "false"]
  ELSE [c EXCEPT !.gains = mode :> c.sets[file.gains[mode]] @@ @]

(* An entry that is not there raises an exception nothing catches.         *)
LoadItem(file, c, item) ==
  LET entries == {<<item.section, n>> : n \in ToSet(item.names)}
  IN  IF c.result # "reading" THEN c
      ELSE IF entries \cap file.missing # {} THEN [c EXCEPT !.result = "throws"]
      ELSE CASE item.section = "keyboard_mappings" -> LoadKeys(file, c)
             [] item.section = "gain_sets" -> LoadGainSets(file, c)
             [] item.names = <<"default_joint_gains">> -> LoadGains(file, c, item.section)
             [] \E e \in entries : item.size > 0 /\ file.sizes[e] # item.size ->
                  [c EXCEPT !.result = "false"]
             [] OTHER -> [c EXCEPT !.loaded = @ \cup entries]

LoadConfigFile(file, items) ==
  IF ~file.readable THEN [NoConfig EXCEPT !.result = "false"]
  ELSE LET c == FoldLeft(LAMBDA d, item : LoadItem(file, d, item), NoConfig, items)
       IN  IF c.result = "reading" THEN [c EXCEPT !.result = "true"] ELSE c

(* What kind of input an Sbot has: any other name is none.                 *)
UserInputType(name) ==
  IF name \in {"joystick", "rc_receiver"} THEN name ELSE "none"
=============================================================================
