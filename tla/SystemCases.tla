----------------------------- MODULE SystemCases -----------------------------
(***************************************************************************)
(* What the configuration files, the files of matrices and the logs are    *)
(* for, over bounded inputs; see DriverCases.                              *)
(***************************************************************************)
EXTENDS Integers, Sequences, SequencesExt, FiniteSets, TLC

Cfg == INSTANCE Config
IO == INSTANCE Files

-----------------------------------------------------------------------------
Modes ==
  {"passive_mode", "fixed_stand_mode", "lying_down_mode", "swing_test_mode",
   "free_stand_mode", "balance_test_mode"}

Items(robot) == IF robot = "sbot" THEN Cfg!SbotItems ELSE Cfg!QuadrupedItems
Vectors(robot) == SelectSeq(Items(robot), LAMBDA item : item.size > 0)
Right(robot) ==
  [e \in Cfg!Entries(Vectors(robot)) |->
     CHOOSE n \in 1..18 : \E v \in ToSet(Vectors(robot)) :
       v.size = n /\ e \in Cfg!Entries(<<v>>)]

KeyLists ==
  {<<>>, <<<<"passive_mode", "1">>, <<"right_stick_right", "PageDown">>>>,
   <<<<"trotting_mode", "W">>, <<"left_stick_up", "W">>>>,
   <<<<"left_stick_up", "W">>, <<"jumping_mode", "J">>>>,
   <<<<"move_base_mode", "M">>, <<"left_stick_up", "AnyKey">>>>}

SetLists ==
  {<<[name |-> "soft", joints |-> 0..11, gains |-> 1],
     [name |-> "stiff", joints |-> 0..11, gains |-> 2]>>,
   <<[name |-> "stiff", joints |-> 0..11, gains |-> 2], [name |-> "soft", joints |-> 0..10, gains |-> 1]>>}

GainNames == [Modes -> {"stiff"}] \cup {[m \in Modes |-> IF m = n THEN g ELSE "stiff"] :
                                        n \in Modes, g \in {"soft", "none"}}

(* A file with at most one entry missing and one vector of another size,   *)
(* or with any keys and gain sets.                                         *)
File(robot, lacks, other, keys, sets, gains) ==
  [kind |-> "config", robot |-> robot, readable |-> TRUE, missing |-> lacks,
   sizes |-> [e \in DOMAIN Right(robot) |-> Right(robot)[e] + IF e \in other THEN 1 ELSE 0],
   keys |-> keys, sets |-> sets, gains |-> gains]

AtMostOne(S) == {{}} \cup {{e} : e \in S}

Complete == CHOOSE s \in SetLists : \A k \in DOMAIN s : s[k].joints = 0..11

Files ==
  UNION {{File(robot, lacks, other, <<>>, Complete, [m \in Modes |-> "stiff"]) :
            lacks \in AtMostOne(Cfg!Entries(Items(robot))), other \in AtMostOne(DOMAIN Right(robot))} :
           robot \in {"quadruped", "sbot"}}
    \cup {File("quadruped", {}, {}, keys, sets, gains) :
            keys \in KeyLists, sets \in SetLists, gains \in GainNames}

KeyCodes == [kind : {"key"}, code : DOMAIN Cfg!KeyNames]

(* A matrix that is written where there may be another file already, as    *)
(* text or as an image, and text that was written by hand.                 *)
Matrices == {<<<<0, 1234567, -26>>>>, <<<<1, 2>>, <<30, 255>>>>, <<<<256>>, <<7>>>>}
Old == [values |-> <<1>>, blank |-> FALSE, word |-> FALSE]
Disks == {<<>>, "m" :> <<Old>>, "m.png" :> [cols |-> 1, n |-> 1, data |-> <<9>>]}
MatrixFiles == [kind : {"matrix_file"}, disk : Disks, m : Matrices, overwrite : BOOLEAN]
ImageFiles == [kind : {"image"}, disk : Disks, m : Matrices, bare : BOOLEAN, overwrite : BOOLEAN]
TextFiles ==
  [kind : {"text"}, lines : UNION {[1..n -> [values : {<<>>, <<5>>, <<6, 7>>}, blank : BOOLEAN, word : BOOLEAN]] : n \in 0..2}]

(* Items that are named, one of them given a value too early, and then     *)
(* values by name and by id and rows of them: the k-th call gives k.       *)
Logs ==
  [kind : {"log"}, names : {<<"a">>, <<"b", "a">>, <<"a", "a", "b">>}, early : {"a", "b"},
   calls : UNION {[1..n -> {"a", "b", "first", "row"}] : n \in 1..4}]

Inputs == Files \cup KeyCodes \cup MatrixFiles \cup ImageFiles \cup TextFiles \cup Logs

-----------------------------------------------------------------------------
(* What is wrong with a file, by what it leads to.                         *)
Throwing(f) ==
  \/ f.missing # {}
  \/ f.robot = "quadruped" /\ \E s \in ToSet(f.sets) : s.joints # 0..11
Refused(f) ==
  \/ f.sizes # Right(f.robot)
  \/ /\ f.robot = "quadruped"
     /\ \/ \E k \in ToSet(f.keys) :
              k[1] \notin DOMAIN Cfg!KeyFunctions \/ k[2] \notin ToSet(Cfg!KeyNames)
        \/ \E m \in Modes : f.gains[m] \notin {s.name : s \in ToSet(f.sets)}

(* A file with a fault is not taken, one without is loaded whole: a key    *)
(* has the last function that was given to it, a mode the gains of the set *)
(* it names.                                                               *)
FileIsLoaded(f) ==
  LET c == Cfg!LoadConfigFile(f, Items(f.robot))
      last(key) == CHOOSE n \in DOMAIN f.keys :
                     f.keys[n][2] = key /\ \A m \in DOMAIN f.keys : f.keys[m][2] = key => m <= n
  IN  /\ c.result = "true" <=> ~Throwing(f) /\ ~Refused(f)
      /\ c.result = "throws" => Throwing(f)
      /\ c.result = "false" => Refused(f)
      /\ c.result = "true" =>
           /\ c.loaded \cup {<<m, "default_joint_gains">> : m \in DOMAIN c.gains}
                = Cfg!Entries(Items(f.robot))
           /\ f.robot = "quadruped" =>
                /\ DOMAIN c.keys = {Cfg!GetKeyCode(k[2]) : k \in ToSet(f.keys)}
                /\ \A k \in ToSet(f.keys) :
                     c.keys[Cfg!GetKeyCode(k[2])] = Cfg!KeyFunctions[f.keys[last(k[2])][1]]
                /\ \A m \in Modes : \E s \in ToSet(f.sets) :
                     s.name = f.gains[m] /\ c.gains[m] = s.gains

-----------------------------------------------------------------------------
(* A matrix is read as it was written, but for digits that are not; where  *)
(* there is a file and it may not be written over, it is as it was.        *)
MatrixIsFile(i) ==
  LET disk == IO!WriteToFile(i.disk, "m", i.m, i.overwrite)
      kept == "m" \in DOMAIN i.disk /\ ~i.overwrite
      read == IO!ReadFromFile(disk, "m")
  IN  /\ read.result = "true"
      /\ IF kept THEN disk = i.disk
         ELSE /\ DOMAIN read.m = DOMAIN i.m
              /\ \A r \in DOMAIN i.m : \A c \in DOMAIN i.m[r] : read.m[r][c] - i.m[r][c] \in -5..5

(* So is an image of bytes.  Under a bare name it is a file of that name   *)
(* that keeps it from being written, not the one it is written to.         *)
ImageIsFile(i) ==
  LET name == IF i.bare THEN "m" ELSE "m.png"
      disk == IO!WriteToImage(i.disk, name, i.bare, i.m, i.overwrite)
      read == IO!ReadFromImage(disk, "m.png")
  IN  IF name \in DOMAIN i.disk /\ ~i.overwrite THEN disk = i.disk
      ELSE read = [result |-> "true", m |-> [r \in DOMAIN i.m |-> [c \in DOMAIN i.m[r] |->
                                               1000 * (i.m[r][c] % 256)]]]

(* Lines of as many numbers, and no blanks behind them, are the rows of    *)
(* the matrix, and such a file is always read.                             *)
TextIsRead(i) ==
  LET clean == \A l \in ToSet(i.lines) :
                 ~l.word /\ ~l.blank /\ l.values # <<>> /\ Len(l.values) = Len(i.lines[1].values)
      words == \E l \in ToSet(i.lines) : l.word
      read == IO!ReadFromFile("m" :> i.lines, "m")
  IN  (i.lines = <<>> \/ i.lines[1].values # <<>>) =>
        /\ read.result = "true" <=> i.lines # <<>> /\ ~words
        /\ clean /\ i.lines # <<>> => read.m = [r \in DOMAIN i.lines |-> i.lines[r].values]

(* The row of a log has under each name of the heading the value that was  *)
(* given for it last, since the heading.                                   *)
Logged(l, call, k) ==
  CASE call = "row" -> IO!PassEntryDataToLogger(l)
    [] call = "first" -> IO!AddItemDataById(l, 0, ToString(k))
    [] OTHER -> IO!AddItemDataByName(l, call, ToString(k))

LogIsKept(i) ==
  LET named == FoldLeft(IO!AddItemNameToEntryHead, IO!NewLogger, i.names)
      begun == IO!PassEntryHeaderToLogger(IO!AddItemDataByName(named, i.early, "early"))
      l == FoldLeftDomain(LAMBDA m, k : Logged(m, i.calls[k], k), begun, i.calls)
      heading == l.log[1]
      row(k) == 1 + Cardinality({j \in 1..k : i.calls[j] = "row"})
      last(name, k) ==
        LET given == {j \in 1..k : i.calls[j] = name \/ (i.calls[j] = "first" /\ name = heading[1])}
        IN  IF given = {} THEN "0" ELSE ToString(CHOOSE j \in given : \A n \in given : n <= j)
  IN  /\ l.defined /\ ToSet(heading) = ToSet(i.names) /\ IsInjective(heading)
      /\ \A k \in DOMAIN i.calls : i.calls[k] = "row" =>
           l.log[row(k)] = [c \in DOMAIN heading |-> last(heading[c], k)]

FilesKept(i) ==
  CASE i.kind = "config" -> FileIsLoaded(i)
    [] i.kind = "key" -> Cfg!GetKeyCode(Cfg!GetKeyName(i.code)) = i.code
    [] i.kind = "matrix_file" -> MatrixIsFile(i)
    [] i.kind = "image" -> ImageIsFile(i)
    [] i.kind = "text" -> TextIsRead(i)
    [] i.kind = "log" -> LogIsKept(i)
    [] OTHER -> TRUE
=============================================================================
