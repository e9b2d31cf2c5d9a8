--------------------------------- MODULE Files --------------------------------
(***************************************************************************)
(* What is kept in files: matrices and images by EigenIO, and the rows of  *)
(* a CtrlLogger.  A disk is a function from the names of files to what is  *)
(* in them; a value is a whole number of tenths of a millionth.            *)
(***************************************************************************)
EXTENDS Integers, Sequences, SequencesExt, TLC

Rows(data, rows, cols) == [r \in 1..rows |-> [c \in 1..cols |-> data[(r - 1) * cols + c]]]

(* A matrix is written with six digits behind the point.                   *)
Fixed(v) == ((v + 5) \div 10) * 10

-----------------------------------------------------------------------------
(* A file of text is a sequence of lines, a line its values, whether there *)
(* is a blank behind them, and whether one of them is no number.  What is  *)
(* read behind the last value of a line is that value again.               *)
ReadLine(data, line) ==
  LET read == data \o line.values
  IN  IF line.blank \/ line.values = <<>> THEN Append(read, Last(read)) ELSE read

NoMatrix == [result |-> "false", m |-> <<>>]

(* A word that is no number is tried for ever, and a file without a line   *)
(* divides by zero.                                                        *)
ReadFromFile(disk, name) ==
  IF name \notin DOMAIN disk THEN NoMatrix
  ELSE LET lines == disk[name]
           data == FoldLeft(ReadLine, <<>>, lines)
       IN  CASE \E l \in ToSet(lines) : l.word -> [NoMatrix EXCEPT !.result = "never"]
             [] lines = <<>> -> [NoMatrix EXCEPT !.result = "fault"]
             [] OTHER -> [result |-> "true", m |-> Rows(data, Len(lines), Len(data) \div Len(lines))]

MayWrite(disk, name, overwrite) == name \notin DOMAIN disk \/ overwrite

(* The disk after a matrix is written to a directory that can be made.     *)
WriteToFile(disk, name, m, overwrite) ==
  IF ~MayWrite(disk, name, overwrite) THEN disk
  ELSE name :> [r \in DOMAIN m |-> [values |-> [c \in DOMAIN m[r] |-> Fixed(m[r][c])],
                                    blank |-> FALSE, word |-> FALSE]] @@ disk

(* An image keeps the lowest byte of each whole value, row by row.  A bare *)
(* name - without the suffix of a format - gets one after it was looked up.*)
WriteToImage(disk, name, bare, m, overwrite) ==
  LET cols == Len(m[1])
      pixel(k) == m[((k - 1) \div cols) + 1][((k - 1) % cols) + 1]
      data == [k \in 1..(Len(m) * cols) |-> pixel(k) % 256]
  IN  IF ~MayWrite(disk, name, overwrite) THEN disk
      ELSE (IF bare THEN name \o ".png" ELSE name) :> [cols |-> cols, n |-> 1, data |-> data] @@ disk

(* A pixel of one or two channels is its first, one of more its brightness *)
(* in thousandths.                                                         *)
ReadFromImage(disk, name) ==
  IF name \notin DOMAIN disk THEN NoMatrix
  ELSE LET image == disk[name]
           pixels == Len(image.data) \div image.n
           at(k, channel) == image.data[(k - 1) * image.n + channel]
           grey(k) == IF image.n <= 2 THEN 1000 * at(k, 1)
                      ELSE 299 * at(k, 1) + 587 * at(k, 2) + 114 * at(k, 3)
       IN  [result |-> "true", m |-> Rows([k \in 1..pixels |-> grey(k)], pixels \div image.cols, image.cols)]

-----------------------------------------------------------------------------
(* CtrlLogger: the names of the items in the order they were added, which  *)
(* are their ids from 0; the data of each, "" for none; what was logged.   *)
NewLogger == [head |-> FALSE, names |-> <<>>, data |-> <<>>, log |-> <<>>, defined |-> TRUE]

AddItemNameToEntryHead(l, name) ==
  IF name \in ToSet(l.names) THEN l ELSE [l EXCEPT !.names = Append(@, name)]

(* The place of an id is not checked: without one it is somewhere else.    *)
AddItemDataById(l, id, data) ==
  IF ~l.head THEN l
  ELSE IF id + 1 \in DOMAIN l.data THEN [l EXCEPT !.data[id + 1] = data]
  ELSE [l EXCEPT !.defined = FALSE]

AddItemDataByName(l, name, data) ==
  IF ~l.head \/ name \notin ToSet(l.names) THEN l
  ELSE AddItemDataById(l, (CHOOSE k \in DOMAIN l.names : l.names[k] = name) - 1, data)

PassEntryHeaderToLogger(l) ==
  IF l.names = <<>> THEN l
  ELSE [l EXCEPT !.head = TRUE, !.log = Append(@, l.names),
                 !.data = [k \in DOMAIN l.names |-> IF k \in DOMAIN @ THEN @[k] ELSE ""]]

PassEntryDataToLogger(l) ==
  IF l.data = <<>> THEN l
  ELSE [l EXCEPT !.log = Append(@, [k \in DOMAIN l.data |-> IF l.data[k] = "" THEN "0" ELSE l.data[k]])]
=============================================================================
