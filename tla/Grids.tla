-------------------------------- MODULE Grids --------------------------------
(***************************************************************************)
(* The grids of src/planning/decomp: the rectangular storage under DenseGrid*)
(* and SquareGrid, the square grid built from an occupancy matrix, and the *)
(* curvilinear grid along a path.  Elements are integers; a length is in   *)
(* a unit that makes half a cell an integer.                               *)
(***************************************************************************)
EXTENDS Integers, Sequences, SequencesExt, FiniteSetsExt

(* Integer division of C++, which truncates towards zero.                  *)
Quot(a, b) == IF a >= 0 THEN a \div b ELSE -((-a) \div b)

-----------------------------------------------------------------------------
(* RectGridBase with its tiles: tile[<<x, y>>], and where the field's      *)
(* origin lies in them.                                                    *)
Tiles(w, h) == (0..w - 1) \X (0..h - 1)

RectGrid(w, h) ==
  [w |-> w, h |-> h, ox |-> 0, oy |-> 0, tile |-> [t \in Tiles(w, h) |-> 0]]

ResizeGrid(grid, w, h) ==
  [grid EXCEPT !.w = w, !.h = h,
               !.tile = [t \in Tiles(w, h) |->
                           IF t \in DOMAIN grid.tile THEN grid.tile[t] ELSE 0]]

SetOriginCoordinate(grid, x, y) == [grid EXCEPT !.ox = x, !.oy = y]

ConvertToRawCoordinate(grid, x, y) == <<x + grid.ox, y + grid.oy>>
ConvertToGridCoordinate(grid, x, y) == <<x - grid.ox, y - grid.oy>>

SetTileAtGridCoordinate(grid, x, y, value) ==
  [grid EXCEPT !.tile[ConvertToRawCoordinate(grid, x, y)] = value]

GetTileAtGridCoordinate(grid, x, y) == grid.tile[ConvertToRawCoordinate(grid, x, y)]

(* DenseGrid: a matrix m[y][x] replaces the tiles; two grids add up.       *)
SetupGridWithMatrix(grid, m) ==
  LET new == ResizeGrid(grid, Len(m[1]), Len(m))
  IN  [new EXCEPT !.tile = [t \in DOMAIN new.tile |-> m[t[2] + 1][t[1] + 1]]]

AddGrid(grid, other) ==
  [grid EXCEPT !.tile = [t \in DOMAIN @ |-> @[t] + other.tile[t]]]

SubtractGrid(grid, other) ==
  [grid EXCEPT !.tile = [t \in DOMAIN @ |-> @[t] - other.tile[t]]]

-----------------------------------------------------------------------------
(* SquareGrid: cell ids run along the rows.                                *)
IndexToID(w, x, y) == y * w + x
IDToIndex(w, id) == <<id % w, id \div w>>

SquareVertices(size, x, y) ==
  <<<<size * x, size * y>>, <<size * (x + 1), size * y>>,
    <<size * x, size * (y + 1)>>, <<size * (x + 1), size * (y + 1)>>>>

SquareCell(w, size, x, y) ==
  [x |-> x, y |-> y, id |-> IndexToID(w, x, y), vertices |-> SquareVertices(size, x, y)]

(* The matrix constructor: the cells whose block holds an element that is  *)
(* not zero are OCCUPIED; what does not fill a cell at the end is left out.*)
OccupiedCells(m, per) ==
  {c \in Tiles(Len(m[1]) \div per, Len(m) \div per) :
     \E i \in per * c[1] + 1..per * (c[1] + 1), j \in per * c[2] + 1..per * (c[2] + 1) :
       m[j][i] # 0}

CellsAcross(n, side) == ((n \div 2) \div side) * 2

(* ConvertToSquareGrid: a number of cells that is always even, of a matrix *)
(* centred when it is cut.  Normalising adds the least element instead of  *)
(* subtracting it; the threshold is compared without dividing.             *)
ConvertToSquareGrid(m, side, threshold) ==
  LET cols == Len(m[1])
      rows == Len(m)
      elements == UNION {ToSet(m[y]) : y \in 1..rows}
      least == Min(elements)
      cut == cols % side # 0 \/ rows % side # 0
      start(n) == IF cut /\ n % side # 0 THEN (n \div 2) % side ELSE 0
      number(n) == CellsAcross(n, side)
  IN  [w |-> number(cols), h |-> number(rows),
       occupied |->
         {c \in Tiles(number(cols), number(rows)) :
            \E i \in 1..side, j \in 1..side :
              m[start(rows) + side * c[2] + j][start(cols) + side * c[1] + i] + least
                > threshold * (Max(elements) - least)}]

(* The cells around one, with or without the diagonal ones.                *)
GetNeighbours(w, h, x, y, allow_diag) ==
  {c \in (x - 1..x + 1) \X (y - 1..y + 1) :
     /\ c # <<x, y>> /\ c[1] \in 0..w - 1 /\ c[2] \in 0..h - 1
     /\ allow_diag \/ c[1] = x \/ c[2] = y}

-----------------------------------------------------------------------------
(* The curvilinear grid: rows along the path, and in each row num cells    *)
(* across it, counted from the right; an even number leaves out index 0.   *)
CentreNull(num) == num % 2 = 0

Across(num) ==
  SelectSeq([i \in 1..2 * (num \div 2) + 1 |-> i - 1 - (num \div 2)],
            LAMBDA y : ~(CentreNull(num) /\ y = 0))

CurviID(num, x, y) ==
  x * (IF CentreNull(num) THEN num + 1 ELSE num) + y + (num \div 2)

CurviIndex(num, id) ==
  LET row == IF CentreNull(num) THEN num + 1 ELSE num
  IN  <<id \div row, (id % row) - (num \div 2)>>

(* UpdateGeometry: the cell's extent along the path and across it.         *)
CurviCell(num, s_step, d_step, x, y) ==
  LET half == IF CentreNull(num) THEN 0 ELSE d_step \div 2
      top == IF y >= 0 THEN y * d_step + half ELSE (y + 1) * d_step - half
  IN  [index |-> <<x, y>>, id |-> CurviID(num, x, y),
       s |-> <<s_step * x, s_step * (x + 1)>>, delta |-> <<top - d_step, top>>]

(* SetupGrid: a row between two knots, the knots a step apart from the     *)
(* offset to the end of the path.                                          *)
SetupGrid(length, s_step, d_step, num, s_offset) ==
  [x \in 0..((length - s_offset) \div s_step) - 1 |->
     [i \in DOMAIN Across(num) |-> CurviCell(num, s_step, d_step, x, Across(num)[i])]]

(* Where a point of the grid lies, for a path along the x axis.  What      *)
(* GridPointToIndex takes is along the path, what this takes in the grid.  *)
ConvertToGlobalCoordinate(s_offset, s, delta) == <<s + s_offset, delta>>

(* GetCell: the place in the row counts index 0, also where it is left out.*)
GetCell(tiles, num, x, y) == tiles[x][y + (num \div 2) + 1]

(* The rows from min_h to max_h ahead, as far as there are rows.           *)
GetNeighboursBetween(tiles, num, x, min_h, max_h) ==
  {GetCell(tiles, num, x + h, y) :
     h \in min_h..Min({max_h, Max(DOMAIN tiles) - x}), y \in ToSet(Across(num))}

(* A mutation: the middle cell is taken to end where the next one begins.  *)
GridPointRounded(num, s_step, d_step, s_offset, s, delta) ==
  <<Quot(s - s_offset, s_step), Quot(delta, d_step)>>

GridPointToIndex(num, s_step, d_step, s_offset, s, delta) ==
  LET half == d_step \div 2
      y == IF CentreNull(num)
           THEN CASE delta = 0 -> 0
                  [] delta > 0 -> Quot(delta, d_step) + 1
                  [] delta < 0 -> Quot(delta, d_step) - 1
           ELSE CASE delta > -half /\ delta < half -> 0
                  [] delta >= half -> Quot(delta - half, d_step) + 1
                  [] delta <= -half -> Quot(delta + half, d_step) - 1
  IN  <<Quot(s - s_offset, s_step), y>>

-----------------------------------------------------------------------------
(* How the square and the curvilinear grid, which own their cells through  *)
(* plain pointers, are copied, moved and destroyed.  A memory has a label  *)
(* for each cell and how often it was deleted; a grid is the sequence of   *)
(* its cells and the offset of its path.                                   *)
Unset == -1 \* what a member is that no constructor sets
NoGrid == [tiles |-> <<>>, s_offset |-> Unset]

NewCells(memory, labels) ==
  memory \o [n \in DOMAIN labels |-> [label |-> labels[n], deleted |-> 0]]

Fresh(memory, n) == [k \in 1..n |-> Len(memory) + k]
Labels(memory, grid) == [n \in DOMAIN grid.tiles |-> memory[grid.tiles[n]].label]

Delete(memory, tiles) ==
  [c \in DOMAIN memory |-> IF c \in ToSet(tiles) THEN [memory[c] EXCEPT !.deleted = @ + 1] ELSE memory[c]]

-----------------------------------------------------------------------------
(* A world has the memory and the grids by their names.                    *)
NewGrid(world, g, n, s_offset) ==
  [world EXCEPT !.memory = NewCells(@, [k \in 1..n |-> "FREE"]),
                ![g] = [tiles |-> Fresh(world.memory, n), s_offset |-> s_offset]]

SetCellLabel(world, g, n, label) ==
  [world EXCEPT !.memory[world[g].tiles[n]].label = label]

Destroy(world, g) ==
  [world EXCEPT !.memory = Delete(@, world[g].tiles), ![g] = NoGrid]

(* Copying makes cells of its own; neither grid copies its offset.         *)
CopyCells(world, to, from) ==
  [world EXCEPT !.memory = NewCells(@, Labels(@, world[from])),
                ![to] = [tiles |-> Fresh(world.memory, Len(world[from].tiles)), s_offset |-> Unset]]

SquareCopy(world, to, from) == CopyCells(world, to, from)
CurviCopy(world, to, from) == CopyCells(world, to, from)

(* A square grid is assigned nothing: the copy is made and destroyed.      *)
SquareAssign(world, to, from) ==
  LET copy == CopyCells(world, to, from)
  IN  [copy EXCEPT ![to] = world[to], !.memory = Delete(@, copy[to].tiles)]

(* A square grid that was moved from keeps its cells.                      *)
SquareMove(world, to, from) ==
  [world EXCEPT ![to] = [tiles |-> world[from].tiles, s_offset |-> Unset]]

(* A curvilinear grid is left without; what the target had is lost when it *)
(* is assigned to, and its offset stays.                                   *)
CurviMove(world, to, from) ==
  [world EXCEPT ![to] = [tiles |-> world[from].tiles, s_offset |-> Unset], ![from].tiles = <<>>]

CurviMoveAssign(world, to, from) ==
  [world EXCEPT ![to].tiles = world[from].tiles, ![from].tiles = <<>>]

(* The copy and the target swap their cells through three moves, and the   *)
(* copy is destroyed with those of the target.                             *)
CurviAssign(world, to, from) ==
  LET copy == CopyCells(world, to, from)
  IN  [copy EXCEPT ![to] = [tiles |-> copy[to].tiles, s_offset |-> world[to].s_offset],
                   !.memory = Delete(@, world[to].tiles)]
=============================================================================
