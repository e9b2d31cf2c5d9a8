----------------------------- MODULE PlanningCases ----------------------------
(***************************************************************************)
(* What the grids, trees and graphs of the planners are for, over bounded  *)
(* inputs; see DriverCases.                                                *)
(***************************************************************************)
EXTENDS Integers, Sequences, SequencesExt, FiniteSets

Grid == INSTANCE Grids
Lines == INSTANCE Geometry
Kd == INSTANCE KdTree
Rrts == INSTANCE RrtStandalone

CurviPoints ==
  [kind : {"point"}, num : 1..5, offset : {0, 3}, s : 0..12, delta : -10..10]

Matrices ==
  [kind : {"matrix"}, side : {1, 2},
   m : [1..4 -> {<<0, 0, 0, 0>>, <<1, 0, 0, 0>>, <<0, 0, 1, 0>>, <<0, 1, 0, 1>>}]]

(* Up to five positions in the order in which they are put into a k-d tree *)
(* of two dimensions, or a few that differ along one axis of many.         *)
Positions == {<<0, 0>>, <<0, 2>>, <<1, 1>>, <<2, 0>>, <<3, 2>>, <<3, 3>>}
PositionLists == UNION {[1..n -> Positions] : n \in 1..4} \cup {p \in [1..5 -> Positions] : IsInjective(p)}
Spread(p) == [d \in 1..17 |-> IF d = 1 THEN p[1] ELSE IF d = 17 THEN p[2] ELSE 0]

KdCases == [kind : {"kd"}, positions : PositionLists, range : {1, 2}]

(* Samples on a plane with an obstacle, without one, and with an operating *)
(* region that is wider than high, whose keys are out of proportion.       *)
RrtsSystem(size, goal, obstacles, radius) ==
  [regionOperating |-> Rrts!region(<<2, 2>>, size), regionGoal |-> Rrts!region(goal, <<1, 1>>),
   obstacles |-> obstacles, radius |-> [n \in 1..5 |-> radius]]

RrtsSystems ==
  {RrtsSystem(<<4, 4>>, <<3, 3>>, {Rrts!region(<<2, 2>>, <<1, 2>>)}, 12),
   RrtsSystem(<<4, 4>>, <<4, 1>>, {}, 9), RrtsSystem(<<8, 4>>, <<3, 3>>, {}, 12)}

RrtsSamples == {<<1, 1>>, <<2, 1>>, <<3, 3>>, <<4, 1>>, <<2, 3>>, <<3, 2>>}

RrtsCases ==
  [kind : {"rrts"}, system : RrtsSystems, again : BOOLEAN,
   samples : UNION {[1..n -> RrtsSamples] : n \in 1..4}]

(* What is done with two grids, of which b does not exist at first.        *)
GridUses ==
  [kind : {"copies"}, family : {"square", "curvi"},
   steps : UNION {[1..n -> {"copy", "assign", "back", "move", "take", "a", "b"}] : n \in 1..5}]

(* A line, another that goes on where it ends, and a turn with a move.     *)
LinePoints == {<<-2, 1>>, <<0, 0>>, <<1, 3>>, <<4, -1>>}
LineCases ==
  [kind : {"line"}, first : UNION {[1..n -> LinePoints] : n \in 1..3},
   second : UNION {[1..n -> LinePoints] : n \in 0..2}, pose : {<<0, 0, 1>>, <<3, -2, 2>>, <<-1, 5, 3>>}]

Inputs == GridUses \cup LineCases \cup CurviPoints \cup Matrices \cup KdCases \cup RrtsCases

-----------------------------------------------------------------------------
(* The index of a path coordinate names the cell whose extent holds the    *)
(* point, and so does its id; where the cell is drawn, the index is its    *)
(* own; with an odd number of cells across GetCell returns that cell.      *)
PointInCell(i) ==
  i.s >= i.offset /\ (i.num % 2 = 0 => i.delta # 0) =>
    LET index == Grid!GridPointToIndex(i.num, 3, 4, i.offset, i.s, i.delta)
        tiles == Grid!SetupGrid(12, 3, 4, i.num, i.offset)
        cell == Grid!CurviCell(i.num, 3, 4, index[1], index[2])
        drawn == Grid!ConvertToGlobalCoordinate(i.offset, cell.s[1] + 1, cell.delta[1] + 1)
    IN  /\ i.s - i.offset \in cell.s[1]..cell.s[2]
        /\ Grid!GridPointToIndex(i.num, 3, 4, i.offset, drawn[1], drawn[2]) = index
        /\ i.delta \in cell.delta[1]..cell.delta[2]
        /\ index[1] \in DOMAIN tiles /\ index[2] \in ToSet(Grid!Across(i.num)) =>
             /\ Grid!CurviIndex(i.num, cell.id) = index
             /\ i.num % 2 = 1 =>
                  /\ Grid!GetCell(tiles, i.num, index[1], index[2]) = cell
                  /\ \A d \in Grid!GetNeighboursBetween(tiles, i.num, index[1], 0, 1) :
                       d.s[1] \in {cell.s[1], cell.s[2]} /\ d.delta[1] \in -10..10

(* A grid and its copies have cells of their own and the labels they would *)
(* have as values, and each cell is deleted once, but for those of a grid  *)
(* that takes another's: they are lost.  A square grid that is assigned to *)
(* stays as it is; this is for square grids that are not moved.            *)
Able(i, used, step) ==
  CASE step = "copy" -> ~used.made /\ used.a # <<>>
    [] step = "move" -> ~used.made /\ used.a # <<>> /\ i.family = "curvi"
    [] step \in {"assign", "back"} -> used.made
    [] step = "take" -> used.made /\ used.a # <<>> /\ i.family = "curvi"
    [] step = "a" -> used.a # <<>>
    [] OTHER -> used.b # <<>>

UsedGrids(i, used, step) ==
  LET w == used.world
      sq == i.family = "square"
  IN  CASE ~Able(i, used, step) -> used
        [] step = "copy" ->
             [used EXCEPT !.made = TRUE, !.b = used.a,
                !.world = IF sq THEN Grid!SquareCopy(w, "b", "a") ELSE Grid!CurviCopy(w, "b", "a")]
        [] step = "move" ->
             [used EXCEPT !.made = TRUE, !.b = used.a, !.a = <<>>, !.world = Grid!CurviMove(w, "b", "a")]
        [] step = "assign" ->
             IF sq THEN [used EXCEPT !.world = Grid!SquareAssign(w, "b", "a")]
             ELSE [used EXCEPT !.b = used.a, !.world = Grid!CurviAssign(w, "b", "a")]
        [] step = "back" ->
             IF sq THEN [used EXCEPT !.world = Grid!SquareAssign(w, "a", "b")]
             ELSE [used EXCEPT !.a = used.b, !.world = Grid!CurviAssign(w, "a", "b")]
        [] step = "take" ->
             [used EXCEPT !.b = used.a, !.a = <<>>, !.lost = @ \cup ToSet(w.b.tiles),
                          !.world = Grid!CurviMoveAssign(w, "b", "a")]
        [] step = "a" -> [used EXCEPT !.a[1] = "OCCUPIED", !.world = Grid!SetCellLabel(w, "a", 1, "OCCUPIED")]
        [] OTHER -> [used EXCEPT !.b[2] = "OCCUPIED", !.world = Grid!SetCellLabel(w, "b", 2, "OCCUPIED")]

CopiesOwnCells(i) ==
  LET none == [memory |-> <<>>, a |-> Grid!NoGrid, b |-> Grid!NoGrid]
      start == [world |-> Grid!NewGrid(none, "a", 2, 3), made |-> FALSE, lost |-> {},
                a |-> <<"FREE", "FREE">>, b |-> <<>>]
      end == FoldLeft(LAMBDA used, step : UsedGrids(i, used, step), start, i.steps)
      w == end.world
      gone == Grid!Destroy(Grid!Destroy(w, "b"), "a")
  IN  /\ Grid!Labels(w.memory, w.a) = end.a /\ Grid!Labels(w.memory, w.b) = end.b
      /\ \A c \in DOMAIN gone.memory : gone.memory[c].deleted = IF c \in end.lost THEN 0 ELSE 1
      /\ w.a.s_offset = 3

(* Both ways to a square grid, the matrix constructor and DenseGrid's      *)
(* conversion, mark the same cells of a matrix that needs no cut.          *)
TwoGridsAgree(i) ==
  Grid!ConvertToSquareGrid(i.m, i.side, 0).occupied = Grid!OccupiedCells(i.m, i.side)

(* A tile of a grid whose origin was moved is where its coordinates say,   *)
(* and is the only one that changes when it is set; what is added to a     *)
(* grid can be subtracted again.                                           *)
TilesAreMatrix(i) ==
  LET grid == Grid!SetupGridWithMatrix(Grid!RectGrid(2, 5), i.m)
      moved == Grid!SetOriginCoordinate(grid, 1, 2)
  IN  /\ Grid!SubtractGrid(Grid!AddGrid(grid, moved), moved) = grid
      /\ \A t \in Grid!Tiles(4, 4) :
           LET at == Grid!ConvertToGridCoordinate(moved, t[1], t[2])
               set == Grid!SetTileAtGridCoordinate(moved, at[1], at[2], 7)
           IN  /\ Grid!GetTileAtGridCoordinate(moved, at[1], at[2]) = i.m[t[2] + 1][t[1] + 1]
               /\ \A u \in Grid!Tiles(4, 4) : set.tile[u] = IF u = t THEN 7 ELSE grid.tile[u]

(* A cell of a square grid has the place its id says; it is a neighbour of *)
(* those it is a neighbour to, which are the cells it has vertices in      *)
(* common with: two, or one with a diagonal neighbour.                     *)
Corners(x, y) == ToSet(Grid!SquareCell(3, 2, x, y).vertices)

NeighboursMeet(w, h) ==
  \A c, d \in Grid!Tiles(w, h) :
    LET common == Cardinality(Corners(c[1], c[2]) \cap Corners(d[1], d[2]))
    IN  /\ Grid!IDToIndex(w, Grid!SquareCell(w, 2, c[1], c[2]).id) = c
        /\ d \in Grid!GetNeighbours(w, h, c[1], c[2], FALSE) <=> common = 2
        /\ d \in Grid!GetNeighbours(w, h, c[1], c[2], TRUE) <=> common \in {1, 2}

(* A line and its continuation are one line of all their points, they meet *)
(* where one ends and the other begins, and every point is in the box; a   *)
(* polygon that is turned and moved comes back when it is moved and turned *)
(* by the opposites.                                                       *)
LinesJoin(i) ==
  LET first == Lines!Polyline(i.first)
      second == Lines!Polyline(<<Last(i.first)>> \o i.second)
      whole == Lines!SeriesConcatenate(first, second)
      moved == Lines!TransformRT(i.first, i.pose)
  IN  /\ whole = Lines!Plus(first, Lines!Polyline(i.second))
      /\ \A p \in ToSet(whole.points) :
           p[1] \in whole.xmin..whole.xmax /\ p[2] \in whole.ymin..whole.ymax
      /\ Lines!SetPoints(first, i.first) = first
      /\ Len(i.first) > 1 /\ i.second # <<>> => Lines!Intersect(first, second) /\ Lines!Intersect(second, first)
      /\ Lines!TransformTR(moved, <<-i.pose[1], -i.pose[2], -i.pose[3]>>) = i.first

PlacesAgree(i) ==
  CASE i.kind = "line" -> LinesJoin(i)
    [] i.kind = "point" -> PointInCell(i)
    [] i.kind = "matrix" -> TwoGridsAgree(i) /\ TilesAreMatrix(i) /\ NeighboursMeet(i.side + 1, 3)
    [] i.kind = "copies" -> CopiesOwnCells(i)
    [] OTHER -> TRUE
-----------------------------------------------------------------------------
(* The k-d tree answers what a look at every position would: one of the    *)
(* nearest, all that are closer than the range and none that is farther,   *)
(* each once, also when it is asked again or the tree was emptied and      *)
(* filled again.  The variants for floats do too where they work.          *)
Filled(tree, positions) ==
  FoldLeft(LAMBDA t, n : Kd!kd_insert(t, positions[n], n), tree, [n \in DOMAIN positions |-> n])
Tree(positions) == Filled(Kd!kd_create(2), positions)

NearestFound(i) ==
  LET tree == Tree(i.positions)
      dist(q, n) == Kd!DistSq(q, i.positions[n])
      all == DOMAIN i.positions
  IN  /\ Filled(Kd!kd_clear(tree), i.positions) = tree
      /\ \A q \in {<<0, 1>>, <<2, 1>>, <<2, 2>>, <<3, 0>>, <<4, 4>>} :
           LET near == Kd!Iterated(Kd!kd_nearest(tree, q))
               inRange == Kd!Iterated(Kd!kd_nearest_range(tree, q, i.range))
           IN  /\ Len(near) = 1 /\ \A n \in all : dist(q, near[1]) <= dist(q, n)
               /\ {n \in all : dist(q, n) < i.range * i.range} \subseteq ToSet(inRange)
               /\ \A n \in ToSet(inRange) : dist(q, n) <= i.range * i.range
               /\ Cardinality(ToSet(inRange)) = Len(inRange)
               /\ Kd!kd_res_size(Kd!kd_nearest_range(tree, q, i.range)) = Len(inRange)
               /\ Kd!Iterated(Kd!kd_res_rewind(Kd!kd_res_next(Kd!kd_nearest_range(tree, q, i.range)))) = inRange

FloatsFound(i) ==
  LET wide == FoldLeft(LAMBDA t, n : Kd!kd_insertf(t, Spread(i.positions[n]), n),
                       Kd!kd_create(17), [n \in DOMAIN i.positions |-> n])
  IN  Len(i.positions) = 2 =>
        /\ wide.defined
        /\ \A n \in 1..2 :
             LET near == Kd!kd_nearestf(wide, Spread(i.positions[n]))
                 same == Kd!Iterated(Kd!kd_nearest_rangef(wide, Spread(i.positions[n]), 1))
             IN  /\ i.positions[Kd!kd_res_item_data(near)] = i.positions[n]
                 /\ {m \in 1..2 : i.positions[m] = i.positions[n]} \subseteq ToSet(same)
                 /\ Kd!kd_res_item3(near, <<9, 9, 9>>) = <<i.positions[n][1], 0, 0>>

(* Whatever is sampled: costs are the lengths of paths that run through    *)
(* free space, each vertex is a child of its parent alone, and the best    *)
(* vertex is a cheapest of those in the goal.  The planner may be          *)
(* initialised again after a search.                                       *)
Searched(i) ==
  LET start == Rrts!initialize(Rrts!setSystem(Rrts!NoPlanner, i.system, <<0, 2>>))
      once == FoldLeft(Rrts!iteration, start, i.samples)
  IN  IF i.again THEN FoldLeft(Rrts!iteration, Rrts!initialize(once), Reverse(i.samples)) ELSE once

TreeIsSound(i, p, v) ==
  LET all == DOMAIN v \ {1}
      inGoal == {n \in all : Rrts!isReachingTarget(i.system, v[n].state)}
      path == Rrts!getBestTrajectory(p)
  IN  /\ p.defined /\ v[1].costFromRoot = 0 /\ v[1].parent = 0
      /\ \A n \in all :
           /\ v[n].costFromRoot =
                v[v[n].parent].costFromRoot + Rrts!Length(v[v[n].parent].state, v[n].state)
           /\ Rrts!extendTo(i.system, v[v[n].parent].state, v[n].state)
           /\ v[n].children = {m \in all : v[m].parent = n}
      /\ p.lowerBoundVertex = 0 <=> inGoal = {}
      /\ inGoal # {} =>
           /\ p.lowerBoundVertex \in inGoal
           /\ \A n \in inGoal : p.lowerBoundCost <= v[n].costFromRoot
           /\ Head(path) = <<0, 2>> /\ Last(path) = v[p.lowerBoundVertex].state

TreesHold(i) ==
  CASE i.kind = "kd" -> NearestFound(i) /\ FloatsFound(i)
    [] i.kind = "rrts" -> LET p == Searched(i) IN TreeIsSound(i, p, p.vertices)
    [] OTHER -> TRUE
=============================================================================
