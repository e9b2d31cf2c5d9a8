---------------------------- MODULE RrtStandalone ----------------------------
(***************************************************************************)
(* rrts.hpp and system_single_integrator.cpp: the standalone RRT* over a   *)
(* system that moves in straight lines, with its k-d tree.  Coordinates    *)
(* are integers, lengths tenths rounded down; std::sort keeps equals in    *)
(* the order of the list, one of the orders it may produce.                *)
(***************************************************************************)
EXTENDS Integers, Sequences, SequencesExt, FiniteSets

Kd == INSTANCE KdTree

-----------------------------------------------------------------------------
(* A system: the region it operates in, its goal and its obstacles, each a *)
(* box with a centre and a size, and the radius of the search for n        *)
(* vertices, in the units of the keys.                                     *)
region(centre, size) == [center |-> centre, size |-> size]

Beside(box, p, scale) ==
  \E i \in DOMAIN p :
    \/ 2 * (p[i] - scale * box.center[i]) > scale * box.size[i]
    \/ 2 * (scale * box.center[i] - p[i]) > scale * box.size[i]

isReachingTarget(system, x) == ~Beside(system.regionGoal, x, 1)
IsInCollision(system, p, scale) == \E o \in system.obstacles : ~Beside(o, p, scale)

(* A key divides each coordinate by the size of the operating region; its  *)
(* unit here is one over the product of the sizes.                         *)
getStateKey(system, x) ==
  LET all == FoldLeft(LAMBDA a, b : a * b, 1, system.regionOperating.size)
  IN  [i \in DOMAIN x |-> x[i] * (all \div system.regionOperating.size[i])]

Root(square) == CHOOSE r \in 0..square : r * r <= square /\ square < (r + 1) * (r + 1)
Length(a, b) == Root(100 * Kd!DistSq(a, b))

(* Straight from one state to another in STEPS steps, which stand for the  *)
(* steps of 0.01: every place before the end is tested, then the end.      *)
STEPS == 8
extendTo(system, from, towards) ==
  /\ from = towards \/ \A k \in 0..(STEPS - 1) :
       ~IsInCollision(system, [i \in DOMAIN from |-> STEPS * from[i] + k * (towards[i] - from[i])], STEPS)
  /\ ~IsInCollision(system, towards, 1)

(* The cost to go multiplies the distance along each axis by one that has  *)
(* the first coordinate in it; below zero the root is no number, and the   *)
(* planner's test of it is false.                                          *)
evaluateCostToGo(system, x) ==
  LET c == system.regionGoal.center
      dist == Kd!Sum([i \in DOMAIN x |-> (x[i] - c[i]) * (x[1] - c[i])])
      radius == Root(100 * Kd!Sum([i \in DOMAIN x |-> system.regionGoal.size[i] * system.regionGoal.size[i]]))
  IN  IF dist < 0 THEN -1 ELSE Root(100 * dist) - radius

-----------------------------------------------------------------------------
(* A planner: its vertices in the order of their creation, the root first, *)
(* the k-d tree of their keys, and the vertex that is the best so far; a   *)
(* root that is not among the vertices yet, and whether vertices in the    *)
(* list are deleted.                                                       *)
Vertex(x) == [state |-> x, parent |-> 0, children |-> {}, costFromParent |-> 0, costFromRoot |-> 0]

NoPlanner ==
  [system |-> <<>>, vertices |-> <<>>, kdtree |-> Kd!kd_create(2), lowerBoundVertex |-> 0,
   lowerBoundCost |-> 0, root |-> <<>>, freed |-> FALSE, defined |-> TRUE]

(* setSystem deletes the vertices but leaves them in the list.             *)
setSystem(p, system, rootState) ==
  [NoPlanner EXCEPT !.system = system, !.root = <<Vertex(rootState)>>,
                    !.vertices = p.vertices, !.freed = p.vertices # <<>>,
                    !.defined = p.defined /\ ~p.freed]

insertIntoKdtree(p, n) ==
  [p EXCEPT !.kdtree = Kd!kd_insert(p.kdtree, getStateKey(p.system, p.vertices[n].state), n)]

(* The root is copied, with pointers to children that are deleted next,    *)
(* and becomes the only vertex.                                            *)
initialize(p) ==
  LET root == IF p.root # <<>> THEN p.root ELSE <<p.vertices[1]>>
  IN  IF p.system = <<>> THEN p
      ELSE insertIntoKdtree([NoPlanner EXCEPT !.system = p.system, !.vertices = root,
                                              !.defined = p.defined /\ ~p.freed], 1)

getNearestVertex(p, x) == Kd!kd_res_item_data(Kd!kd_nearest(p.kdtree, getStateKey(p.system, x)))

getNearVertices(p, x) ==
  Kd!Iterated(Kd!kd_nearest_range(p.kdtree, getStateKey(p.system, x), p.system.radius[Len(p.vertices)]))

checkUpdateBestVertex(p, n) ==
  IF /\ isReachingTarget(p.system, p.vertices[n].state)
     /\ p.lowerBoundVertex = 0 \/ p.vertices[n].costFromRoot < p.lowerBoundCost
  THEN [p EXCEPT !.lowerBoundVertex = n, !.lowerBoundCost = p.vertices[n].costFromRoot]
  ELSE p

(* Vertex n below vertex start, wherever it was.                           *)
Below(p, start, n) ==
  LET cost == Length(p.vertices[start].state, p.vertices[n].state)
      old == p.vertices[n].parent
      costs == [p EXCEPT !.vertices[n].costFromParent = cost,
                         !.vertices[n].costFromRoot = p.vertices[start].costFromRoot + cost]
      checked == checkUpdateBestVertex(costs, n)
      orphan == IF old = 0 THEN checked ELSE [checked EXCEPT !.vertices[old].children = @ \ {n}]
  IN  [orphan EXCEPT !.vertices[n].parent = start, !.vertices[start].children = @ \cup {n}]

(* A state that cannot lead to a better solution is not added.             *)
Refused(p, start, x) ==
  LET costToGo == evaluateCostToGo(p.system, x)
  IN  /\ p.lowerBoundVertex # 0 /\ costToGo >= 0
      /\ p.lowerBoundCost < p.vertices[start].costFromRoot + costToGo

insertTrajectory(p, start, x) ==
  LET n == Len(p.vertices) + 1
      added == insertIntoKdtree([p EXCEPT !.vertices = Append(@, Vertex(x))], n)
  IN  IF Refused(p, start, x) THEN p ELSE Below(added, start, n)

(* Of the near vertices from which the state can be reached, the one with  *)
(* the least cost through it.                                              *)
findBestParent(p, x, near) ==
  LET through(n) == p.vertices[n].costFromRoot + Length(p.vertices[n].state, x)
      sorted == SortSeq(near, LAMBDA m, n : through(m) < through(n))
      possible == SelectSeq(sorted, LAMBDA n : extendTo(p.system, p.vertices[n].state, x))
  IN  IF possible = <<>> THEN 0 ELSE Head(possible)

RECURSIVE updateBranchCost(_, _)
updateBranchCost(p, n) ==
  LET one(q, child) ==
        LET costs == [q EXCEPT !.vertices[child].costFromRoot =
                                 q.vertices[n].costFromRoot + q.vertices[child].costFromParent]
        IN  updateBranchCost(checkUpdateBestVertex(costs, child), child)
  IN  FoldLeft(one, p, SetToSeq(p.vertices[n].children))

Rewired(p, new, n) ==
  LET from == p.vertices[new].state
      to == p.vertices[n].state
  IN  IF /\ p.vertices[new].costFromRoot + Length(from, to) < p.vertices[n].costFromRoot
         /\ extendTo(p.system, from, to)
      THEN updateBranchCost(Below(p, new, n), n) ELSE p

rewireVertices(p, new, near) == FoldLeft(LAMBDA q, n : Rewired(q, new, n), p, near)

(* One iteration with the state that was sampled: its parent is the best   *)
(* of the near vertices or, if there are none, the nearest one.            *)
ParentOf(p, x, near, nearest) ==
  CASE near # <<>> -> findBestParent(p, x, near)
    [] near = <<>> /\ extendTo(p.system, p.vertices[nearest].state, x) -> nearest
    [] OTHER -> 0

RewiredIfNew(p, inserted, near) ==
  IF inserted = p THEN p ELSE rewireVertices(inserted, Len(inserted.vertices), near)

AddedBelow(p, parent, x, near) ==
  IF parent = 0 THEN p ELSE RewiredIfNew(p, insertTrajectory(p, parent, x), near)

AddedNear(p, x, near) == AddedBelow(p, ParentOf(p, x, near, getNearestVertex(p, x)), x, near)

iteration(p, x) == AddedNear(p, x, getNearVertices(p, x))

(* The states from the root to a vertex; all but the root's come twice,    *)
(* once as a vertex and once as the end of the trajectory to it.           *)
RECURSIVE PathTo(_, _)
PathTo(p, n) ==
  LET v == p.vertices[n]
  IN  IF v.parent = 0 THEN <<v.state>> ELSE PathTo(p, v.parent) \o <<v.state, v.state>>

getBestTrajectory(p) == IF p.lowerBoundVertex = 0 THEN <<>> ELSE PathTo(p, p.lowerBoundVertex)
=============================================================================
