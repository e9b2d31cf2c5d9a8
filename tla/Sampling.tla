------------------------------ MODULE Sampling -------------------------------
(***************************************************************************)
(* The planners of src/planning/sampling: RRT, RRT* and RRG grow a tree,   *)
(* or a graph, from a start state by steps towards random states until     *)
(* their iterations are used up.  Distances are whole numbers and what is  *)
(* free of obstacles is a constant.  A node is the number of its state,    *)
(* whose id_ is new for every sample; Goal's is 0 and the start's is 1.    *)
(***************************************************************************)
EXTENDS Integers, Sequences, SequencesExt, TLC

CONSTANTS Planners,    \* the searches in question, of the three
          Points,      \* the space
          Start, Goal, \* where the search begins and should end
          Distance,    \* EvaluateDistance
          FreeStates,  \* CheckStateValidity
          FreePaths,   \* CheckPathValidity, a set of pairs
          Step,        \* extend_step_size_ and max_dist_ of the steering
          Radius,      \* of the ball in which RRT* and RRG look for neighbours
          MaxNodes     \* bound: states in the tree

ASSUME SamplingAssumption ==
  /\ Planners \subseteq {"RRT", "RRTStar", "RRG"}
  /\ {Start, Goal} \subseteq Points
  /\ FreeStates \subseteq Points /\ FreePaths \subseteq Points \X Points
  /\ Distance \in [Points \X Points -> Nat]
  /\ Step \in Nat \ {0} /\ Radius \in Nat /\ MaxNodes \in Nat \ {0}

VARIABLES
  planner,    \* which search this is
  pos,        \* where the nodes are, by number
  parent,     \* RRT, RRT*: the parent of each node in the tree but the root
  g_cost,     \* RRT*: the cost the tree keeps for each node
  edges,      \* RRG: the undirected edges
  candidates, \* state_to_goal_candidates
  path,       \* what the search returned
  done

vars == <<planner, pos, parent, g_cost, edges, candidates, path, done>>

GoalNode == 0
Root == 1

Nodes == 1..Len(pos)

Pos(n) == IF n = GoalNode THEN Goal ELSE pos[n]

Dist(m, n) == Distance[Pos(m), Pos(n)]

Free(m, n) == <<Pos(m), Pos(n)>> \in FreePaths

CheckGoal(at) == Distance[at, Goal] <= Step

Init ==
  /\ planner \in Planners
  /\ pos = <<Start>> /\ parent = <<>>
  /\ g_cost = (Root :> 0)
  /\ edges = {} /\ candidates = {}
  /\ path = <<>> /\ done = FALSE

-----------------------------------------------------------------------------
(* The trees.                                                              *)
Edge(child, up) == child :> up

(* GetStateCost: operator[] makes an entry of 0 for a node it has not.     *)
Cost(g, n) == IF n \in DOMAIN g THEN g[n] ELSE 0

ConnectCost(g, up, n, dist) == n :> Cost(g, up) + dist @@ g

(* TraceBackToRoot: the nodes from the root to n.                          *)
Trace(tree, n) ==
  LET walk[k \in 0..MaxNodes + 1] ==
        IF k = 0 THEN <<n>>
        ELSE LET way == walk[k - 1]
             IN  IF way[1] \in DOMAIN tree THEN <<tree[way[1]]>> \o way ELSE way
  IN  walk[MaxNodes + 1]

(* The length of a way through the nodes.                                  *)
PathLength(nodes) ==
  FoldSeq(+, 0, [i \in 1..Len(nodes) - 1 |-> Dist(nodes[i], nodes[i + 1])])

Below(tree, n) == {m \in DOMAIN tree : n \in ToSet(Trace(tree, m)) /\ m # n}

(* A mutation: the costs below the node stay.                              *)
ReconnectAlone(t, up, n, dist) ==
  [parent |-> [t.parent EXCEPT ![n] = up],
   g |-> [t.g EXCEPT ![n] = Cost(t.g, up) + dist]]

(* ReconnectTreeNodes: a new parent, and every cost below n changes by as  *)
(* much as that of n does.                                                 *)
ReconnectTreeNodes(t, up, n, dist) ==
  LET tree == [t.parent EXCEPT ![n] = up]
      gain == t.g[n] - (Cost(t.g, up) + dist)
  IN  [parent |-> tree,
       g |-> [m \in DOMAIN t.g |->
                IF m = n \/ m \in Below(tree, n) THEN t.g[m] - gain
                ELSE t.g[m]]]

-----------------------------------------------------------------------------
(* FindNearest: any of the nodes at the least distance.  The graph's has   *)
(* the goal in it once the goal is connected.                              *)
InTree == Nodes \cup IF planner = "RRG" /\ candidates # {} THEN {GoalNode}
                     ELSE {}

Nearest(at) ==
  {n \in InTree : \A m \in InTree : Distance[Pos(n), at] <= Distance[Pos(m), at]}

(* RVStraightSteer: the sample itself, or a point one step on the way.     *)
Steer(from, to) ==
  IF Distance[from, to] < Step THEN {to}
  ELSE {p \in Points : /\ Distance[from, p] = Step
                       /\ Step + Distance[p, to] = Distance[from, to]}

(* FindNear: the nodes in the ball, near ones first and, for one of the    *)
(* orders a kd-tree may hold, older ones first.                            *)
FindNear(at) ==
  LET near == {n \in InTree : Distance[Pos(n), at] <= Radius}
      Before(m, n) == \/ Distance[Pos(m), at] < Distance[Pos(n), at]
                      \/ Distance[Pos(m), at] = Distance[Pos(n), at] /\ m < n
  IN  SetToSortSeq(near, Before)

(* What the iterations have in common: a valid sample, a nearest node, a   *)
(* step, and a free way.  An iteration that lacks one changes nothing.     *)
Extends(nearest, at) ==
  /\ ~done /\ Len(pos) < MaxNodes
  /\ \E rand \in FreeStates :
       nearest \in Nearest(rand) /\ at \in Steer(Pos(nearest), rand)
  /\ <<Pos(nearest), at>> \in FreePaths

New == Len(pos) + 1

-----------------------------------------------------------------------------
(* RRT: the first node near the goal ends the search.                      *)
RRT ==
  /\ planner = "RRT"
  /\ \E nearest \in Nodes, at \in Points :
       /\ Extends(nearest, at)
       /\ pos' = Append(pos, at)
       /\ LET tree == Edge(New, nearest) @@ parent
          IN  IF CheckGoal(at)
              THEN /\ parent' = Edge(GoalNode, New) @@ tree
                   /\ path' = Trace(parent', GoalNode)
                   /\ done' = TRUE
              ELSE parent' = tree /\ UNCHANGED <<path, done>>
  /\ UNCHANGED <<planner, g_cost, edges, candidates>>

(* FindBestParent compares with the cost of the new state, which is not in *)
(* the tree yet and has none: 0.  Nothing is below that.                   *)
FindBestParent(at, near, nearest) ==
  LET best == FoldLeft(
        LAMBDA b, n :
          LET cost == g_cost[n] + Distance[Pos(n), at]
          IN  IF <<Pos(n), at>> \in FreePaths /\ cost < b.cost
              THEN [node |-> n, cost |-> cost] ELSE b,
        [node |-> nearest, cost |-> Cost(g_cost, New)], near)
  IN  best.node

(* RewireBranches: neighbours the new node is a shortcut to get it as      *)
(* their parent.                                                           *)
RewireBranches(t, up, near) ==
  FoldLeft(
    LAMBDA u, n :
      LET dist == Distance[pos'[New], Pos(n)]
      IN  IF /\ n # up
             /\ <<pos'[New], Pos(n)>> \in FreePaths
             /\ u.g[n] > u.g[New] + dist
          THEN ReconnectTreeNodes(u, New, n, dist) ELSE u,
    t, near)

RRTStar ==
  /\ planner = "RRTStar"
  /\ \E nearest \in Nodes, at \in Points :
       /\ Extends(nearest, at)
       /\ pos' = Append(pos, at)
       /\ LET near == FindNear(at)
              up == FindBestParent(at, near, nearest)
              t == RewireBranches(
                     [parent |-> Edge(New, up) @@ parent,
                      g |-> ConnectCost(g_cost, up, New, Distance[Pos(up), at])],
                     up, near)
          IN  parent' = t.parent /\ g_cost' = t.g
       /\ candidates' = candidates \cup IF CheckGoal(at) THEN {New} ELSE {}
  /\ UNCHANGED <<planner, edges, path, done>>

(* The candidate with the shortest way over it.                            *)
BestCandidate(n) ==
  \A m \in candidates : g_cost[n] + Dist(n, GoalNode) <= g_cost[m] + Dist(m, GoalNode)

(* The iterations are over.                                                *)
FinishRRTStar ==
  /\ planner = "RRTStar" /\ ~done
  /\ done' = TRUE
  /\ IF candidates = {} THEN UNCHANGED <<parent, g_cost, path>>
     ELSE \E best \in candidates :
            /\ BestCandidate(best)
            /\ parent' = Edge(GoalNode, best) @@ parent
            /\ g_cost' = ConnectCost(g_cost, best, GoalNode, Dist(best, GoalNode))
            /\ path' = Trace(parent', GoalNode)
  /\ UNCHANGED <<planner, pos, edges, candidates>>

FinishRRT ==
  /\ planner = "RRT" /\ ~done
  /\ done' = TRUE
  /\ UNCHANGED <<planner, pos, parent, g_cost, edges, candidates, path>>

(* RRG connects the new node with every neighbour; what it checks each     *)
(* time is the way from the nearest node, which is known to be free.  The  *)
(* node is in the tree by then, so it finds itself.  The goal becomes a    *)
(* node of the graph.                                                      *)
Neighbours(near, nearest, at) ==
  {n \in ToSet(near) : n # nearest /\ <<Pos(nearest), at>> \in FreePaths}

RRG ==
  /\ planner = "RRG"
  /\ \E nearest \in InTree, at \in Points :
       /\ Extends(nearest, at)
       /\ pos' = Append(pos, at)
       /\ LET near == FindNear(at)
              up == {nearest, New} \cup Neighbours(near, nearest, at)
                      \cup IF CheckGoal(at) THEN {GoalNode} ELSE {}
          IN  edges' = edges \cup {{New, n} : n \in up}
       /\ candidates' = candidates \cup IF CheckGoal(at) THEN {New} ELSE {}
  /\ UNCHANGED <<planner, parent, g_cost, path, done>>

(* Ways through the graph from the root that pass no node twice.           *)
Ways ==
  LET of[k \in 1..Len(pos) + 1] ==
        IF k = 1 THEN {<<Root>>}
        ELSE {Append(p[1], p[2]) : p \in
                {q \in of[k - 1] \X InTree :
                   {Last(q[1]), q[2]} \in edges /\ q[2] \notin ToSet(q[1])}}
  IN  UNION {of[k] : k \in 1..Len(pos) + 1}

(* Dijkstra::Search of the graph library: a shortest way.                  *)
FinishRRG ==
  /\ planner = "RRG" /\ ~done
  /\ done' = TRUE
  /\ IF candidates = {} THEN UNCHANGED path
     ELSE LET ways == {p \in Ways : Last(p) = GoalNode}
              least == Min({PathLength(p) : p \in ways})
          IN  path' \in {p \in ways : PathLength(p) = least}
  /\ UNCHANGED <<planner, pos, parent, g_cost, edges, candidates>>

Next == RRT \/ RRTStar \/ RRG \/ FinishRRT \/ FinishRRTStar \/ FinishRRG

Spec == Init /\ [][Next]_vars

-----------------------------------------------------------------------------
(* Variables have their types.                                             *)
TypeOK ==
  /\ planner \in Planners /\ pos \in Seq(Points) /\ Len(pos) <= MaxNodes
  /\ \A n \in DOMAIN parent : n \in Nodes \cup {GoalNode} /\ parent[n] \in Nodes
  /\ \A n \in DOMAIN g_cost : n \in Nodes \cup {GoalNode} /\ g_cost[n] \in Nat
  /\ edges \subseteq SUBSET (Nodes \cup {GoalNode})
  /\ candidates \subseteq Nodes

(* RRT*: however often branches were rewired, every node is connected to   *)
(* the root and the cost the tree keeps for it is the length of that way.  *)
CostsAreLengths ==
  planner = "RRTStar" =>
    \A n \in Nodes : LET way == Trace(parent, n)
                     IN  way[1] = Root /\ g_cost[n] = PathLength(way)

(* RRT, RRT*: what Search returns leads from the start to the goal over    *)
(* ways that were checked.  The last one was not: it is within a step.     *)
PathIsFree ==
  planner # "RRG" /\ path # <<>> =>
    /\ path[1] = Root /\ Last(path) = GoalNode
    /\ \A i \in 1..Len(path) - 2 : Free(path[i], path[i + 1])
    /\ Dist(path[Len(path) - 1], GoalNode) <= Step

(* RRT*: no node from which the goal was seen offers a shorter way.        *)
PathIsBest ==
  planner = "RRTStar" /\ path # <<>> =>
    \A n \in candidates :
      PathLength(path) <= PathLength(Trace(parent, n)) + Dist(n, GoalNode)

(* rrt_star.hpp: "Find the best parent vertex for new_state from neare     *)
(* vertices": no neighbour offers the newest node a shorter way.           *)
BestParent ==
  planner = "RRTStar" /\ Len(pos) > 1 =>
    \A n \in Nodes :
      Dist(n, Len(pos)) <= Radius /\ Free(n, Len(pos)) =>
        g_cost[Len(pos)] <= g_cost[n] + Dist(n, Len(pos))

(* rrg.hpp: "Add the new collision-free trajectory to the tree": no way    *)
(* between two nodes of the graph leads through an obstacle.               *)
GraphIsFree ==
  \A m, n \in Nodes : {m, n} \in edges => Free(m, n)
=============================================================================
