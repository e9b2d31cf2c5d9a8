-------------------------------- MODULE KdTree --------------------------------
(***************************************************************************)
(* kdtree.c: the k-d tree of the standalone RRT*.  A tree is the sequence  *)
(* of its nodes in the order of their insertion, with 0 for a missing      *)
(* child, and the box around them.  Memory never runs out here.            *)
(***************************************************************************)
EXTENDS Integers, Sequences, SequencesExt

kd_create(k) == [dim |-> k, nodes |-> <<>>, rect |-> [min |-> <<>>, max |-> <<>>], defined |-> TRUE]
kd_clear(tree) == [kd_create(tree.dim) EXCEPT !.defined = tree.defined]

Node(pos, data, dir) == [pos |-> pos, data |-> data, dir |-> dir, left |-> 0, right |-> 0]

-----------------------------------------------------------------------------
(* The node that becomes the parent of a new position, below node n.       *)
RECURSIVE ParentBelow(_, _, _)
ParentBelow(nodes, n, pos) ==
  LET node == nodes[n]
      child == IF pos[node.dir] < node.pos[node.dir] THEN node.left ELSE node.right
  IN  IF child = 0 THEN n ELSE ParentBelow(nodes, child, pos)

insert_rec(nodes, pos, data, dim) ==
  LET p == ParentBelow(nodes, 1, pos)
      side == IF pos[nodes[p].dir] < nodes[p].pos[nodes[p].dir] THEN "left" ELSE "right"
  IN  IF nodes = <<>> THEN <<Node(pos, data, 1)>>
      ELSE Append([nodes EXCEPT ![p][side] = Len(nodes) + 1], Node(pos, data, (nodes[p].dir % dim) + 1))

hyperrect_create(min, max) == [min |-> min, max |-> max]
hyperrect_extend(rect, pos) ==
  [min |-> [d \in DOMAIN pos |-> IF pos[d] < rect.min[d] THEN pos[d] ELSE rect.min[d]],
   max |-> [d \in DOMAIN pos |-> IF pos[d] > rect.max[d] THEN pos[d] ELSE rect.max[d]]]

Square(x) == x * x
Sum(seq) == FoldLeft(+, 0, seq)

hyperrect_dist_sq(rect, pos) ==
  Sum([d \in DOMAIN pos |->
         IF pos[d] < rect.min[d] THEN Square(rect.min[d] - pos[d])
         ELSE IF pos[d] > rect.max[d] THEN Square(rect.max[d] - pos[d]) ELSE 0])

DistSq(a, b) == Sum([d \in DOMAIN a |-> Square(a[d] - b[d])])

kd_insert(tree, pos, data) ==
  [tree EXCEPT !.nodes = insert_rec(tree.nodes, pos, data, tree.dim),
               !.rect = IF tree.nodes = <<>> THEN hyperrect_create(pos, pos)
                        ELSE hyperrect_extend(tree.rect, pos)]

(* The variants that take floats convert them into a static buffer when    *)
(* there are at most 16, and then hand on the pointer to the other buffer, *)
(* which is null.                                                          *)
FloatsArrive(tree) == tree.dim > 16

kd_insertf(tree, pos, data) ==
  IF FloatsArrive(tree) THEN kd_insert(tree, pos, data) ELSE [tree EXCEPT !.defined = FALSE]

-----------------------------------------------------------------------------
(* The results, newest first: nothing asks for them in order of distance.  *)
rlist_insert(list, item) == <<item>> \o list

RECURSIVE find_nearest(_, _, _, _, _)
find_nearest(nodes, n, pos, range, list) ==
  IF n = 0 THEN list
  ELSE LET node == nodes[n]
           dx == pos[node.dir] - node.pos[node.dir]
           here == IF DistSq(node.pos, pos) <= Square(range) THEN rlist_insert(list, n) ELSE list
           near == find_nearest(nodes, IF dx <= 0 THEN node.left ELSE node.right, pos, range, here)
       IN  IF dx < range /\ -dx < range
           THEN find_nearest(nodes, IF dx <= 0 THEN node.right ELSE node.left, pos, range, near)
           ELSE near

(* The box of a node is cut at the node for its subtrees: the one on the   *)
(* side of the position is searched first, the other only if its box is    *)
(* closer than the best so far.                                            *)
RECURSIVE kd_nearest_i(_, _, _, _, _)
kd_nearest_i(nodes, n, pos, result, rect) ==
  LET node == nodes[n]
      left == pos[node.dir] <= node.pos[node.dir]
      cut(bound) == [rect EXCEPT ![bound][node.dir] = node.pos[node.dir]]
      toward(nearer) ==
        IF nearer = 0 THEN result
        ELSE kd_nearest_i(nodes, nearer, pos, result, cut(IF left THEN "max" ELSE "min"))
      here(below, dist) ==
        IF dist < below.dist_sq THEN [item |-> n, dist_sq |-> dist] ELSE below
      beyond(farther, best, box) ==
        IF farther # 0 /\ hyperrect_dist_sq(box, pos) < best.dist_sq
        THEN kd_nearest_i(nodes, farther, pos, best, box) ELSE best
  IN  beyond(IF left THEN node.right ELSE node.left,
             here(toward(IF left THEN node.left ELSE node.right), DistSq(node.pos, pos)),
             cut(IF left THEN "min" ELSE "max"))

-----------------------------------------------------------------------------
(* A result set: the nodes found and the place of the iterator, which is   *)
(* past the end when it points at nothing.                                 *)
Results(tree, list) == [tree |-> tree, rlist |-> list, riter |-> 1, size |-> Len(list)]
NoResult == [size |-> 0, rlist |-> <<>>]

kd_nearest(tree, pos) ==
  LET first == [item |-> 1, dist_sq |-> DistSq(tree.nodes[1].pos, pos)]
      found == kd_nearest_i(tree.nodes, 1, pos, first, tree.rect)
  IN  IF tree.nodes = <<>> THEN NoResult ELSE Results(tree, rlist_insert(<<>>, found.item))

kd_nearest_range(tree, pos, range) ==
  Results(tree, find_nearest(tree.nodes, IF tree.nodes = <<>> THEN 0 ELSE 1, pos, range, <<>>))

kd_nearestf(tree, pos) == IF FloatsArrive(tree) THEN kd_nearest(tree, pos) ELSE NoResult
kd_nearest_rangef(tree, pos, range) ==
  IF FloatsArrive(tree) THEN kd_nearest_range(tree, pos, range) ELSE NoResult

kd_res_size(set) == set.size
kd_res_rewind(set) == [set EXCEPT !.riter = 1]
kd_res_end(set) == set.riter > Len(set.rlist)
kd_res_next(set) == [set EXCEPT !.riter = set.riter + 1]
kd_res_item(set) == IF kd_res_end(set) THEN 0 ELSE set.tree.nodes[set.rlist[set.riter]].data
kd_res_item_data(set) == kd_res_item(set)

(* kd_res_item3 copies a coordinate only over one that is not zero, and    *)
(* always returns a null pointer.                                          *)
kd_res_item3(set, xyz) ==
  IF kd_res_end(set) THEN xyz
  ELSE [d \in 1..3 |-> IF xyz[d] # 0 THEN set.tree.nodes[set.rlist[set.riter]].pos[d] ELSE xyz[d]]

(* Everything that an iteration over a result set meets.                   *)
RECURSIVE Iterated(_)
Iterated(set) ==
  IF kd_res_end(set) THEN <<>> ELSE <<kd_res_item_data(set)>> \o Iterated(kd_res_next(set))
=============================================================================
