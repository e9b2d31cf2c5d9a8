------------------------------- MODULE Geometry -------------------------------
(***************************************************************************)
(* Points, lines and polygons of src/planning/geometry, with integers for  *)
(* coordinates and quarters of a turn for angles.                          *)
(***************************************************************************)
EXTENDS Integers, Sequences, SequencesExt

(* A point p on the box of a segment, and on which side of it, as it is    *)
(* computed: the last factor should be of the other vector.                *)
OnSegment(p_i, p_j, p_k) ==
  \A d \in {1, 2} : (p_i[d] <= p_k[d] /\ p_k[d] <= p_j[d]) \/ (p_j[d] <= p_k[d] /\ p_k[d] <= p_i[d])

CalculateDirection(p_i, p_j, p_k) ==
  LET pt1 == <<p_k[1] - p_i[1], p_k[2] - p_i[2]>>
  IN  pt1[1] * (p_j[2] - p_i[2]) - pt1[2] * pt1[1]

(* One segment's ends on two sides of the other's line are enough.         *)
SegmentsIntersect(p1, p2, p3, p4) ==
  LET d1 == CalculateDirection(p3, p4, p1)
      d2 == CalculateDirection(p3, p4, p2)
      d3 == CalculateDirection(p1, p2, p3)
      d4 == CalculateDirection(p1, p2, p4)
      apart(a, b) == (a > 0 /\ b < 0) \/ (a < 0 /\ b > 0)
  IN  \/ apart(d1, d2) \/ apart(d3, d4)
      \/ (d1 = 0 /\ OnSegment(p3, p4, p1)) \/ (d2 = 0 /\ OnSegment(p3, p4, p2))
      \/ (d3 = 0 /\ OnSegment(p1, p2, p3)) \/ (d4 = 0 /\ OnSegment(p1, p2, p4))

-----------------------------------------------------------------------------
(* A line has its points and the box around them, whose upper corner       *)
(* begins at the least positive number, here 0, and whose lower one beyond *)
(* every point.                                                            *)
FAR == 1000000
NoLine == [points |-> <<>>, xmin |-> FAR, xmax |-> 0, ymin |-> FAR, ymax |-> 0]

AddPoint(line, pt) ==
  [points |-> Append(line.points, pt),
   xmin |-> IF pt[1] < line.xmin THEN pt[1] ELSE line.xmin,
   xmax |-> IF pt[1] > line.xmax THEN pt[1] ELSE line.xmax,
   ymin |-> IF pt[2] < line.ymin THEN pt[2] ELSE line.ymin,
   ymax |-> IF pt[2] > line.ymax THEN pt[2] ELSE line.ymax]

Polyline(pts) == FoldLeft(AddPoint, NoLine, pts)

(* Other points in the box of those before.                                *)
SetPoints(line, pts) == [line EXCEPT !.points = pts]

SeriesConcatenate(line, other) ==
  Polyline(IF line.points = <<>> THEN other.points ELSE line.points \o Tail(other.points))

Plus(line, other) == Polyline(line.points \o other.points)

Intersect(line, other) ==
  \E i \in 1..Len(line.points) - 1, j \in 1..Len(other.points) - 1 :
    SegmentsIntersect(line.points[i], line.points[i + 1], other.points[j], other.points[j + 1])

-----------------------------------------------------------------------------
(* Polygons, of which nothing is found inside.                             *)
CheckInside(polygon, pt) == FALSE
Contain(polygon, other) == \A pt \in ToSet(other.points) : CheckInside(polygon, pt)

Turned(p, quarters) ==
  CASE quarters % 4 = 0 -> p
    [] quarters % 4 = 1 -> <<-p[2], p[1]>>
    [] quarters % 4 = 2 -> <<-p[1], -p[2]>>
    [] OTHER -> <<p[2], -p[1]>>

TransformRT(points, pose) ==
  [n \in DOMAIN points |-> LET q == Turned(points[n], pose[3]) IN <<q[1] + pose[1], q[2] + pose[2]>>]
TransformTR(points, pose) ==
  [n \in DOMAIN points |-> Turned(<<points[n][1] + pose[1], points[n][2] + pose[2]>>, pose[3])]
=============================================================================
