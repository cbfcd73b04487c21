----------------------------- MODULE Collisions -----------------------------
(***************************************************************************)
(* The rectangles that collide (src/common/collisions.c), in integers: a   *)
(* rotation is a vector <<c, s>> of the length One, a cosine and a sine of *)
(* One-ths, and centres and corners are in One-ths of the unit of the half *)
(* sizes.  What two projections are compared for does not depend on the    *)
(* length of the axis, which is not normalized here.                       *)
(*                                                                         *)
(* Touch is what the check is meant to find out.                           *)
(***************************************************************************)
EXTENDS Integers

Minus(p, q) == <<p[1] - q[1], p[2] - q[2]>>
Dot(p, q)   == p[1] * q[1] + p[2] * q[2]
Cross(p, q) == p[1] * q[2] - p[2] * q[1]

RotatedRect(center, half_size, angle) ==
    [center |-> center, half_size |-> half_size, angle |-> angle]

Corner(rect, b) ==
    LET c == rect.angle[1]
        s == rect.angle[2]
    IN <<rect.center[1] + b[1] * c - b[2] * s, rect.center[2] + b[1] * s + b[2] * c>>

\* Counterclockwise, where y is upwards.
get_rotated_rect_corners(rect) ==
    LET h == rect.half_size
    IN << Corner(rect, <<-h[1], -h[2]>>), Corner(rect, <<h[1], -h[2]>>),
          Corner(rect, h), Corner(rect, <<-h[1], h[2]>>) >>

Edge(corners, k) == Minus(corners[(k % 4) + 1], corners[k])

\* Mutation: one axis is looked at.
FirstAxis(corners) ==
    {LET edge_vec == Edge(corners, k) IN <<-edge_vec[2], edge_vec[1]>> : k \in {1}}

Axes(corners) ==
    {LET edge_vec == Edge(corners, k) IN <<-edge_vec[2], edge_vec[1]>> : k \in 1 .. 4}

Projected(corners, axis) == {Dot(corners[k], axis) : k \in 1 .. 4}

\* min_a is above max_b, or min_b above max_a.
Apart(ps, qs) ==
    \/ \A p \in ps, q \in qs : p > q
    \/ \A p \in ps, q \in qs : p < q

\* Of two rectangles' corners: the axes are those of the first.
sat_obb_collision_check(corners_a, corners_b) ==
    \A axis \in Axes(corners_a) :
        ~Apart(Projected(corners_a, axis), Projected(corners_b, axis))

-----------------------------------------------------------------------------
(* Two rectangles touch if a corner of one is in the other, or two of their*)
(* edges cross.                                                            *)

\* On which side of the k-th edge a point is.
Side(point, corners, k) == Cross(Edge(corners, k), Minus(point, corners[k]))

In(point, corners) == \A k \in 1 .. 4 : Side(point, corners, k) >= 0

Divides(a, k, b, n) == Side(b[n], a, k) * Side(b[(n % 4) + 1], a, k) < 0

Touch(a, b) ==
    \/ \E k \in 1 .. 4 : In(a[k], b) \/ In(b[k], a)
    \/ \E k, n \in 1 .. 4 : Divides(a, k, b, n) /\ Divides(b, n, a, k)
=============================================================================
