------------------------ MODULE BulletFlight_proofs ------------------------
(***************************************************************************)
(* Proofs about BulletFlight, for any number of players and bullets and a  *)
(* sea of any size: what a bullet's death depends on.                      *)
(***************************************************************************)
EXTENDS BulletFlight, TLAPS

Testing == bpc \in {"test", "return"}

\* A bullet is current while ships are tested, and has left those to be moved.
CurrentHeld ==
    /\ Testing => current \in DOMAIN bullets /\ current \notin todo
    /\ ~Testing => current = Null /\ collides = "unset"

\* A bullet that has hit is the current one, and about to be removed.
SpentIsGone ==
    /\ bpc = "return" => collides = "yes" /\ spent = {current}
    /\ bpc = "test" => collides # "yes"
    /\ bpc # "return" => spent = {}

\* As long as `collides` is unset, nobody has been asked but the shooter.
NobodyAsked ==
    bpc = "test" /\ collides = "unset" =>
        \A c \in Slots : c < i => c \notin Playing \/ c = bullets[current].shooter

\* The loops start at slot 0 and stay among the slots.
IndexInRange ==
    /\ bpc \in {"update", "walk"} => i = 0
    /\ bpc # "test" => i \in Slots

IInv == TypeOK /\ CurrentHeld /\ SpentIsGone /\ NobodyAsked /\ IndexInRange

-----------------------------------------------------------------------------
(* The records.                                                            *)

Poses     == [pos : (Int \X Int), rotation : Rotations \cup {<<One, 0>>}]
BulletSet == [pos : (Int \X Int), dir : (Int \X Int), shooter : Slots \cup {SERVER_SPAWNED_BULLET}]

LEMMA ScaledType ==
    ASSUME NEW p \in Int \X Int
    PROVE  Scaled(p) \in Int \X Int
BY FlightAssumption DEF Scaled

LEMMA PositionsType == Positions \subseteq Int \X Int /\ Dead \in Int \X Int
BY ScaledType, FlightAssumption DEF Positions, Dead

LEMMA DirectionType ==
    ASSUME NEW r \in Rotations, NEW action \in {-1, 1}
    PROVE  get_bullet_direction(r, action) \in Int \X Int
BY FlightAssumption DEF get_bullet_direction

LEMMA MovedType ==
    ASSUME NEW b \in BulletSet
    PROVE  update_bullet_position(b) \in BulletSet /\ update_bullet_position(b).shooter = b.shooter
<1>1. b.pos \in Int \X Int /\ b.dir \in Int \X Int
  BY DEF BulletSet
<1>2. <<b.pos[1] + b.dir[1] * BULLET_SPEED, b.pos[2] + b.dir[2] * BULLET_SPEED>> \in Int \X Int
  <2>1. b.pos[1] \in Int /\ b.pos[2] \in Int /\ b.dir[1] \in Int /\ b.dir[2] \in Int /\ BULLET_SPEED \in Int
    BY <1>1, FlightAssumption
  <2>. QED BY <2>1
<1>. QED BY <1>2 DEF update_bullet_position, BulletSet

\* A bullet is added to the list, and the others stay.
LEMMA AddedType ==
    ASSUME TypeOK, NEW n \in Nodes, NEW pos \in Int \X Int, NEW dir \in Int \X Int,
           NEW s \in Slots \cup {SERVER_SPAWNED_BULLET}, add_bullet(n, pos, dir, s)
    PROVE  /\ DOMAIN bullets' = DOMAIN bullets \cup {n}
           /\ \A b \in DOMAIN bullets' : bullets'[b] \in BulletSet
           /\ \A b \in DOMAIN bullets : bullets'[b] = bullets[b]
BY DEF add_bullet, TypeOK, BulletSet

LEMMA RemovedType ==
    ASSUME TypeOK, NEW n, Removed(n)
    PROVE  /\ DOMAIN bullets' = DOMAIN bullets \ {n}
           /\ \A b \in DOMAIN bullets' : bullets'[b] = bullets[b] /\ bullets'[b] \in BulletSet
BY DEF Removed, TypeOK, BulletSet

LEMMA HalfType ==
    ASSUME NEW c \in Slots, NEW k \in {1, 2}, TypeOK,
           players' = [players EXCEPT ![c].pos[k] = Dead[k]]
    PROVE  players' \in [Slots -> Poses]
<1>1. players[c].pos \in Int \X Int /\ Dead \in Int \X Int
  BY PositionsType DEF TypeOK
<1>2. [players[c].pos EXCEPT ![k] = Dead[k]] \in Int \X Int
  <2>1. Dead[k] \in Int
    BY <1>1
  <2>2. PICK x \in Int, y \in Int : players[c].pos = <<x, y>>
    BY <1>1
  <2>3. CASE k = 1
    BY <2>1, <2>2, <2>3
  <2>4. CASE k = 2
    BY <2>1, <2>2, <2>4
  <2>. QED BY <2>3, <2>4
<1>. DEFINE q == [players[c].pos EXCEPT ![k] = Dead[k]]
<1>3. players' = [players EXCEPT ![c] = [players[c] EXCEPT !.pos = q]]
  BY DEF TypeOK
<1>4. q \in Int \X Int
  BY <1>2
<1>. HIDE DEF q
<1>5. players[c] \in Poses
  BY DEF TypeOK, Poses
<1>6. [players[c] EXCEPT !.pos = q] \in Poses
  BY <1>4, <1>5 DEF Poses
<1>. QED BY <1>3, <1>6 DEF TypeOK, Poses

-----------------------------------------------------------------------------
(* Rectangles (Collisions).                                                *)

Point   == Int \X Int
Corners == [1 .. 4 -> Point]

\* The corners' ranges of a coordinate meet.
Meet(a, b, d) ==
    /\ \E k, n \in 1 .. 4 : a[k][d] <= b[n][d]
    /\ \E k, n \in 1 .. 4 : a[k][d] >= b[n][d]

LEMMA RectCorners ==
    ASSUME NEW x \in Int, NEW y \in Int, NEW h \in Int, NEW w \in Int, NEW c \in Int, NEW s \in Int
    PROVE  get_rotated_rect_corners(RotatedRect(<<x, y>>, <<h, w>>, <<c, s>>)) =
               << <<x - h * c + w * s, y - h * s - w * c>>, <<x + h * c + w * s, y + h * s - w * c>>,
                  <<x + h * c - w * s, y + h * s + w * c>>, <<x - h * c - w * s, y - h * s + w * c>> >>
BY DEF get_rotated_rect_corners, RotatedRect, Corner

LEMMA CornersType ==
    ASSUME NEW x \in Int, NEW y \in Int, NEW h \in Int, NEW w \in Int, NEW c \in Int, NEW s \in Int
    PROVE  get_rotated_rect_corners(RotatedRect(<<x, y>>, <<h, w>>, <<c, s>>)) \in Corners
<1>. DEFINE b == get_rotated_rect_corners(RotatedRect(<<x, y>>, <<h, w>>, <<c, s>>))
<1>1. b = << <<x - h * c + w * s, y - h * s - w * c>>, <<x + h * c + w * s, y + h * s - w * c>>,
             <<x + h * c - w * s, y + h * s + w * c>>, <<x - h * c - w * s, y - h * s + w * c>> >>
  BY RectCorners
<1>. HIDE DEF b
<1>. DEFINE hc == h * c  hs == h * s  wc == w * c  ws == w * s
<1>2. /\ hc \in Int /\ hs \in Int /\ wc \in Int /\ ws \in Int
      /\ b = << <<x - hc + ws, y - hs - wc>>, <<x + hc + ws, y + hs - wc>>,
                <<x + hc - ws, y + hs + wc>>, <<x - hc - ws, y - hs + wc>> >>
  BY <1>1
<1>. HIDE DEF hc, hs, wc, ws
<1>3. b \in Corners
  BY <1>2 DEF Corners, Point
<1>. QED BY <1>3 DEF b

LEMMA Scale ==
    ASSUME NEW w \in Int, w > 0, NEW p \in Int, NEW q \in Int
    PROVE  (w * p < w * q <=> p < q) /\ (p * w < q * w <=> p < q)
OBVIOUS

\* An axis along a coordinate keeps the corners apart if their ranges do not meet.
LEMMA ApartAlong ==
    ASSUME NEW a \in Corners, NEW b \in Corners, NEW w \in Int, w # 0
    PROVE  /\ Apart(Projected(a, <<w, 0>>), Projected(b, <<w, 0>>)) <=> ~Meet(a, b, 1)
           /\ Apart(Projected(a, <<0, w>>), Projected(b, <<0, w>>)) <=> ~Meet(a, b, 2)
<1>1. ASSUME NEW k \in 1 .. 4
      PROVE  /\ a[k][1] \in Int /\ a[k][2] \in Int /\ b[k][1] \in Int /\ b[k][2] \in Int
             /\ Dot(a[k], <<w, 0>>) = a[k][1] * w /\ Dot(a[k], <<0, w>>) = a[k][2] * w
             /\ Dot(b[k], <<w, 0>>) = b[k][1] * w /\ Dot(b[k], <<0, w>>) = b[k][2] * w
  BY <1>1 DEF Corners, Point, Dot
<1>2. ASSUME NEW axis \in {<<w, 0>>, <<0, w>>}
      PROVE  Apart(Projected(a, axis), Projected(b, axis)) <=>
                 \/ \A k, n \in 1 .. 4 : Dot(a[k], axis) > Dot(b[n], axis)
                 \/ \A k, n \in 1 .. 4 : Dot(a[k], axis) < Dot(b[n], axis)
  BY DEF Apart, Projected
<1>3. ASSUME NEW p \in Int, NEW q \in Int
      PROVE  /\ w > 0 => (p * w < q * w <=> p < q)
             /\ w < 0 => (p * w < q * w <=> q < p)
  BY <1>3
<1>4. ASSUME NEW d \in {1, 2}, NEW axis \in {<<w, 0>>, <<0, w>>},
             \A k \in 1 .. 4 : Dot(a[k], axis) = a[k][d] * w /\ Dot(b[k], axis) = b[k][d] * w
      PROVE  Apart(Projected(a, axis), Projected(b, axis)) <=> ~Meet(a, b, d)
  <2>1. \A k \in 1 .. 4 : a[k][d] \in Int /\ b[k][d] \in Int
    BY <1>1
  <2>2. CASE w > 0
    <3>1. \A k, n \in 1 .. 4 : /\ Dot(a[k], axis) > Dot(b[n], axis) <=> a[k][d] > b[n][d]
                               /\ Dot(a[k], axis) < Dot(b[n], axis) <=> a[k][d] < b[n][d]
      BY <1>3, <1>4, <2>1, <2>2
    <3>. QED BY <1>2, <2>1, <3>1 DEF Meet
  <2>3. CASE w < 0
    <3>1. \A k, n \in 1 .. 4 : /\ Dot(a[k], axis) > Dot(b[n], axis) <=> a[k][d] < b[n][d]
                               /\ Dot(a[k], axis) < Dot(b[n], axis) <=> a[k][d] > b[n][d]
      BY <1>3, <1>4, <2>1, <2>3
    <3>. QED BY <1>2, <2>1, <3>1 DEF Meet
  <2>. QED BY <2>2, <2>3
<1>. QED BY <1>1, <1>4

\* Of a box along the axes and a rectangle, the check says whether both ranges meet.
LEMMA BoxCheck ==
    ASSUME NEW x \in Int, NEW y \in Int, NEW h \in Int, NEW w \in Int, NEW c \in Int,
           h > 0, w > 0, c > 0, NEW b \in Corners
    PROVE  LET a == get_rotated_rect_corners(RotatedRect(<<x, y>>, <<h, w>>, <<c, 0>>))
           IN  sat_obb_collision_check(a, b) <=> Meet(a, b, 1) /\ Meet(a, b, 2)
<1>. DEFINE a == get_rotated_rect_corners(RotatedRect(<<x, y>>, <<h, w>>, <<c, 0>>))
<1>1. a = << <<x - h * c, y - w * c>>, <<x + h * c, y - w * c>>,
             <<x + h * c, y + w * c>>, <<x - h * c, y + w * c>> >>
  BY RectCorners
<1>2. /\ a \in Corners
      /\ Edge(a, 1) = <<2 * (h * c), 0>> /\ Edge(a, 2) = <<0, 2 * (w * c)>>
      /\ Edge(a, 3) = <<-(2 * (h * c)), 0>> /\ Edge(a, 4) = <<0, -(2 * (w * c))>>
  <2>1. h * c \in Int /\ w * c \in Int
    OBVIOUS
  <2>2. a \in Corners
    BY <1>1, <2>1 DEF Corners, Point
  <2>3. Edge(a, 1) = <<2 * (h * c), 0>> /\ Edge(a, 2) = <<0, 2 * (w * c)>>
    BY <1>1, <2>1 DEF Edge, Minus
  <2>4. Edge(a, 3) = <<-(2 * (h * c)), 0>> /\ Edge(a, 4) = <<0, -(2 * (w * c))>>
    BY <1>1, <2>1 DEF Edge, Minus
  <2>. QED BY <2>2, <2>3, <2>4
<1>. HIDE DEF a
<1>3. Axes(a) = {<<0, 2 * (h * c)>>, <<-(2 * (w * c)), 0>>, <<0, -(2 * (h * c))>>, <<2 * (w * c), 0>>}
  BY <1>2 DEF Axes
<1>4. h * c > 0 /\ w * c > 0
  OBVIOUS
<1>5. \A v \in {2 * (h * c), -(2 * (h * c)), 2 * (w * c), -(2 * (w * c))} : v \in Int /\ v # 0
  BY <1>4
<1>6. /\ sat_obb_collision_check(a, b) <=> \A axis \in Axes(a) : ~Apart(Projected(a, axis), Projected(b, axis))
      /\ \A v \in {2 * (h * c), -(2 * (h * c)), 2 * (w * c), -(2 * (w * c))} :
            /\ Apart(Projected(a, <<v, 0>>), Projected(b, <<v, 0>>)) <=> ~Meet(a, b, 1)
            /\ Apart(Projected(a, <<0, v>>), Projected(b, <<0, v>>)) <=> ~Meet(a, b, 2)
  BY <1>2, <1>5, ApartAlong DEF sat_obb_collision_check
<1>7. sat_obb_collision_check(a, b) <=> Meet(a, b, 1) /\ Meet(a, b, 2)
  BY <1>3, <1>6
<1>. QED BY <1>7 DEF a

\* A point in a rectangle is within the range of its corners.
LEMMA InWithin ==
    ASSUME NEW x \in Int, NEW y \in Int, NEW h \in Int, NEW w \in Int, NEW c \in Int, NEW s \in Int,
           h > 0, w > 0, c * c + s * s > 0, NEW p \in Point,
           In(p, get_rotated_rect_corners(RotatedRect(<<x, y>>, <<h, w>>, <<c, s>>)))
    PROVE  LET b == get_rotated_rect_corners(RotatedRect(<<x, y>>, <<h, w>>, <<c, s>>))
           IN  \A d \in {1, 2} : \E k, n \in 1 .. 4 : b[k][d] <= p[d] /\ p[d] <= b[n][d]
<1>. DEFINE b == get_rotated_rect_corners(RotatedRect(<<x, y>>, <<h, w>>, <<c, s>>))
            D == c * c + s * s
            u == p[1] - x
            v == p[2] - y
            L == c * u + s * v
            M == c * v - s * u
<1>1. b = << <<x - h * c + w * s, y - h * s - w * c>>, <<x + h * c + w * s, y + h * s - w * c>>,
             <<x + h * c - w * s, y + h * s + w * c>>, <<x - h * c - w * s, y - h * s + w * c>> >>
  BY RectCorners
<1>2. p[1] \in Int /\ p[2] \in Int /\ D \in Int /\ u \in Int /\ v \in Int /\ L \in Int /\ M \in Int
  BY DEF Point
<1>. DEFINE hc == h * c  hs == h * s  wc == w * c  ws == w * s
<1>3. hc \in Int /\ hs \in Int /\ wc \in Int /\ ws \in Int
  OBVIOUS
<1>4. /\ Side(p, b, 1) = 2 * hc * (v + hs + wc) - 2 * hs * (u + hc - ws)
      /\ Side(p, b, 2) = -(2 * ws) * (v - hs + wc) - 2 * wc * (u - hc - ws)
      /\ Side(p, b, 3) = -(2 * hc) * (v - hs - wc) + 2 * hs * (u - hc + ws)
      /\ Side(p, b, 4) = 2 * ws * (v + hs - wc) + 2 * wc * (u + hc + ws)
  <2>. HIDE DEF hc, hs, wc, ws
  <2>1. b = << <<x - hc + ws, y - hs - wc>>, <<x + hc + ws, y + hs - wc>>,
               <<x + hc - ws, y + hs + wc>>, <<x - hc - ws, y - hs + wc>> >>
    BY <1>1 DEF hc, hs, wc, ws
  <2>. HIDE DEF b
  <2>2. /\ Edge(b, 1) = <<2 * hc, 2 * hs>> /\ Edge(b, 2) = <<-(2 * ws), 2 * wc>>
        /\ Edge(b, 3) = <<-(2 * hc), -(2 * hs)>> /\ Edge(b, 4) = <<2 * ws, -(2 * wc)>>
    BY <1>3, <2>1 DEF Edge, Minus
  <2>3. /\ Minus(p, b[1]) = <<u + hc - ws, v + hs + wc>>
        /\ Minus(p, b[2]) = <<u - hc - ws, v - hs + wc>>
    BY <1>2, <1>3, <2>1 DEF Minus
  <2>4. /\ Minus(p, b[3]) = <<u - hc + ws, v - hs - wc>>
        /\ Minus(p, b[4]) = <<u + hc + ws, v + hs - wc>>
    BY <1>2, <1>3, <2>1 DEF Minus
  <2>. QED BY <1>2, <1>3, <2>2, <2>3, <2>4 DEF Side, Cross
<1>5. /\ Side(p, b, 1) = 2 * h * (M + w * D) /\ Side(p, b, 2) = 2 * w * (h * D - L)
      /\ Side(p, b, 3) = 2 * h * (w * D - M) /\ Side(p, b, 4) = 2 * w * (L + h * D)
  <2>. HIDE DEF b
  <2>. HIDE DEF u, v
  <2>. QED BY <1>2, <1>4
<1>6. \A k \in 1 .. 4 : Side(p, b, k) >= 0
  BY DEF In
<1>. HIDE DEF b
<1>7. -(h * D) <= L /\ L <= h * D /\ -(w * D) <= M /\ M <= w * D
  <2>1. ASSUME NEW e \in Int, e > 0, NEW z \in Int, 2 * e * z >= 0 PROVE z >= 0
    BY <2>1
  <2>. HIDE DEF L, M, D
  <2>2. h * D \in Int /\ w * D \in Int
    BY <1>2
  <2>3. M + w * D >= 0 /\ h * D - L >= 0 /\ w * D - M >= 0 /\ L + h * D >= 0
    BY <1>2, <1>5, <1>6, <2>1, <2>2
  <2>. QED BY <1>2, <2>2, <2>3
<1>8. D * u = c * L - s * M /\ D * v = s * L + c * M
  <2>. HIDE DEF u, v
  <2>. QED BY <1>2
<1>9. \A e, z, m \in Int : -m <= z /\ z <= m =>
          \E f \in {e * m, -(e * m)} : -f <= e * z /\ e * z <= f
  <2>. SUFFICES ASSUME NEW e \in Int, NEW z \in Int, NEW m \in Int, -m <= z, z <= m
                PROVE  \E f \in {e * m, -(e * m)} : -f <= e * z /\ e * z <= f
    OBVIOUS
  <2>1. CASE e >= 0
    <3>1. -(e * m) <= e * z /\ e * z <= e * m
      BY <2>1
    <3>. QED BY <3>1
  <2>2. CASE e < 0
    <3>1. e * m <= e * z /\ e * z <= -(e * m)
      BY <2>2
    <3>. QED BY <3>1
  <2>. QED BY <2>1, <2>2
<1>. HIDE DEF D, u, v, L, M, hc, hs, wc, ws
<1>10. \A f, z \in Int : D * z <= D * f => z <= f
  BY <1>2 DEF D
<1>11. c * (h * D) = D * hc /\ s * (h * D) = D * hs /\ c * (w * D) = D * wc /\ s * (w * D) = D * ws
  BY <1>2 DEF hc, hs, wc, ws
<1>12. h * D \in Int /\ w * D \in Int
  BY <1>2
<1>13. \E f \in {hc, -hc}, g \in {ws, -ws} : -(f + g) <= u /\ u <= f + g
  <2>1. PICK f \in {hc, -hc} : -(D * f) <= c * L /\ c * L <= D * f
    <3>1. PICK f \in {c * (h * D), -(c * (h * D))} : -f <= c * L /\ c * L <= f
      BY <1>2, <1>7, <1>9, <1>12
    <3>2. \E e \in {hc, -hc} : f = D * e
      BY <1>2, <1>3, <1>11, <3>1
    <3>. QED BY <3>1, <3>2
  <2>2. PICK g \in {ws, -ws} : -(D * g) <= s * M /\ s * M <= D * g
    <3>1. PICK o \in {s * (w * D), -(s * (w * D))} : -o <= s * M /\ s * M <= o
      BY <1>2, <1>7, <1>9, <1>12
    <3>2. \E e \in {ws, -ws} : o = D * e
      BY <1>2, <1>3, <1>11, <3>1
    <3>. QED BY <3>1, <3>2
  <2>3. D * u <= D * (f + g) /\ D * (-(f + g)) <= D * u
    BY <1>2, <1>3, <1>8, <2>1, <2>2
  <2>4. f + g \in Int /\ -(f + g) \in Int
    BY <1>3
  <2>5. -(f + g) <= u /\ u <= f + g
    BY <1>2, <1>10, <2>3, <2>4
  <2>. QED BY <2>5
<1>14. \E f \in {hs, -hs}, g \in {wc, -wc} : -(f + g) <= v /\ v <= f + g
  <2>1. PICK f \in {hs, -hs} : -(D * f) <= s * L /\ s * L <= D * f
    <3>1. PICK f \in {s * (h * D), -(s * (h * D))} : -f <= s * L /\ s * L <= f
      BY <1>2, <1>7, <1>9, <1>12
    <3>2. \E e \in {hs, -hs} : f = D * e
      BY <1>2, <1>3, <1>11, <3>1
    <3>. QED BY <3>1, <3>2
  <2>2. PICK g \in {wc, -wc} : -(D * g) <= c * M /\ c * M <= D * g
    <3>1. PICK o \in {c * (w * D), -(c * (w * D))} : -o <= c * M /\ c * M <= o
      BY <1>2, <1>7, <1>9, <1>12
    <3>2. \E e \in {wc, -wc} : o = D * e
      BY <1>2, <1>3, <1>11, <3>1
    <3>. QED BY <3>1, <3>2
  <2>3. D * v <= D * (f + g) /\ D * (-(f + g)) <= D * v
    BY <1>2, <1>3, <1>8, <2>1, <2>2
  <2>4. f + g \in Int /\ -(f + g) \in Int
    BY <1>3
  <2>5. -(f + g) <= v /\ v <= f + g
    BY <1>2, <1>10, <2>3, <2>4
  <2>. QED BY <2>5
<1>15. b = << <<x - hc + ws, y - hs - wc>>, <<x + hc + ws, y + hs - wc>>,
              <<x + hc - ws, y + hs + wc>>, <<x - hc - ws, y - hs + wc>> >>
  BY <1>1 DEF hc, hs, wc, ws
<1>16. p[1] = x + u /\ p[2] = y + v
  BY <1>2 DEF u, v
<1>17. \E k, n \in 1 .. 4 : b[k][1] <= p[1] /\ p[1] <= b[n][1]
  BY <1>2, <1>3, <1>13, <1>15, <1>16
<1>18. \E k, n \in 1 .. 4 : b[k][2] <= p[2] /\ p[2] <= b[n][2]
  BY <1>2, <1>3, <1>14, <1>15, <1>16
<1>. QED BY <1>17, <1>18 DEF b

\* Two points on either side of a line through two others, and these on either
\* side of the line through the first: a number that says how far along they are
\* cannot separate them.
LEMMA Weighted ==
    ASSUME NEW f \in Int, NEW g \in Int, NEW h \in Int, NEW k \in Int, f * g < 0, h * k < 0,
           NEW p \in Int, NEW q \in Int, NEW r \in Int, NEW s \in Int,
           g - f = h - k, r * g - s * f = q * h - p * k
    PROVE  /\ p <= r \/ p <= s \/ q <= r \/ q <= s
           /\ p >= r \/ p >= s \/ q >= r \/ q >= s
<1>1. (f < 0 /\ g > 0) \/ (f > 0 /\ g < 0)
  OBVIOUS
<1>2. (h < 0 /\ k > 0) \/ (h > 0 /\ k < 0)
  OBVIOUS
\* Weights of one sign on both sides of a number m.
<1>3. ASSUME NEW x \in Int, NEW y \in Int, x > 0, y > 0, NEW v \in Int, NEW w \in Int, NEW m \in Int
      PROVE  /\ v < m /\ w < m => v * x + w * y < m * (x + y)
             /\ v > m /\ w > m => v * x + w * y > m * (x + y)
             /\ v <= m /\ w <= m => v * x + w * y <= m * (x + y)
             /\ v >= m /\ w >= m => v * x + w * y >= m * (x + y)
  <2>1. \A a, b \in Int : /\ a <= b => a * x <= b * x /\ a * y <= b * y
                          /\ a < b => a * x < b * x /\ a * y < b * y
    BY <1>3
  <2>. QED BY <1>3, <2>1
<1>4. CASE f < 0 /\ h > 0
  <2>1. g > 0 /\ -f > 0 /\ h > 0 /\ -k > 0 /\ g + (-f) = h + (-k)
    BY <1>1, <1>2, <1>4
  <2>2. r * g + s * (-f) = q * h + p * (-k)
    OBVIOUS
  <2>3. ASSUME NEW m \in Int, p <= m, q <= m, r > m, s > m PROVE FALSE
    <3>1. r * g + s * (-f) > m * (g + (-f))
      BY <1>3, <2>1, <2>3
    <3>2. q * h + p * (-k) <= m * (h + (-k))
      BY <1>3, <2>1, <2>3
    <3>. QED BY <2>1, <2>2, <3>1, <3>2
  <2>4. ASSUME NEW m \in Int, p >= m, q >= m, r < m, s < m PROVE FALSE
    <3>1. r * g + s * (-f) < m * (g + (-f))
      BY <1>3, <2>1, <2>4
    <3>2. q * h + p * (-k) >= m * (h + (-k))
      BY <1>3, <2>1, <2>4
    <3>. QED BY <2>1, <2>2, <3>1, <3>2
  <2>. QED BY <2>3, <2>4
<1>5. CASE f > 0 /\ h < 0
  <2>1. -g > 0 /\ f > 0 /\ -h > 0 /\ k > 0 /\ (-g) + f = (-h) + k
    BY <1>1, <1>2, <1>5
  <2>2. r * (-g) + s * f = q * (-h) + p * k
    OBVIOUS
  <2>3. ASSUME NEW m \in Int, p <= m, q <= m, r > m, s > m PROVE FALSE
    <3>1. r * (-g) + s * f > m * ((-g) + f)
      BY <1>3, <2>1, <2>3
    <3>2. q * (-h) + p * k <= m * ((-h) + k)
      BY <1>3, <2>1, <2>3
    <3>. QED BY <2>1, <2>2, <3>1, <3>2
  <2>4. ASSUME NEW m \in Int, p >= m, q >= m, r < m, s < m PROVE FALSE
    <3>1. r * (-g) + s * f < m * ((-g) + f)
      BY <1>3, <2>1, <2>4
    <3>2. q * (-h) + p * k >= m * ((-h) + k)
      BY <1>3, <2>1, <2>4
    <3>. QED BY <2>1, <2>2, <3>1, <3>2
  <2>. QED BY <2>3, <2>4
<1>6. ~(f < 0 /\ h < 0) /\ ~(f > 0 /\ h > 0)
  BY <1>1, <1>2
<1>. QED BY <1>1, <1>2, <1>4, <1>5, <1>6

\* The ranges of two edges that cross meet.
LEMMA CrossMeet ==
    ASSUME NEW a \in Corners, NEW b \in Corners, NEW k \in 1 .. 4, NEW n \in 1 .. 4,
           Divides(a, k, b, n), Divides(b, n, a, k)
    PROVE  Meet(a, b, 1) /\ Meet(a, b, 2)
<1>. DEFINE l == (k % 4) + 1
            m == (n % 4) + 1
            p1 == a[k][1]  p2 == a[k][2]  q1 == a[l][1]  q2 == a[l][2]
            r1 == b[n][1]  r2 == b[n][2]  s1 == b[m][1]  s2 == b[m][2]
            f == (q1 - p1) * (r2 - p2) - (q2 - p2) * (r1 - p1)
            g == (q1 - p1) * (s2 - p2) - (q2 - p2) * (s1 - p1)
            h == (s1 - r1) * (p2 - r2) - (s2 - r2) * (p1 - r1)
            j == (s1 - r1) * (q2 - r2) - (s2 - r2) * (q1 - r1)
<1>1. l \in 1 .. 4 /\ m \in 1 .. 4
  OBVIOUS
<1>2. /\ p1 \in Int /\ p2 \in Int /\ q1 \in Int /\ q2 \in Int
      /\ r1 \in Int /\ r2 \in Int /\ s1 \in Int /\ s2 \in Int
  BY <1>1 DEF Corners, Point
<1>3. Divides(a, k, b, n) <=> f * g < 0
  BY DEF Divides, Side, Edge, Minus, Cross
<1>4. Divides(b, n, a, k) <=> h * j < 0
  BY DEF Divides, Side, Edge, Minus, Cross
<1>. HIDE DEF p1, p2, q1, q2, r1, r2, s1, s2
<1>5. f \in Int /\ g \in Int /\ h \in Int /\ j \in Int
  BY <1>2
<1>6. g - f = h - j /\ r1 * g - s1 * f = q1 * h - p1 * j /\ r2 * g - s2 * f = q2 * h - p2 * j
  BY <1>2
<1>. HIDE DEF f, g, h, j
<1>7. /\ p1 <= r1 \/ p1 <= s1 \/ q1 <= r1 \/ q1 <= s1
      /\ p1 >= r1 \/ p1 >= s1 \/ q1 >= r1 \/ q1 >= s1
  BY <1>2, <1>3, <1>4, <1>5, <1>6, Weighted
<1>8. /\ p2 <= r2 \/ p2 <= s2 \/ q2 <= r2 \/ q2 <= s2
      /\ p2 >= r2 \/ p2 >= s2 \/ q2 >= r2 \/ q2 >= s2
  BY <1>2, <1>3, <1>4, <1>5, <1>6, Weighted
<1>. HIDE DEF l, m
<1>. QED BY <1>1, <1>7, <1>8 DEF Meet, p1, p2, q1, q2, r1, r2, s1, s2

\* Of rectangles that touch, the ranges meet.
LEMMA TouchMeet ==
    ASSUME NEW a \in Corners, NEW b \in Corners, Touch(a, b),
           \A p \in Point : In(p, a) =>
               \A d \in {1, 2} : \E k, n \in 1 .. 4 : a[k][d] <= p[d] /\ p[d] <= a[n][d],
           \A p \in Point : In(p, b) =>
               \A d \in {1, 2} : \E k, n \in 1 .. 4 : b[k][d] <= p[d] /\ p[d] <= b[n][d]
    PROVE  Meet(a, b, 1) /\ Meet(a, b, 2)
<1>1. \A k \in 1 .. 4 : a[k] \in Point /\ b[k] \in Point
  BY DEF Corners
<1>2. ASSUME NEW k \in 1 .. 4, In(a[k], b) PROVE Meet(a, b, 1) /\ Meet(a, b, 2)
  BY <1>1, <1>2 DEF Meet
<1>3. ASSUME NEW k \in 1 .. 4, In(b[k], a) PROVE Meet(a, b, 1) /\ Meet(a, b, 2)
  BY <1>1, <1>3 DEF Meet
<1>. QED BY <1>2, <1>3, CrossMeet DEF Touch

\* The corners, from whichever they are counted, of a box with these sides.
IsBox(b, l, o, r, t) ==
    \/ b = << <<l, o>>, <<r, o>>, <<r, t>>, <<l, t>> >>
    \/ b = << <<r, o>>, <<r, t>>, <<l, t>>, <<l, o>> >>
    \/ b = << <<r, t>>, <<l, t>>, <<l, o>>, <<r, o>> >>
    \/ b = << <<l, t>>, <<l, o>>, <<r, o>>, <<r, t>> >>

LEMMA InBox ==
    ASSUME NEW l \in Int, NEW o \in Int, NEW r \in Int, NEW t \in Int, l < r, o < t,
           NEW b, IsBox(b, l, o, r, t),
           NEW x \in Int, NEW y \in Int, l <= x, x <= r, o <= y, y <= t
    PROVE  In(<<x, y>>, b)
<1>1. /\ (r - l) * (y - o) >= 0 /\ (r - l) * (t - y) >= 0
      /\ (t - o) * (x - l) >= 0 /\ (t - o) * (r - x) >= 0
  OBVIOUS
<1>. DEFINE p == <<x, y>>
            S(k) == Side(p, b, k)
<1>2. CASE b = << <<l, o>>, <<r, o>>, <<r, t>>, <<l, t>> >>
  <2>1. /\ S(1) = (r - l) * (y - o) /\ S(2) = (t - o) * (r - x)
        /\ S(3) = (r - l) * (t - y) /\ S(4) = (t - o) * (x - l)
    BY <1>2 DEF Side, Edge, Minus, Cross
  <2>. QED BY <1>1, <2>1 DEF In
<1>3. CASE b = << <<r, o>>, <<r, t>>, <<l, t>>, <<l, o>> >>
  <2>1. /\ S(4) = (r - l) * (y - o) /\ S(1) = (t - o) * (r - x)
        /\ S(2) = (r - l) * (t - y) /\ S(3) = (t - o) * (x - l)
    BY <1>3 DEF Side, Edge, Minus, Cross
  <2>. QED BY <1>1, <2>1 DEF In
<1>4. CASE b = << <<r, t>>, <<l, t>>, <<l, o>>, <<r, o>> >>
  <2>1. /\ S(3) = (r - l) * (y - o) /\ S(4) = (t - o) * (r - x)
        /\ S(1) = (r - l) * (t - y) /\ S(2) = (t - o) * (x - l)
    BY <1>4 DEF Side, Edge, Minus, Cross
  <2>. QED BY <1>1, <2>1 DEF In
<1>5. CASE b = << <<l, t>>, <<l, o>>, <<r, o>>, <<r, t>> >>
  <2>1. /\ S(2) = (r - l) * (y - o) /\ S(3) = (t - o) * (r - x)
        /\ S(4) = (r - l) * (t - y) /\ S(1) = (t - o) * (x - l)
    BY <1>5 DEF Side, Edge, Minus, Cross
  <2>. QED BY <1>1, <2>1 DEF In
<1>. QED BY <1>2, <1>3, <1>4, <1>5 DEF IsBox

LEMMA BoxEdges ==
    ASSUME NEW l, NEW o, NEW r, NEW t, NEW b, IsBox(b, l, o, r, t)
    PROVE  /\ \E n \in 1 .. 4 : b[n] = <<l, o>> /\ b[(n % 4) + 1] = <<r, o>>
           /\ \E n \in 1 .. 4 : b[n] = <<l, t>> /\ b[(n % 4) + 1] = <<l, o>>
           /\ \A n \in 1 .. 4 : b[n] \in {l, r} \X {o, t}
<1>1. 1 % 4 = 1 /\ 2 % 4 = 2 /\ 3 % 4 = 3 /\ 4 % 4 = 0
  OBVIOUS
<1>2. \E n \in 1 .. 4 : b[n] = <<l, o>> /\ b[(n % 4) + 1] = <<r, o>>
  BY <1>1 DEF IsBox
<1>3. \E n \in 1 .. 4 : b[n] = <<l, t>> /\ b[(n % 4) + 1] = <<l, o>>
  BY <1>1 DEF IsBox
<1>4. \A n \in 1 .. 4 : b[n] \in {l, r} \X {o, t}
  BY DEF IsBox
<1>. QED BY <1>2, <1>3, <1>4

\* An upright and a level edge that cross.
LEMMA SidesCross ==
    ASSUME NEW a \in Corners, NEW b \in Corners, NEW k \in 1 .. 4, NEW n \in 1 .. 4,
           NEW j \in 1 .. 4, j = (k % 4) + 1, NEW m \in 1 .. 4, m = (n % 4) + 1,
           a[j][1] = a[k][1], b[m][2] = b[n][2],
           b[n][1] < a[k][1], a[k][1] < b[m][1], a[j][2] < b[n][2], b[n][2] < a[k][2]
    PROVE  Divides(a, k, b, n) /\ Divides(b, n, a, k)
<1>. DEFINE l == a[k][1]  o == a[j][2]  t == a[k][2]
            f == b[n][1]  q == b[n][2]  r == b[m][1]
<1>1. /\ l \in Int /\ o \in Int /\ t \in Int /\ f \in Int /\ q \in Int /\ r \in Int
      /\ a[k] = <<l, t>> /\ a[j] = <<l, o>> /\ b[n] = <<f, q>> /\ b[m] = <<r, q>>
  BY DEF Corners, Point
<1>2. f < l /\ l < r /\ o < q /\ q < t
  OBVIOUS
<1>. HIDE DEF l, o, t, f, q, r
<1>3. /\ Side(b[n], a, k) = (t - o) * (f - l) /\ Side(b[m], a, k) = (t - o) * (r - l)
      /\ Side(a[k], b, n) = (r - f) * (t - q) /\ Side(a[j], b, n) = (r - f) * (o - q)
  BY <1>1 DEF Side, Edge, Minus, Cross
<1>4. (t - o) * (f - l) < 0 /\ (t - o) * (r - l) > 0 /\ (r - f) * (t - q) > 0 /\ (r - f) * (o - q) < 0
  BY <1>1, <1>2
<1>5. \A x, y \in Int : x < 0 /\ y > 0 => x * y < 0 /\ y * x < 0
  OBVIOUS
<1>6. /\ (t - o) * (f - l) \in Int /\ (t - o) * (r - l) \in Int
      /\ (r - f) * (t - q) \in Int /\ (r - f) * (o - q) \in Int
  BY <1>1
<1>. QED BY <1>3, <1>4, <1>5, <1>6 DEF Divides

\* Boxes touch if both of their ranges meet.
LEMMA BoxesTouch ==
    ASSUME NEW l \in Int, NEW o \in Int, NEW r \in Int, NEW t \in Int, l < r, o < t,
           NEW a \in Corners, IsBox(a, l, o, r, t),
           NEW m \in Int, NEW q \in Int, NEW s \in Int, NEW u \in Int, m < s, q < u,
           NEW b \in Corners, IsBox(b, m, q, s, u),
           Meet(a, b, 1), Meet(a, b, 2)
    PROVE  Touch(a, b)
<1>1. l <= s /\ m <= r /\ o <= u /\ q <= t
  <2>1. \A n \in 1 .. 4 : a[n] \in {l, r} \X {o, t} /\ b[n] \in {m, s} \X {q, u}
    BY BoxEdges
  <2>2. \A n \in 1 .. 4 : /\ a[n][1] \in {l, r} /\ a[n][2] \in {o, t}
                          /\ b[n][1] \in {m, s} /\ b[n][2] \in {q, u}
    BY <2>1
  <2>. QED BY <2>2 DEF Meet
<1>2. /\ \A x, y \in Int : l <= x /\ x <= r /\ o <= y /\ y <= t => In(<<x, y>>, a)
      /\ \A x, y \in Int : m <= x /\ x <= s /\ q <= y /\ y <= u => In(<<x, y>>, b)
  BY InBox
<1>3. PICK k1, k2 \in 1 .. 4 : /\ a[k1] = <<l, o>> /\ a[(k1 % 4) + 1] = <<r, o>>
                               /\ a[k2] = <<l, t>> /\ a[(k2 % 4) + 1] = <<l, o>>
  BY BoxEdges
<1>4. PICK n1, n2 \in 1 .. 4 : /\ b[n1] = <<m, q>> /\ b[(n1 % 4) + 1] = <<s, q>>
                               /\ b[n2] = <<m, u>> /\ b[(n2 % 4) + 1] = <<m, q>>
  BY BoxEdges
<1>. DEFINE k3 == (k1 % 4) + 1  k4 == (k2 % 4) + 1  n3 == (n1 % 4) + 1  n4 == (n2 % 4) + 1
<1>5. k3 \in 1 .. 4 /\ k4 \in 1 .. 4 /\ n3 \in 1 .. 4 /\ n4 \in 1 .. 4
  OBVIOUS
<1>6. ASSUME NEW k \in 1 .. 4, In(a[k], b) \/ In(b[k], a) PROVE Touch(a, b)
  BY <1>6 DEF Touch
<1>7. ASSUME NEW k \in 1 .. 4, NEW n \in 1 .. 4, Divides(a, k, b, n), Divides(b, n, a, k)
      PROVE  Touch(a, b)
  BY <1>7 DEF Touch
<1>8. CASE m <= l /\ q <= o
  <2>1. In(a[k1], b)
    BY <1>1, <1>2, <1>3, <1>8
  <2>. QED BY <1>6, <2>1
<1>9. CASE l <= m /\ o <= q
  <2>1. In(b[n1], a)
    BY <1>1, <1>2, <1>4, <1>9
  <2>. QED BY <1>6, <2>1
<1>10. CASE m < l /\ o < q
  <2>1. CASE q = t
    <3>1. In(a[k2], b)
      BY <1>1, <1>2, <1>3, <1>10, <2>1
    <3>. QED BY <1>6, <3>1
  <2>2. CASE l = s
    <3>1. In(b[n3], a)
      BY <1>1, <1>2, <1>4, <1>10, <2>2
    <3>. QED BY <1>5, <1>6, <3>1
  <2>3. CASE q < t /\ l < s
    <3>1. /\ a[k2][1] = l /\ a[k2][2] = t /\ a[k4][1] = l /\ a[k4][2] = o
          /\ b[n1][1] = m /\ b[n1][2] = q /\ b[n3][1] = s /\ b[n3][2] = q
      BY <1>3, <1>4
    <3>2. Divides(a, k2, b, n1) /\ Divides(b, n1, a, k2)
      BY <1>5, <1>10, <2>3, <3>1, SidesCross
    <3>. QED BY <1>7, <3>2
  <2>. QED BY <1>1, <2>1, <2>2, <2>3
<1>11. CASE l < m /\ q < o
  <2>1. CASE o = u
    <3>1. In(b[n2], a)
      BY <1>1, <1>2, <1>4, <1>11, <2>1
    <3>. QED BY <1>6, <3>1
  <2>2. CASE m = r
    <3>1. In(a[k3], b)
      BY <1>1, <1>2, <1>3, <1>11, <2>2
    <3>. QED BY <1>5, <1>6, <3>1
  <2>3. CASE o < u /\ m < r
    <3>1. /\ a[k1][1] = l /\ a[k1][2] = o /\ a[k3][1] = r /\ a[k3][2] = o
          /\ b[n2][1] = m /\ b[n2][2] = u /\ b[n4][1] = m /\ b[n4][2] = q
      BY <1>3, <1>4
    <3>2. Divides(b, n2, a, k1) /\ Divides(a, k1, b, n2)
      BY <1>5, <1>11, <2>3, <3>1, SidesCross
    <3>. QED BY <1>7, <3>2
  <2>. QED BY <1>1, <2>1, <2>2, <2>3
<1>. QED BY <1>8, <1>9, <1>10, <1>11

\* A rectangle whose sine or cosine is zero is a box.
LEMMA StraightIsBox ==
    ASSUME NEW x \in Int, NEW y \in Int, NEW h \in Int, NEW w \in Int, NEW c \in Int, NEW s \in Int,
           h > 0, w > 0, c * c + s * s > 0
    PROVE  c = 0 \/ s = 0 => \E l, o, r, t \in Int :
               /\ l < r /\ o < t
               /\ IsBox(get_rotated_rect_corners(RotatedRect(<<x, y>>, <<h, w>>, <<c, s>>)), l, o, r, t)
<1>. DEFINE b == get_rotated_rect_corners(RotatedRect(<<x, y>>, <<h, w>>, <<c, s>>))
<1>1. b = << <<x - h * c + w * s, y - h * s - w * c>>, <<x + h * c + w * s, y + h * s - w * c>>,
             <<x + h * c - w * s, y + h * s + w * c>>, <<x - h * c - w * s, y - h * s + w * c>> >>
  BY RectCorners
<1>. HIDE DEF b
<1>. DEFINE hc == h * c  hs == h * s  wc == w * c  ws == w * s
<1>2. /\ hc \in Int /\ hs \in Int /\ wc \in Int /\ ws \in Int
      /\ b = << <<x - hc + ws, y - hs - wc>>, <<x + hc + ws, y + hs - wc>>,
                <<x + hc - ws, y + hs + wc>>, <<x - hc - ws, y - hs + wc>> >>
  BY <1>1
<1>. SUFFICES ASSUME c = 0 \/ s = 0
              PROVE  \E l, o, r, t \in Int : l < r /\ o < t /\ IsBox(b, l, o, r, t)
  BY DEF b
<1>3. /\ c = 0 => hc = 0 /\ wc = 0 /\ ((hs > 0 /\ ws > 0) \/ (hs < 0 /\ ws < 0))
      /\ s = 0 => hs = 0 /\ ws = 0 /\ ((hc > 0 /\ wc > 0) \/ (hc < 0 /\ wc < 0))
  OBVIOUS
<1>. HIDE DEF hc, hs, wc, ws
<1>4. CASE hs = 0 /\ ws = 0 /\ hc > 0 /\ wc > 0
  <2>1. IsBox(b, x - hc, y - wc, x + hc, y + wc)
    BY <1>2, <1>4 DEF IsBox
  <2>. QED BY <1>2, <1>4, <2>1
<1>5. CASE hs = 0 /\ ws = 0 /\ hc < 0 /\ wc < 0
  <2>1. IsBox(b, x + hc, y + wc, x - hc, y - wc)
    BY <1>2, <1>5 DEF IsBox
  <2>. QED BY <1>2, <1>5, <2>1
<1>6. CASE hc = 0 /\ wc = 0 /\ hs > 0 /\ ws > 0
  <2>1. IsBox(b, x - ws, y - hs, x + ws, y + hs)
    BY <1>2, <1>6 DEF IsBox
  <2>. QED BY <1>2, <1>6, <2>1
<1>7. CASE hc = 0 /\ wc = 0 /\ hs < 0 /\ ws < 0
  <2>1. IsBox(b, x + ws, y + hs, x - ws, y - hs)
    BY <1>2, <1>7 DEF IsBox
  <2>. QED BY <1>2, <1>7, <2>1
<1>. QED BY <1>3, <1>4, <1>5, <1>6, <1>7

-----------------------------------------------------------------------------
(* A bullet and a ship.                                                    *)

\* Of a turned rectangle no corner is further away than both half sizes.
LEMMA CornersReach ==
    ASSUME NEW x \in Int, NEW y \in Int, NEW h \in Int, NEW w \in Int, NEW c \in Int, NEW s \in Int,
           h > 0, w > 0, NEW m \in Int, m > 0, c * c + s * s = m * m,
           NEW k \in 1 .. 4
    PROVE  LET b == get_rotated_rect_corners(RotatedRect(<<x, y>>, <<h, w>>, <<c, s>>))
           IN  /\ x - m * (h + w) <= b[k][1] /\ b[k][1] <= x + m * (h + w)
               /\ y - m * (h + w) <= b[k][2] /\ b[k][2] <= y + m * (h + w)
<1>. DEFINE b == get_rotated_rect_corners(RotatedRect(<<x, y>>, <<h, w>>, <<c, s>>))
<1>1. b = << <<x - h * c + w * s, y - h * s - w * c>>, <<x + h * c + w * s, y + h * s - w * c>>,
             <<x + h * c - w * s, y + h * s + w * c>>, <<x - h * c - w * s, y - h * s + w * c>> >>
  BY RectCorners
<1>. HIDE DEF b
<1>2. -m <= c /\ c <= m /\ -m <= s /\ s <= m
  <2>1. c * c >= 0 /\ s * s >= 0
    OBVIOUS
  <2>2. ASSUME NEW z \in Int, z * z <= m * m PROVE -m <= z /\ z <= m
    BY <2>2
  <2>. QED BY <2>1, <2>2
<1>3. ASSUME NEW e \in Int, e > 0, NEW z \in Int, -m <= z, z <= m
      PROVE  -(m * e) <= e * z /\ e * z <= m * e
  BY <1>3
<1>. DEFINE hc == h * c  hs == h * s  wc == w * c  ws == w * s  mh == m * h  mw == m * w
<1>4. /\ -mh <= hc /\ hc <= mh /\ -mh <= hs /\ hs <= mh
      /\ -mw <= wc /\ wc <= mw /\ -mw <= ws /\ ws <= mw
  BY <1>2, <1>3
<1>5. hc \in Int /\ hs \in Int /\ wc \in Int /\ ws \in Int /\ mh \in Int /\ mw \in Int
  OBVIOUS
<1>6. m * (h + w) = mh + mw
  OBVIOUS
<1>7. b = << <<x - hc + ws, y - hs - wc>>, <<x + hc + ws, y + hs - wc>>,
             <<x + hc - ws, y + hs + wc>>, <<x - hc - ws, y - hs + wc>> >>
  BY <1>1
<1>. HIDE DEF hc, hs, wc, ws, mh, mw
<1>. QED BY <1>4, <1>5, <1>6, <1>7 DEF b

\* What the check of a bullet and a ship says: their ranges meet.  It finds every
\* contact, and nothing but contacts where the ship lies along the axes.
LEMMA BulletCheck ==
    ASSUME NEW bullet, bullet.pos \in Int \X Int, NEW pose \in Poses
    PROVE  LET a == bbox(bullet)
               b == otherBbox(pose)
           IN  /\ sat_obb_collision_check(a, b) <=> Meet(a, b, 1) /\ Meet(a, b, 2)
               /\ Touch(a, b) => sat_obb_collision_check(a, b)
               /\ /\ sat_obb_collision_check(a, b)
                  /\ pose.rotation[1] = 0 \/ pose.rotation[2] = 0
                  => Touch(a, b)
               /\ \A d \in {1, 2}, k \in 1 .. 4 :
                     /\ a[k][d] \in Int /\ a[k][d] >= bullet.pos[d] - One * BULLET_HALF[d]
                     /\ b[k][d] \in Int
                     /\ b[k][d] <= pose.pos[d] + One * (PLAYER_HALF[1] + PLAYER_HALF[2])
<1>1. PICK x \in Int, y \in Int : bullet.pos = <<x, y>>
  OBVIOUS
<1>2. PICK p \in Int, q \in Int : pose.pos = <<p, q>>
  BY DEF Poses
<1>3. PICK c \in Int, s \in Int : /\ pose.rotation = <<c, s>>
                                  /\ c * c + s * s = One * One /\ c * c + s * s > 0
  <2>1. pose.rotation \in Rotations \cup {<<One, 0>>}
    BY DEF Poses
  <2>0. One * One > 0
    BY FlightAssumption
  <2>2. CASE pose.rotation \in Rotations
    <3>1. pose.rotation \in Int \X Int
      BY <2>2, FlightAssumption
    <3>2. pose.rotation[1] * pose.rotation[1] + pose.rotation[2] * pose.rotation[2] = One * One
      BY <2>2, FlightAssumption
    <3>3. PICK c \in Int, s \in Int : pose.rotation = <<c, s>>
      BY <3>1
    <3>4. c * c + s * s = One * One
      BY <3>2, <3>3
    <3>. QED BY <3>3, <3>4, <2>0
  <2>3. CASE pose.rotation = <<One, 0>>
    BY <2>3, <2>0, FlightAssumption
  <2>. QED BY <2>1, <2>2, <2>3
<1>4. PICK h \in Int, w \in Int : BULLET_HALF = <<h, w>> /\ h > 0 /\ w > 0
  BY FlightAssumption
<1>5. PICK f \in Int, g \in Int : PLAYER_HALF = <<f, g>> /\ f > 0 /\ g > 0
  BY FlightAssumption
<1>6. One \in Int /\ One > 0 /\ One * One > 0
  BY FlightAssumption
<1>. DEFINE a == get_rotated_rect_corners(RotatedRect(<<x, y>>, <<h, w>>, <<One, 0>>))
            b == get_rotated_rect_corners(RotatedRect(<<p, q>>, <<f, g>>, <<c, s>>))
<1>7. bbox(bullet) = a /\ otherBbox(pose) = b
  BY <1>1, <1>2, <1>3, <1>4, <1>5 DEF bbox, otherBbox
<1>8. a \in Corners /\ b \in Corners
  BY <1>6, CornersType
<1>9. sat_obb_collision_check(a, b) <=> Meet(a, b, 1) /\ Meet(a, b, 2)
  BY <1>4, <1>6, <1>8, BoxCheck
<1>10. Touch(a, b) => Meet(a, b, 1) /\ Meet(a, b, 2)
  <2>1. One * One + 0 * 0 > 0
    BY <1>6
  <2>2. \A r \in Point : In(r, a) =>
            \A d \in {1, 2} : \E k, n \in 1 .. 4 : a[k][d] <= r[d] /\ r[d] <= a[n][d]
    <3>. SUFFICES ASSUME NEW r \in Point, In(r, a)
                  PROVE  \A d \in {1, 2} : \E k, n \in 1 .. 4 : a[k][d] <= r[d] /\ r[d] <= a[n][d]
      OBVIOUS
    <3>1. h > 0 /\ w > 0 /\ One \in Int /\ 0 \in Int
      BY <1>4, <1>6
    <3>. QED BY <3>1, <2>1, InWithin
  <2>3. \A r \in Point : In(r, b) =>
            \A d \in {1, 2} : \E k, n \in 1 .. 4 : b[k][d] <= r[d] /\ r[d] <= b[n][d]
    <3>. SUFFICES ASSUME NEW r \in Point, In(r, b)
                  PROVE  \A d \in {1, 2} : \E k, n \in 1 .. 4 : b[k][d] <= r[d] /\ r[d] <= b[n][d]
      OBVIOUS
    <3>1. c * c + s * s > 0 /\ f > 0 /\ g > 0
      BY <1>3, <1>5
    <3>. QED BY <3>1, InWithin
  <2>. QED BY <1>8, <2>2, <2>3, TouchMeet
<1>11. Meet(a, b, 1) /\ Meet(a, b, 2) /\ (c = 0 \/ s = 0) => Touch(a, b)
  <2>. SUFFICES ASSUME Meet(a, b, 1), Meet(a, b, 2), c = 0 \/ s = 0 PROVE Touch(a, b)
    OBVIOUS
  <2>1. One * One + 0 * 0 > 0
    BY <1>6
  <2>2. PICK l, o, r, t \in Int : l < r /\ o < t /\ IsBox(a, l, o, r, t)
    BY <1>4, <1>6, <2>1, StraightIsBox
  <2>3. PICK m, n, u, v \in Int : m < u /\ n < v /\ IsBox(b, m, n, u, v)
    BY <1>3, <1>5, <1>6, StraightIsBox
  <2>. HIDE DEF a, b
  <2>. QED BY <1>8, <2>2, <2>3, BoxesTouch
<1>12. \A d \in {1, 2}, k \in 1 .. 4 : a[k][d] \in Int /\ b[k][d] \in Int
  BY <1>8 DEF Corners, Point
<1>13. ASSUME NEW k \in 1 .. 4
       PROVE  a[k][1] >= x - One * h /\ a[k][2] >= y - One * w
  <2>1. a = << <<x - h * One + w * 0, y - h * 0 - w * One>>, <<x + h * One + w * 0, y + h * 0 - w * One>>,
               <<x + h * One - w * 0, y + h * 0 + w * One>>, <<x - h * One - w * 0, y - h * 0 + w * One>> >>
    BY <1>6, RectCorners
  <2>2. h * One = One * h /\ w * One = One * w /\ One * h > 0 /\ One * w > 0
    BY <1>4, <1>6
  <2>. QED BY <1>6, <2>1, <2>2
<1>14. \A k \in 1 .. 4 : b[k][1] <= p + One * (f + g) /\ b[k][2] <= q + One * (f + g)
  BY <1>3, <1>5, <1>6, CornersReach
<1>. HIDE DEF a, b
<1>15. \A d \in {1, 2}, k \in 1 .. 4 :
          /\ a[k][d] >= bullet.pos[d] - One * BULLET_HALF[d]
          /\ b[k][d] <= pose.pos[d] + One * (PLAYER_HALF[1] + PLAYER_HALF[2])
  BY <1>1, <1>2, <1>4, <1>5, <1>13, <1>14
<1>16. pose.rotation[1] = c /\ pose.rotation[2] = s
  BY <1>3
<1>. QED BY <1>7, <1>9, <1>10, <1>11, <1>12, <1>15, <1>16

\* A ship whose distance from the bullet's box is more than it can reach.
LEMMA DeadUnmet ==
    ASSUME NEW bullet, bullet.pos \in Int \X Int, ~Outside(bullet.pos), NEW pose \in Poses,
           sat_obb_collision_check(bbox(bullet), otherBbox(pose))
    PROVE  pose.pos[1] # Dead[1] /\ pose.pos[2] # Dead[2]
<1>. DEFINE a == bbox(bullet)
            b == otherBbox(pose)
            H == PLAYER_HALF[1] + PLAYER_HALF[2]
<1>1. /\ \A d \in {1, 2} : Meet(a, b, d)
      /\ \A d \in {1, 2}, k \in 1 .. 4 :
            /\ a[k][d] \in Int /\ a[k][d] >= bullet.pos[d] - One * BULLET_HALF[d]
            /\ b[k][d] \in Int /\ b[k][d] <= pose.pos[d] + One * H
  BY BulletCheck
<1>. HIDE DEF a, b
<1>2. One \in Int /\ One > 0 /\ tolerance \in Int /\ H \in Int
  BY FlightAssumption
<1>3. \A d \in {1, 2} : /\ bullet.pos[d] \in Int /\ bullet.pos[d] >= -(One * tolerance)
                        /\ BULLET_HALF[d] \in Int /\ DEAD_PLAYER_POS[d] \in Int
                        /\ Dead[d] = One * DEAD_PLAYER_POS[d]
  BY <1>2, FlightAssumption DEF Outside, Dead, Scaled
<1>4. ASSUME NEW d \in {1, 2}, pose.pos[d] = Dead[d] PROVE FALSE
  <2>. DEFINE e == BULLET_HALF[d]
              z == DEAD_PLAYER_POS[d]
  <2>1. e \in Int /\ z \in Int /\ z + H + e < -tolerance
    BY <1>2, <1>3, FlightAssumption
  <2>2. PICK k, n \in 1 .. 4 : a[k][d] <= b[n][d]
    BY <1>1 DEF Meet
  <2>3. /\ a[k][d] >= -(One * tolerance) - One * e
        /\ b[n][d] <= One * z + One * H
        /\ a[k][d] \in Int /\ b[n][d] \in Int
    BY <1>1, <1>2, <1>3, <1>4, <2>1
  <2>. HIDE DEF e, z, H
  <2>4. One * (z + H + e) < One * (-tolerance)
    BY <1>2, <2>1, Scale
  <2>. QED BY <1>2, <2>1, <2>2, <2>3, <2>4
<1>. QED BY <1>4
-----------------------------------------------------------------------------
(* The handlers.                                                           *)

\* A handler adds a bullet at most, while no list is walked, and never makes a
\* player one more to be asked.
LEMMA HandlerFacts ==
    ASSUME IInv, NEW c \in Slots, Handler(c)
    PROVE  /\ TypeOK'
           /\ UNCHANGED <<bpc, todo, current, i, collides, spent>>
           /\ DOMAIN bullets \subseteq DOMAIN bullets'
           /\ Walking => UNCHANGED bullets /\ Playing' \subseteq Playing
<1>. USE DEF IInv
<1>0. TypeOK
  OBVIOUS
<1>1. CASE Join(c)
  <2>1. hpc' \in [Slots -> {"out", "recv", "write", "clean_player"}]
    BY <1>0, <1>1 DEF Join, TypeOK
  <2>. QED BY <1>0, <1>1, <2>1 DEF Join, TypeOK, walk
<1>2. CASE RecvUpdate(c)
  <2>1. /\ hpc[c] = "recv" /\ hpc' = [hpc EXCEPT ![c] = "write"]
        /\ still' = still \ {c}
        /\ UNCHANGED <<players, bpc, todo, current, i, collides, spent>>
    BY <1>2 DEF RecvUpdate
  <2>2. PICK p \in Positions, r \in Rotations :
           /\ update' = [update EXCEPT ![c] = Pose(p, r)]
           /\ \/ UNCHANGED bullets
              \/ /\ ~Walking
                 /\ \E n \in Nodes, action \in {-1, 1} :
                       add_bullet(n, p, get_bullet_direction(r, action), c)
    BY <1>2 DEF RecvUpdate
  <2>3. hpc' \in [Slots -> {"out", "recv", "write", "clean_player"}] /\ Playing' = Playing
    BY <1>0, <2>1 DEF TypeOK, Playing
  <2>4. update' \in [Slots -> [pos : Positions \cup {<<0, 0>>}, rotation : Rotations \cup {<<One, 0>>}]]
    BY <1>0, <2>2 DEF TypeOK, Pose
  <2>5. /\ DOMAIN bullets' \subseteq Nodes /\ DOMAIN bullets \subseteq DOMAIN bullets'
        /\ \A b \in DOMAIN bullets' : bullets'[b] \in BulletSet
        /\ Walking => UNCHANGED bullets
    <3>1. CASE UNCHANGED bullets
      BY <1>0, <3>1 DEF TypeOK, BulletSet
    <3>2. CASE ~Walking /\ \E n \in Nodes, action \in {-1, 1} :
                               add_bullet(n, p, get_bullet_direction(r, action), c)
      <4>1. PICK n \in Nodes, action \in {-1, 1} : add_bullet(n, p, get_bullet_direction(r, action), c)
        BY <3>2
      <4>2. p \in Int \X Int /\ get_bullet_direction(r, action) \in Int \X Int
        BY PositionsType, DirectionType
      <4>3. /\ DOMAIN bullets' = DOMAIN bullets \cup {n}
            /\ \A b \in DOMAIN bullets' : bullets'[b] \in BulletSet
        BY <1>0, <4>1, <4>2, AddedType
      <4>. QED BY <1>0, <3>2, <4>3 DEF TypeOK
    <3>. QED BY <2>2, <3>1, <3>2
  <2>6. TypeOK'
    BY <1>0, <2>1, <2>3, <2>4, <2>5 DEF TypeOK, BulletSet
  <2>. QED BY <2>1, <2>3, <2>5, <2>6
<1>3. CASE WriteBack(c)
  <2>1. hpc' \in [Slots -> {"out", "recv", "write", "clean_player"}] /\ Playing' = Playing
    BY <1>0, <1>3 DEF WriteBack, TypeOK, Playing
  <2>2. update[c] \in Poses
    BY <1>0, PositionsType DEF TypeOK, Poses
  <2>3. players' \in [Slots -> Poses]
    BY <1>0, <1>3, <2>2 DEF WriteBack, TypeOK, Poses
  <2>4. update' \in [Slots -> [pos : Positions \cup {<<0, 0>>}, rotation : Rotations \cup {<<One, 0>>}]]
    BY <1>0, <1>3 DEF WriteBack, TypeOK, Still, Pose
  <2>. QED BY <1>0, <1>3, <2>1, <2>3, <2>4 DEF WriteBack, TypeOK, Poses, walk
<1>4. CASE CleanSocket(c)
  <2>1. hpc' \in [Slots -> {"out", "recv", "write", "clean_player"}]
    BY <1>0, <1>4 DEF CleanSocket, TypeOK
  <2>. QED BY <1>0, <1>4, <2>1 DEF CleanSocket, TypeOK, walk
<1>5. CASE CleanPlayer(c)
  <2>1. hpc' \in [Slots -> {"out", "recv", "write", "clean_player"}] /\ Playing' \subseteq Playing
    BY <1>0, <1>5 DEF CleanPlayer, TypeOK, Playing
  <2>2. PICK p \in Places : players' = [players EXCEPT ![c] = Pose(Scaled(p), <<One, 0>>)]
    BY <1>5 DEF CleanPlayer
  <2>3. Pose(Scaled(p), <<One, 0>>) \in Poses
    BY ScaledType, FlightAssumption DEF Pose, Poses
  <2>4. players' \in [Slots -> Poses]
    BY <1>0, <2>2, <2>3 DEF TypeOK, Poses
  <2>. QED BY <1>0, <1>5, <2>1, <2>4 DEF CleanPlayer, TypeOK, Poses, walk
<1>. QED BY <1>1, <1>2, <1>3, <1>4, <1>5 DEF Handler

LEMMA HandlerStep ==
    ASSUME IInv, NEW c \in Slots, Handler(c)
    PROVE  IInv'
<1>1. /\ TypeOK'
      /\ UNCHANGED <<bpc, todo, current, i, collides, spent>>
      /\ DOMAIN bullets \subseteq DOMAIN bullets'
      /\ Walking => UNCHANGED bullets /\ Playing' \subseteq Playing
  BY HandlerFacts
<1>2. CurrentHeld' /\ SpentIsGone' /\ IndexInRange'
  BY <1>1 DEF IInv, Testing, CurrentHeld, SpentIsGone, IndexInRange
<1>3. NobodyAsked'
  <2>. SUFFICES ASSUME bpc = "test", collides = "unset", NEW d \in Slots, d < i, d \in Playing'
                PROVE  d = bullets'[current].shooter
    BY <1>1 DEF NobodyAsked
  <2>1. Walking
    BY DEF Walking
  <2>. QED BY <1>1, <2>1 DEF IInv, NobodyAsked
<1>. QED BY <1>1, <1>2, <1>3 DEF IInv

-----------------------------------------------------------------------------
(* The broadcast thread.                                                   *)

LEMMA NextSlotFacts ==
    ASSUME i \in Slots, NextSlot
    PROVE  i' \in Slots /\ bpc' \in {"death", "update"} /\ (bpc' = "update" => i' = 0)
BY FlightAssumption DEF NextSlot, Slots

LEMMA BroadcastStep ==
    ASSUME IInv, BroadcastLoop
    PROVE  IInv'
<1>. USE FlightAssumption
<1>0. TypeOK /\ CurrentHeld /\ SpentIsGone /\ NobodyAsked /\ IndexInRange
  BY DEF IInv
<1>1. 0 \in Slots /\ 0 \in 0 .. MAX_CLIENTS /\ Slots \subseteq 0 .. MAX_CLIENTS
  BY DEF Slots
<1>2. CASE BeginWalk
  <2>1. /\ DOMAIN bullets' \subseteq Nodes
        /\ \A b \in DOMAIN bullets' : bullets'[b] \in BulletSet
        /\ DOMAIN bullets \subseteq DOMAIN bullets'
    <3>1. CASE UNCHANGED bullets
      BY <1>0, <3>1 DEF TypeOK, BulletSet
    <3>2. CASE \E n \in Nodes, r \in Rotations :
                   add_bullet(n, Scaled(Spawner), r, SERVER_SPAWNED_BULLET)
      <4>1. PICK n \in Nodes, r \in Rotations :
                add_bullet(n, Scaled(Spawner), r, SERVER_SPAWNED_BULLET)
        BY <3>2
      <4>2. Scaled(Spawner) \in Int \X Int /\ r \in Int \X Int
        BY ScaledType
      <4>3. /\ DOMAIN bullets' = DOMAIN bullets \cup {n}
            /\ \A b \in DOMAIN bullets' : bullets'[b] \in BulletSet
        BY <1>0, <4>1, <4>2, AddedType
      <4>. QED BY <1>0, <4>3 DEF TypeOK
    <3>. QED BY <1>2, <3>1, <3>2 DEF BeginWalk
  <2>2. /\ bpc = "update" /\ bpc' = "walk" /\ todo' = DOMAIN bullets'
        /\ UNCHANGED <<players, update, hpc, current, i, collides, still, spent>>
    BY <1>2 DEF BeginWalk
  <2>3. current = Null /\ spent = {} /\ i = 0
    BY <1>0, <2>2 DEF Testing, CurrentHeld, SpentIsGone, IndexInRange
  <2>4. TypeOK'
    BY <1>0, <2>1, <2>2, <2>3 DEF TypeOK, BulletSet
  <2>. QED BY <1>1, <2>2, <2>3, <2>4 DEF IInv, Testing, CurrentHeld, SpentIsGone, NobodyAsked, IndexInRange
<1>3. CASE Fly
  <2>1. /\ bpc = "walk" /\ UNCHANGED <<players, update, hpc, i, collides>>
        /\ current = Null /\ spent = {} /\ i = 0
    BY <1>0, <1>3 DEF Fly, Testing, CurrentHeld, SpentIsGone, IndexInRange
  <2>2. PICK n \in todo :
           LET b == update_bullet_position(bullets[n]) IN
           /\ todo' = todo \ {n}
           /\ IF Outside(b.pos)
              THEN Removed(n) /\ UNCHANGED <<bpc, current, still>>
              ELSE /\ bullets' = [bullets EXCEPT ![n] = b]
                   /\ current' = n
                   /\ still' = {c \in Slots : hpc[c] = "recv"}
                   /\ bpc' = "test"
                   /\ UNCHANGED spent
    BY <1>3 DEF Fly
  <2>3. n \in DOMAIN bullets /\ bullets[n] \in BulletSet
    BY <1>0 DEF TypeOK, BulletSet
  <2>4. CASE Outside(update_bullet_position(bullets[n]).pos)
    <3>1. /\ DOMAIN bullets' = DOMAIN bullets \ {n}
          /\ \A b \in DOMAIN bullets' : bullets'[b] \in BulletSet
      BY <1>0, <2>2, <2>4, RemovedType
    <3>2. todo' = todo \ {n} /\ spent' = {} /\ UNCHANGED <<bpc, current, still>>
      BY <2>1, <2>2, <2>4 DEF Removed
    <3>3. TypeOK'
      BY <1>0, <2>1, <3>1, <3>2 DEF TypeOK, BulletSet
    <3>. QED BY <1>1, <2>1, <3>2, <3>3 DEF IInv, Testing, CurrentHeld, SpentIsGone, NobodyAsked, IndexInRange
  <2>5. CASE ~Outside(update_bullet_position(bullets[n]).pos)
    <3>1. /\ bullets' = [bullets EXCEPT ![n] = update_bullet_position(bullets[n])]
          /\ todo' = todo \ {n} /\ current' = n
          /\ still' = {c \in Slots : hpc[c] = "recv"}
          /\ bpc' = "test" /\ UNCHANGED spent
      BY <2>2, <2>5
    <3>2. DOMAIN bullets' = DOMAIN bullets /\ \A b \in DOMAIN bullets' : bullets'[b] \in BulletSet
      BY <1>0, <2>3, <3>1, MovedType DEF TypeOK, BulletSet
    <3>3. TypeOK'
      BY <1>0, <2>1, <2>3, <3>1, <3>2 DEF TypeOK, BulletSet
    <3>4. collides' = "unset"
      BY <1>0, <2>1 DEF Testing, CurrentHeld
    <3>. QED BY <1>1, <2>1, <2>3, <3>1, <3>2, <3>3, <3>4 DEF IInv, Slots, Testing, CurrentHeld, SpentIsGone, NobodyAsked, IndexInRange
  <2>. QED BY <2>4, <2>5
<1>4. CASE Skip
  <2>1. /\ bpc = "test" /\ i \in Slots /\ i' = i + 1
        /\ i \notin Playing \/ i = bullets[current].shooter
        /\ UNCHANGED <<players, update, hpc, bullets, bpc, todo, current, collides, still, spent>>
    BY <1>4 DEF Skip, Skipped, Bullet
  <2>2. i' \in 0 .. MAX_CLIENTS
    BY <2>1 DEF Slots
  <2>3. TypeOK'
    BY <1>0, <2>1, <2>2 DEF TypeOK
  <2>4. NobodyAsked'
    BY <1>0, <2>1 DEF NobodyAsked, Playing, Slots
  <2>. QED BY <1>0, <2>1, <2>3, <2>4 DEF IInv, Testing, CurrentHeld, SpentIsGone, IndexInRange
<1>5. CASE Test
  <2>1. /\ bpc = "test" /\ i \in Slots
        /\ UNCHANGED <<players, update, hpc, bullets, todo, current, still>>
    BY <1>5 DEF Test
  <2>2. \/ /\ collides' = "yes" /\ spent' = spent \cup {current} /\ bpc' = "return" /\ UNCHANGED i
        \/ /\ collides' = "no" /\ i' = i + 1 /\ UNCHANGED <<bpc, spent>>
    BY <1>5 DEF Test
  <2>3. current \in DOMAIN bullets /\ spent = {}
    BY <1>0, <2>1 DEF Testing, CurrentHeld, SpentIsGone
  <2>4. i' \in 0 .. MAX_CLIENTS
    BY <1>1, <2>1, <2>2 DEF Slots
  <2>5. TypeOK'
    BY <1>0, <2>1, <2>2, <2>3, <2>4 DEF TypeOK
  <2>. QED BY <1>0, <2>1, <2>2, <2>3, <2>5 DEF IInv, Testing, CurrentHeld, SpentIsGone, NobodyAsked, IndexInRange
<1>6. CASE Dies
  <2>1. /\ Removed(current) /\ i' = 0 /\ collides' = "unset" /\ current' = Null /\ still' = {}
        /\ bpc' = "walk" /\ UNCHANGED <<players, update, hpc, todo>>
        /\ bpc \in {"test", "return"}
    BY <1>6 DEF Dies, NextBullet, Tested
  <2>2. /\ DOMAIN bullets' = DOMAIN bullets \ {current}
        /\ \A b \in DOMAIN bullets' : bullets'[b] \in BulletSet
    BY <1>0, <2>1, RemovedType
  <2>3. spent' = {} /\ current \notin todo
    BY <1>0, <2>1 DEF Removed, Testing, CurrentHeld, SpentIsGone
  <2>4. TypeOK'
    BY <1>0, <1>1, <2>1, <2>2, <2>3 DEF TypeOK, BulletSet
  <2>. QED BY <1>1, <2>1, <2>3, <2>4 DEF IInv, Testing, CurrentHeld, SpentIsGone, NobodyAsked, IndexInRange
<1>7. CASE Lives
  <2>1. /\ i' = 0 /\ collides' = "unset" /\ current' = Null /\ still' = {} /\ bpc' = "walk"
        /\ UNCHANGED <<players, update, hpc, todo, bullets, spent>>
        /\ collides # "yes" /\ bpc \in {"test", "return"}
    BY <1>7 DEF Lives, NextBullet, Tested
  <2>2. spent = {}
    BY <1>0, <2>1 DEF SpentIsGone
  <2>3. TypeOK'
    BY <1>0, <1>1, <2>1, <2>2 DEF TypeOK
  <2>. QED BY <1>1, <2>1, <2>2, <2>3 DEF IInv, Testing, CurrentHeld, SpentIsGone, NobodyAsked, IndexInRange
<1>8. CASE EndWalk
  BY <1>0, <1>1, <1>8 DEF EndWalk, walk, IInv, TypeOK, Testing, CurrentHeld, SpentIsGone, NobodyAsked, IndexInRange
<1>9. CASE Alive
  <2>1. /\ bpc = "death" /\ NextSlot /\ i \in Slots
        /\ UNCHANGED <<players, update, hpc, bullets, todo, current, collides, still, spent>>
    BY <1>0, <1>9 DEF Alive, IndexInRange
  <2>2. i' \in Slots /\ bpc' \in {"death", "update"} /\ (bpc' = "update" => i' = 0)
    BY <2>1, NextSlotFacts
  <2>3. TypeOK'
    BY <1>0, <1>1, <2>1, <2>2 DEF TypeOK
  <2>. QED BY <1>0, <2>1, <2>2, <2>3 DEF IInv, Testing, CurrentHeld, SpentIsGone, NobodyAsked, IndexInRange
<1>10. CASE KillX
  <2>1. /\ bpc = "death" /\ bpc' = "kill" /\ i \in Slots
        /\ players' = [players EXCEPT ![i].pos[1] = Dead[1]]
        /\ UNCHANGED <<update, hpc, bullets, walk>>
    BY <1>0, <1>10 DEF KillX, IndexInRange
  <2>2. players' \in [Slots -> Poses]
    BY <1>0, <2>1, HalfType
  <2>3. TypeOK'
    BY <1>0, <2>1, <2>2 DEF TypeOK, Poses, walk
  <2>. QED BY <1>0, <2>1, <2>3 DEF walk, IInv, Testing, CurrentHeld, SpentIsGone, NobodyAsked, IndexInRange
<1>11. CASE KillY
  <2>1. /\ bpc = "kill" /\ NextSlot /\ i \in Slots
        /\ players' = [players EXCEPT ![i].pos[2] = Dead[2]]
        /\ UNCHANGED <<update, hpc, bullets, todo, current, collides, still, spent>>
    BY <1>0, <1>11 DEF KillY, IndexInRange
  <2>2. players' \in [Slots -> Poses]
    BY <1>0, <2>1, HalfType
  <2>3. i' \in Slots /\ bpc' \in {"death", "update"} /\ (bpc' = "update" => i' = 0)
    BY <2>1, NextSlotFacts
  <2>4. TypeOK'
    BY <1>0, <1>1, <2>1, <2>2, <2>3 DEF TypeOK, Poses
  <2>. QED BY <1>0, <2>1, <2>3, <2>4 DEF IInv, Testing, CurrentHeld, SpentIsGone, NobodyAsked, IndexInRange
<1>. QED BY <1>2, <1>3, <1>4, <1>5, <1>6, <1>7, <1>8, <1>9, <1>10, <1>11 DEF BroadcastLoop
-----------------------------------------------------------------------------
(* What has been looked at.                                                *)

\* The current bullet has not passed the border.
InsideBorder == Testing => ~Outside(bullets[current].pos)

\* The ships that nobody has written to since lie still, and those that have been
\* asked about were not found to be hit.
AskedUnhit ==
    Testing => \A c \in still :
        /\ hpc[c] = "recv"
        /\ bpc = "test" /\ c < i /\ c # bullets[current].shooter =>
              ~sat_obb_collision_check(bbox(bullets[current]), otherBbox(players[c]))

Looked == InsideBorder /\ AskedUnhit

LEMMA HandlerLook ==
    ASSUME IInv, Looked, NEW c \in Slots, Handler(c)
    PROVE  Looked'
<1>1. UNCHANGED <<bpc, current, i>> /\ (Testing => UNCHANGED bullets)
  BY HandlerFacts DEF Testing, Walking
<1>2. Testing =>
          \A d \in still' : d \in still /\ hpc'[d] = hpc[d] /\ players'[d] = players[d]
  <2>. SUFFICES ASSUME Testing, NEW d \in still'
                PROVE  d \in still /\ hpc'[d] = hpc[d] /\ players'[d] = players[d]
    OBVIOUS
  <2>1. d \in still
    BY DEF Handler, Join, RecvUpdate, WriteBack, CleanSocket, CleanPlayer, walk
  <2>2. hpc[d] = "recv" /\ hpc \in [Slots -> {"out", "recv", "write", "clean_player"}]
        /\ players \in [Slots -> Poses]
    BY <2>1 DEF Looked, AskedUnhit, IInv, TypeOK, Poses
  <2>3. CASE Join(c) \/ CleanSocket(c)
    BY <2>3 DEF Join, CleanSocket, Testing, Walking
  <2>4. CASE RecvUpdate(c)
    BY <2>1, <2>2, <2>4 DEF RecvUpdate
  <2>5. CASE WriteBack(c)
    BY <2>1, <2>2, <2>5 DEF WriteBack
  <2>6. CASE CleanPlayer(c)
    BY <2>1, <2>2, <2>6 DEF CleanPlayer
  <2>. QED BY <2>1, <2>3, <2>4, <2>5, <2>6 DEF Handler
<1>. QED BY <1>1, <1>2 DEF Looked, InsideBorder, AskedUnhit, Testing

\* Of a ship that lies still one thing is seen.
LEMMA SeenStill ==
    ASSUME NEW c \in Slots, hpc[c] # "write", NEW hit \in Checks(c)
    PROVE  hit <=> sat_obb_collision_check(bbox(Bullet), otherBbox(players[c]))
BY DEF Checks, Seen

LEMMA BroadcastLook ==
    ASSUME IInv, Looked, BroadcastLoop
    PROVE  Looked'
<1>0. TypeOK
  BY DEF IInv
<1>1. CASE Fly
  <2>1. PICK n \in todo :
           LET b == update_bullet_position(bullets[n]) IN
           IF Outside(b.pos)
           THEN UNCHANGED bpc
           ELSE /\ bullets' = [bullets EXCEPT ![n] = b]
                /\ current' = n
                /\ still' = {c \in Slots : hpc[c] = "recv"}
                /\ bpc' = "test"
    BY <1>1 DEF Fly
  <2>2. bpc = "walk" /\ i = 0 /\ hpc' = hpc /\ i' = i
    BY <1>1 DEF Fly, IInv, IndexInRange
  <2>3. CASE Outside(update_bullet_position(bullets[n]).pos)
    BY <2>1, <2>2, <2>3 DEF Looked, InsideBorder, AskedUnhit, Testing
  <2>4. CASE ~Outside(update_bullet_position(bullets[n]).pos)
    <3>1. n \in DOMAIN bullets
      BY <1>0 DEF TypeOK
    <3>2. bullets'[current'] = update_bullet_position(bullets[n])
      BY <2>1, <2>4, <3>1
    <3>3. InsideBorder'
      BY <2>4, <3>2 DEF InsideBorder, Outside
    <3>4. AskedUnhit'
      BY <2>1, <2>2, <2>4 DEF AskedUnhit, Slots
    <3>. QED BY <3>3, <3>4 DEF Looked
  <2>. QED BY <2>3, <2>4
<1>2. CASE Skip
  <2>1. /\ bpc = "test" /\ i \in Slots /\ i' = i + 1 /\ Skipped
        /\ UNCHANGED <<players, hpc, bullets, bpc, current, still>>
    BY <1>2 DEF Skip
  <2>2. \A c \in still : c < i' => c < i \/ c = bullets[current].shooter
    <3>. SUFFICES ASSUME NEW c \in still, c < i', ~(c < i) PROVE c = bullets[current].shooter
      OBVIOUS
    <3>1. c = i
      BY <1>0, <2>1 DEF TypeOK, Slots
    <3>2. c \in Playing
      BY <1>0, <2>1 DEF TypeOK, Looked, AskedUnhit, Testing, Playing
    <3>. QED BY <2>1, <3>1, <3>2 DEF Skipped, Bullet
  <2>. QED BY <2>1, <2>2 DEF Looked, InsideBorder, AskedUnhit, Testing
<1>3. CASE Test
  <2>1. /\ bpc = "test" /\ i \in Slots
        /\ UNCHANGED <<players, hpc, bullets, current, still>>
    BY <1>3 DEF Test
  <2>2. PICK hit \in Checks(i) : IF hit THEN bpc' = "return" ELSE bpc' = "test" /\ i' = i + 1
    BY <1>3 DEF Test
  <2>3. InsideBorder'
    BY <2>1, <2>2 DEF Looked, InsideBorder, Testing
  <2>4. CASE hit
    BY <2>1, <2>2, <2>4, <2>3 DEF Looked, AskedUnhit, Testing
  <2>5. CASE ~hit
    <3>1. ASSUME NEW c \in still, c < i + 1, ~(c < i)
          PROVE  ~sat_obb_collision_check(bbox(bullets[current]), otherBbox(players[c]))
      <4>1. c = i
        BY <1>0, <2>1, <3>1 DEF TypeOK, Slots
      <4>2. hpc[i] # "write"
        BY <2>1, <4>1 DEF Looked, AskedUnhit, Testing
      <4>. QED BY <2>1, <2>5, <4>1, <4>2, SeenStill DEF Bullet
    <3>. QED BY <2>1, <2>2, <2>3, <2>5, <3>1 DEF Looked, AskedUnhit, Testing
  <2>. QED BY <2>4, <2>5
<1>4. CASE BeginWalk \/ Dies \/ Lives \/ EndWalk \/ Alive \/ KillX \/ KillY
  <2>1. bpc' \in {"update", "walk", "death", "kill"}
    BY <1>4 DEF BeginWalk, Dies, Lives, NextBullet, EndWalk, Alive, KillX, KillY, NextSlot
  <2>. QED BY <2>1 DEF Looked, InsideBorder, AskedUnhit, Testing
<1>. QED BY <1>1, <1>2, <1>3, <1>4 DEF BroadcastLoop

-----------------------------------------------------------------------------
(* The theorems.                                                           *)

LEMMA Start == Init => IInv
<1>. SUFFICES ASSUME Init PROVE IInv
  OBVIOUS
<1>1. 0 \in Slots /\ 0 \in 0 .. MAX_CLIENTS
  BY FlightAssumption DEF Slots
<1>2. players \in [Slots -> Poses]
  <2>1. \A p \in Places : Pose(Scaled(p), <<One, 0>>) \in Poses
    BY ScaledType, FlightAssumption DEF Pose, Poses
  <2>. QED BY <2>1 DEF Init
<1>3. update \in [Slots -> [pos : Positions \cup {<<0, 0>>}, rotation : Rotations \cup {<<One, 0>>}]]
  BY DEF Init, Still, Pose
<1>4. DOMAIN bullets = {}
  BY DEF Init
<1>5. TypeOK
  BY <1>1, <1>2, <1>3, <1>4 DEF Init, TypeOK, Poses
<1>6. CurrentHeld /\ SpentIsGone /\ NobodyAsked /\ IndexInRange
  BY <1>1 DEF Init, Testing, CurrentHeld, SpentIsGone, NobodyAsked, IndexInRange
<1>. QED BY <1>5, <1>6 DEF IInv

\* Whatever the handlers and the broadcast thread do: the types, which bullet the
\* walk is at, which has hit, and whom it has been asked about.
THEOREM Invariant == Spec => []IInv
<1>1. IInv /\ UNCHANGED vars => IInv'
  <2>. SUFFICES ASSUME IInv, UNCHANGED vars PROVE IInv'
    OBVIOUS
  <2>1. TypeOK'
    BY DEF vars, walk, IInv, TypeOK
  <2>. QED BY <2>1 DEF vars, walk, IInv, Testing, CurrentHeld, SpentIsGone, NobodyAsked, Playing, IndexInRange
<1>2. IInv /\ [Next]_vars => IInv'
  BY <1>1, HandlerStep, BroadcastStep DEF Next
<1>. QED BY Start, <1>2, PTL DEF Spec

\* Every variable keeps its type, whatever the ships do while they are looked at.
THEOREM TypeCorrect == Spec => []TypeOK
<1>1. IInv => TypeOK
  BY DEF IInv
<1>. QED BY Invariant, <1>1, PTL

\* However many ships a bullet's box touches, it damages one, and is never asked
\* about again.
THEOREM BulletsHitOnce == Spec => HitsOnce
<1>1. IInv /\ [Next]_vars => [Hit => current \notin spent]_vars
  BY DEF Hit, Test, IInv, SpentIsGone
<1>. QED BY Invariant, <1>1, PTL DEF Spec, HitsOnce

\* Away from the border only a hit ends a bullet's flight, or that there was
\* nobody to be asked: whatever `collides` was before, it is read in no other case.
THEOREM BulletsDieForAReason == Spec => GoneForAReason
<1>1. IInv /\ [Next]_vars => [Dies /\ current \notin spent => Playing \subseteq {Bullet.shooter}]_vars
  <2>. SUFFICES ASSUME IInv, Dies, current \notin spent PROVE Playing \subseteq {Bullet.shooter}
    OBVIOUS
  <2>1. bpc = "test" /\ i \notin Slots /\ collides # "no"
    BY DEF Dies, Tested, IInv, SpentIsGone
  <2>2. collides = "unset"
    BY <2>1 DEF IInv, TypeOK, SpentIsGone
  <2>3. \A c \in Slots : c < i
    BY <2>1, FlightAssumption DEF IInv, TypeOK, Slots
  <2>4. Playing \subseteq Slots
    BY DEF Playing
  <2>. QED BY <2>1, <2>2, <2>3, <2>4 DEF IInv, NobodyAsked, Bullet
<1>. QED BY Invariant, <1>1, PTL DEF Spec, GoneForAReason

\* A hit is on what the check finds of the ship, unless its record is being written.
LEMMA HitFacts ==
    ASSUME IInv, Hit, hpc[i] # "write"
    PROVE  /\ sat_obb_collision_check(bbox(Bullet), otherBbox(players[i]))
           /\ Bullet.pos \in Int \X Int /\ players[i] \in Poses
<1>1. /\ bpc = "test" /\ i \in Slots
      /\ \E hit \in Checks(i) : IF hit THEN TRUE ELSE collides' = "no"
      /\ collides' = "yes"
  BY DEF Hit, Test
<1>2. sat_obb_collision_check(bbox(Bullet), otherBbox(players[i]))
  BY <1>1, SeenStill
<1>3. Bullet.pos \in Int \X Int /\ players[i] \in Poses
  BY <1>1 DEF IInv, CurrentHeld, Testing, TypeOK, Bullet, Poses
<1>. QED BY <1>2, <1>3

LEMMA Looking == Spec => []Looked
<1>1. Init => Looked
  BY DEF Init, Looked, InsideBorder, AskedUnhit, Testing
<1>2. IInv /\ Looked /\ [Next]_vars => Looked'
  <2>1. IInv /\ Looked /\ UNCHANGED vars => Looked'
    BY DEF vars, walk, Looked, InsideBorder, AskedUnhit, Testing, Outside, bbox, otherBbox
  <2>. QED BY <2>1, HandlerLook, BroadcastLook DEF Next
<1>3. Looked /\ (IInv /\ [Next]_vars) => Looked'
  BY <1>2
<1>. QED BY Invariant, <1>1, <1>3, PTL DEF Spec

\* A bullet that is left flying touches no ship but its shooter's, of those that
\* lay still while it was tested, however ships and bullets are turned.
THEOREM ContactsAreFound == Spec => ContactIsFound
<1>1. IInv /\ Looked /\ [Next]_vars =>
          [Lives => \A c \in still \ {Bullet.shooter} :
                        ~Touch(bbox(Bullet), otherBbox(players[c]))]_vars
  <2>. SUFFICES ASSUME IInv, Looked, Lives, NEW c \in still \ {Bullet.shooter},
                       Touch(bbox(Bullet), otherBbox(players[c]))
                PROVE  FALSE
    OBVIOUS
  <2>1. TypeOK /\ CurrentHeld /\ SpentIsGone
    BY DEF IInv
  <2>2. bpc = "test" /\ i \notin Slots
    BY <2>1 DEF Lives, Tested, SpentIsGone
  <2>3. c \in Slots /\ c < i
    BY <2>1, <2>2, FlightAssumption DEF TypeOK, Slots
  <2>4. ~sat_obb_collision_check(bbox(Bullet), otherBbox(players[c]))
    BY <2>2, <2>3 DEF Looked, AskedUnhit, Testing, Bullet
  <2>5. Bullet.pos \in Int \X Int /\ players[c] \in Poses
    BY <2>1, <2>2, <2>3 DEF CurrentHeld, Testing, TypeOK, Bullet, Poses
  <2>. QED BY <2>4, <2>5, BulletCheck
<1>. QED BY Invariant, Looking, <1>1, PTL DEF Spec, ContactIsFound

\* What a bullet is found to hit it touches, if the ship lies along the axes.
THEOREM StraightHitsAreContacts == Spec => StraightHitsTouch
<1>1. IInv /\ [Next]_vars =>
          [Hit /\ hpc[i] # "write" /\ 0 \in {players[i].rotation[1], players[i].rotation[2]}
              => Touch(bbox(Bullet), otherBbox(players[i]))]_vars
  <2>. SUFFICES ASSUME IInv, Hit, hpc[i] # "write",
                       0 \in {players[i].rotation[1], players[i].rotation[2]}
                PROVE  Touch(bbox(Bullet), otherBbox(players[i]))
    OBVIOUS
  <2>1. /\ sat_obb_collision_check(bbox(Bullet), otherBbox(players[i]))
        /\ Bullet.pos \in Int \X Int /\ players[i] \in Poses
    BY HitFacts
  <2>. QED BY <2>1, BulletCheck
<1>. QED BY Invariant, <1>1, PTL DEF Spec, StraightHitsTouch

\* No ship in the place of the dead is hit, wherever a bullet was fired and however
\* the ship is turned: a bullet that could reach it has passed the border.
THEOREM DeadAreNotReached == Spec => DeadAreOutOfReach
<1>1. IInv /\ Looked /\ [Next]_vars =>
          [Hit /\ hpc[i] # "write" =>
              players[i].pos[1] # Dead[1] /\ players[i].pos[2] # Dead[2]]_vars
  <2>. SUFFICES ASSUME IInv, Looked, Hit, hpc[i] # "write"
                PROVE  players[i].pos[1] # Dead[1] /\ players[i].pos[2] # Dead[2]
    OBVIOUS
  <2>1. /\ sat_obb_collision_check(bbox(Bullet), otherBbox(players[i]))
        /\ Bullet.pos \in Int \X Int /\ players[i] \in Poses
    BY HitFacts
  <2>2. ~Outside(Bullet.pos)
    BY DEF Hit, Test, Looked, InsideBorder, Testing, Bullet
  <2>. QED BY <2>1, <2>2, DeadUnmet
<1>. QED BY Invariant, Looking, <1>1, PTL DEF Spec, DeadAreOutOfReach

=============================================================================
