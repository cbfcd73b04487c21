------------------------- MODULE MCCollisionHashSet -------------------------
(* A table of three places and five keys: two pairs of keys collide, and     *)
(* two keys more than the table holds.                                       *)
EXTENDS CollisionHashSet

SmallKeys  == 0 .. 4
SmallTimes == {0, 7, 8}
=============================================================================
