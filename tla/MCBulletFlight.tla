--------------------------- MODULE MCBulletFlight ---------------------------
(* A small sea: half sizes, places and tolerance in units of six pixels.     *)
EXTENDS BulletFlight

MCRotations == {<<5, 0>>, <<3, 4>>}
MCPlaces    == {<<13, 6>>, <<13, 20>>}
MCSpawner   == <<13, 13>>
MCBullet    == <<2, 2>>
MCShip      == <<8, 5>>
MCDead      == <<-50, -50>>

\* No handler is between two steps while another is: they write different
\* players' records.
OneHandlerAtATime ==
    \E c \in Slots : \A d \in Slots \ {c} : hpc[d] \in {"recv", "out"}
=============================================================================
