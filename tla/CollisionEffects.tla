-------------------------- MODULE CollisionEffects --------------------------
(***************************************************************************)
(* What the client's queue of collisions promises to the drawing code: the *)
(* effects that are running, oldest first.  A new one is dropped when there *)
(* is no room; time ends those whose timer runs out and no others.         *)
(***************************************************************************)
EXTENDS Integers, Sequences, EffectTimers

CONSTANTS
    Kinds,       \* what an effect shows, and where
    AnimTime,    \* how long one runs
    Capacity,
    Deltas       \* the lengths of a frame

VARIABLE effects

Effect(k) == [kind |-> k, timer |-> AnimTime]

Add(k) == Len(effects) < Capacity /\ effects' = Append(effects, Effect(k))

Pass(d) == effects' = Later(effects, d)

Init == effects = <<>>

Next == (\E k \in Kinds : Add(k)) \/ (\E d \in Deltas : Pass(d))

Spec == Init /\ [][Next]_effects
=============================================================================
