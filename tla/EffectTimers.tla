---------------------------- MODULE EffectTimers ----------------------------
(* The passing of time over a list of timed effects.                       *)
EXTENDS Integers, Sequences

\* What there is of an effect d later: nothing once its timer has run out.
Rest(e, d) == IF e.timer > d THEN <<[e EXCEPT !.timer = @ - d]>> ELSE <<>>

\* The effects of s that are still running d later, in their order.
Later(s, d) ==
    LET Last[k \in 0 .. Len(s)] ==     \* those of the last k
            IF k = 0 THEN <<>> ELSE Rest(s[Len(s) - k + 1], d) \o Last[k - 1]
    IN  Last[Len(s)]
=============================================================================
