--------------------------- MODULE MCPlayerSlots ---------------------------
(* PlayerSlots with more connections than slots.                           *)
EXTENDS PlayerSlots, TLC

\* The handlers differ in nothing but their connection.
Symmetry == Permutations(Conns)
=============================================================================
