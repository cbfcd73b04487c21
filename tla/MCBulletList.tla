---------------------------- MODULE MCBulletList ----------------------------
(* BulletList with a heap of a few nodes.                                    *)
EXTENDS BulletList, TLC

\* The addresses of nodes are not compared but for equality.
Symmetry == Permutations(Nodes)
=============================================================================
