------------------------------ MODULE MCCombat ------------------------------
(* Combat between two ships.                                                 *)
EXTENDS Combat

\* A respawn sets hit points only.  A run that does not count them leaves it out.
NobodyRespawns == respawned = {}

\* The handlers share only players_mutex and write different players' records.
OneUpdateAtATime == Cardinality({c \in Slots : hpc[c] # "recv"}) <= 1
=============================================================================
