----------------------------- MODULE BoundedMap -----------------------------
(***************************************************************************)
(* What the table of collision times promises to check_collisions: a map   *)
(* from collision bytes to times that holds a bounded number of keys.  A   *)
(* key that has not been put reads as a time long past.  A full map takes  *)
(* no put at all, not even one that only renews the time of a key it has.  *)
(***************************************************************************)
EXTENDS Naturals

CONSTANTS
    Keys, Values,
    Capacity,      \* the keys it can hold
    NoValue        \* what a key that is absent reads as

VARIABLES
    map,           \* the time of each key, NoValue where there is none
    count,         \* the keys that have a time
    asked, result  \* the key of the last call, and what it returned

vars == <<map, count, asked, result>>

Get(k) ==
    /\ asked' = k /\ result' = map[k]
    /\ UNCHANGED <<map, count>>

Put(k, v) ==
    /\ count < Capacity
    /\ map' = [map EXCEPT ![k] = v]
    /\ count' = IF map[k] = NoValue THEN count + 1 ELSE count
    /\ asked' = k /\ result' = 1

PutRefused(k, v) ==
    /\ count >= Capacity
    /\ asked' = k /\ result' = 0
    /\ UNCHANGED <<map, count>>

Init ==
    /\ map = [k \in Keys |-> NoValue]
    /\ count = 0
    /\ asked \in Keys
    /\ result = 0

Next ==
    \/ \E k \in Keys : Get(k)
    \/ \E k \in Keys, v \in Values : Put(k, v) \/ PutRefused(k, v)

Spec == Init /\ [][Next]_vars
=============================================================================
