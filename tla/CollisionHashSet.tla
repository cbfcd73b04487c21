-------------------------- MODULE CollisionHashSet --------------------------
(***************************************************************************)
(* The open-addressing hash table of src/common/hashset.c, in which        *)
(* check_collisions keeps the time of the last collision of each collision *)
(* byte.  Every caller holds players_mutex, so that a call is one step; its *)
(* probe loop is the search for the first place that stops it.             *)
(***************************************************************************)
EXTENDS Integers, FiniteSets

CONSTANTS
    MAX_HASHSET_SIZE,
    Keys,            \* collision bytes, unsigned chars
    Values,          \* times in seconds
    NoCollisionYet   \* 10000: "basic value if there has been no collisions yet"

ASSUME HashSetAssumption ==
    /\ MAX_HASHSET_SIZE \in Nat \ {0}
    /\ Keys \subseteq Nat /\ 0 \in Keys
    /\ Values \subseteq Int /\ 0 \in Values
    /\ NoCollisionYet \notin Values

VARIABLES
    keys, values, occupied, size,   \* the fields of CollisionHashSet
    asked, returned                 \* the key of the last call, and its result

vars == <<keys, values, occupied, size, asked, returned>>

Indices == 0 .. MAX_HASHSET_SIZE - 1

hash(key) == key % MAX_HASHSET_SIZE

\* The index looked at in the n-th turn of a probe loop.
Probe(key, n) == (hash(key) + n) % MAX_HASHSET_SIZE

Match(key, n) == LET i == Probe(key, n) IN occupied[i] /\ keys[i] = key

\* getHashsetValue passes over free places; putHashsetValue stops at one.
FirstMatch(key, n) == Match(key, n) /\ \A m \in 0 .. n - 1 : ~Match(key, m)

\* Mutation: a put takes any free place.
FirstHitAnywhere(key, n) == ~occupied[Probe(key, n)] \/ Match(key, n)

FirstHit(key, n) ==
    LET Hit(m) == ~occupied[Probe(key, m)] \/ Match(key, m)
    IN  Hit(n) /\ \A m \in 0 .. n - 1 : ~Hit(m)

\* Mutation: a get returns the place.
getPlace(key) ==
    /\ \/ \E n \in Indices : FirstMatch(key, n) /\ returned' = Probe(key, n)
       \/ (\A n \in Indices : ~Match(key, n)) /\ returned' = NoCollisionYet
    /\ asked' = key
    /\ UNCHANGED <<keys, values, occupied, size>>

getHashsetValue(key) ==
    /\ \/ \E n \in Indices : FirstMatch(key, n) /\ returned' = values[Probe(key, n)]
       \/ (\A n \in Indices : ~Match(key, n)) /\ returned' = NoCollisionYet
    /\ asked' = key
    /\ UNCHANGED <<keys, values, occupied, size>>

\* The table is full: refused before any key is looked at.
PutFull(key, value) ==
    /\ size >= MAX_HASHSET_SIZE
    /\ asked' = key /\ returned' = 0
    /\ UNCHANGED <<keys, values, occupied, size>>

\* Mutation: the size is not counted.
PutNewUncounted(key, value) ==
    /\ size < MAX_HASHSET_SIZE
    /\ \E n \in Indices :
          LET i == Probe(key, n) IN
          /\ FirstHit(key, n)
          /\ ~occupied[i]
          /\ keys' = [keys EXCEPT ![i] = key]
          /\ values' = [values EXCEPT ![i] = value]
          /\ occupied' = [occupied EXCEPT ![i] = TRUE]
    /\ asked' = key /\ returned' = 1
    /\ UNCHANGED size

PutNew(key, value) ==
    /\ size < MAX_HASHSET_SIZE
    /\ \E n \in Indices :
          LET i == Probe(key, n) IN
          /\ FirstHit(key, n)
          /\ ~occupied[i]
          /\ keys' = [keys EXCEPT ![i] = key]
          /\ values' = [values EXCEPT ![i] = value]
          /\ occupied' = [occupied EXCEPT ![i] = TRUE]
    /\ size' = size + 1
    /\ asked' = key /\ returned' = 1

PutAgain(key, value) ==
    /\ size < MAX_HASHSET_SIZE
    /\ \E n \in Indices :
          LET i == Probe(key, n) IN
          /\ FirstHit(key, n)
          /\ occupied[i]
          /\ values' = [values EXCEPT ![i] = value]
    /\ asked' = key /\ returned' = 1
    /\ UNCHANGED <<keys, occupied, size>>

putHashsetValue(key, value) ==
    PutFull(key, value) \/ PutNew(key, value) \/ PutAgain(key, value)

\* initHashSet; the table is a global, so that its keys and values are 0.
Init ==
    /\ keys = [i \in Indices |-> 0]
    /\ values = [i \in Indices |-> 0]
    /\ occupied = [i \in Indices |-> FALSE]
    /\ size = 0
    /\ asked = 0 /\ returned = 0

Next ==
    \/ \E k \in Keys : getHashsetValue(k)
    \/ \E k \in Keys, v \in Values : putHashsetValue(k, v)

Spec == Init /\ [][Next]_vars

-----------------------------------------------------------------------------
(* Properties.                                                             *)

\* Every variable has its type: a call returns what its caller can take.
TypeOK ==
    /\ keys \in [Indices -> Keys]
    /\ values \in [Indices -> Values]
    /\ occupied \in [Indices -> BOOLEAN]
    /\ size \in 0 .. MAX_HASHSET_SIZE
    /\ asked \in Keys
    /\ returned \in Values \cup {NoCollisionYet, 0, 1}

Taken == {i \in Indices : occupied[i]}

\* Below the limit a put finds its key or a free place: the probe loop never
\* comes round to where it began and the put is never refused for that.
PutFindsPlace ==
    size < MAX_HASHSET_SIZE => \A k \in Keys : \E n \in Indices : FirstHit(k, n)

\* The table implements the bounded map.
Contents ==
    [k \in Keys |-> IF \E i \in Taken : keys[i] = k
                    THEN values[CHOOSE i \in Taken : keys[i] = k]
                    ELSE NoCollisionYet]

Map == INSTANCE BoundedMap WITH
           Capacity <- MAX_HASHSET_SIZE, NoValue <- NoCollisionYet,
           map <- Contents, count <- size, result <- returned

ImplementsMap == Map!Spec
=============================================================================
