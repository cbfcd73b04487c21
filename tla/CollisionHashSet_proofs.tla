---------------------- MODULE CollisionHashSet_proofs ----------------------
(***************************************************************************)
(* Proofs about CollisionHashSet, for a table of any size: it implements   *)
(* the bounded map.                                                        *)
(***************************************************************************)
EXTENDS CollisionHashSet, FiniteSetTheorems, WellFoundedInduction, TLAPS

SizeCounts == size = Cardinality(Taken)

\* No key is in the table twice: were it, a put could renew the one and a get
\* find the other, and a collision cooldown would never be seen to start.
KeysDistinct == \A i, j \in Taken : keys[i] = keys[j] => i = j

\* Every place between a key and its hash is taken: a put, which stops at the
\* first free place, cannot miss the key and enter it again.
ProbesUnbroken ==
    \A n \in Indices, k \in Keys :
        Match(k, n) => \A m \in 0 .. n - 1 : occupied[Probe(k, m)]

IInv ==
    /\ TypeOK
    /\ SizeCounts
    /\ KeysDistinct
    /\ ProbesUnbroken

-----------------------------------------------------------------------------
(* The probe sequence of a key visits each index once.                     *)

LEMMA ModRange ==
    ASSUME NEW a \in Nat, NEW m \in Nat \ {0}
    PROVE  a % m \in 0 .. m - 1
OBVIOUS

LEMMA ModSmall ==
    ASSUME NEW m \in Nat \ {0}, NEW a \in 0 .. m - 1
    PROVE  a % m = a /\ (a + m) % m = a
OBVIOUS

LEMMA ProbeIndex ==
    ASSUME NEW k \in Keys, NEW n \in Indices
    PROVE  /\ hash(k) \in Indices
           /\ Probe(k, n) = IF hash(k) + n < MAX_HASHSET_SIZE
                            THEN hash(k) + n ELSE hash(k) + n - MAX_HASHSET_SIZE
<1>1. hash(k) \in Indices
  BY HashSetAssumption, ModRange DEF hash, Indices
<1>2. CASE hash(k) + n < MAX_HASHSET_SIZE
  <2>1. hash(k) + n \in 0 .. MAX_HASHSET_SIZE - 1
    BY <1>1, <1>2, HashSetAssumption DEF Indices
  <2>. QED BY <1>1, <1>2, <2>1, HashSetAssumption, ModSmall DEF Probe
<1>3. CASE ~(hash(k) + n < MAX_HASHSET_SIZE)
  <2>1. hash(k) + n - MAX_HASHSET_SIZE \in 0 .. MAX_HASHSET_SIZE - 1
    BY <1>1, <1>3, HashSetAssumption DEF Indices
  <2>2. (hash(k) + n - MAX_HASHSET_SIZE) + MAX_HASHSET_SIZE = hash(k) + n
    BY <1>1, HashSetAssumption DEF Indices
  <2>3. (hash(k) + n) % MAX_HASHSET_SIZE = hash(k) + n - MAX_HASHSET_SIZE
    BY <2>1, <2>2, HashSetAssumption, ModSmall
  <2>. QED BY <1>1, <1>3, <2>3 DEF Probe
<1>. QED BY <1>2, <1>3

LEMMA ProbeRange ==
    ASSUME NEW k \in Keys, NEW n \in Indices
    PROVE  Probe(k, n) \in Indices
BY ProbeIndex, HashSetAssumption DEF Indices

LEMMA ProbeOnto ==
    ASSUME NEW k \in Keys, NEW i \in Indices
    PROVE  \E n \in Indices : Probe(k, n) = i
<1>1. hash(k) \in Indices
  BY HashSetAssumption, ModRange DEF hash, Indices
<1>. DEFINE n == IF hash(k) <= i THEN i - hash(k) ELSE i - hash(k) + MAX_HASHSET_SIZE
<1>2. n \in Indices
  BY <1>1, HashSetAssumption DEF Indices
<1>3. Probe(k, n) = i
  BY <1>1, <1>2, ProbeIndex, HashSetAssumption DEF Indices
<1>. QED BY <1>2, <1>3

LEMMA ProbeInjective ==
    ASSUME NEW k \in Keys, NEW m \in Indices, NEW n \in Indices, Probe(k, m) = Probe(k, n)
    PROVE  m = n
BY ProbeIndex, HashSetAssumption DEF Indices

-----------------------------------------------------------------------------
(* A put that stops at a free place has not passed over its key.           *)

LEMMA FreshKey ==
    ASSUME IInv, NEW k \in Keys, NEW n \in Indices, FirstHit(k, n), ~occupied[Probe(k, n)]
    PROVE  \A j \in Taken : keys[j] # k
<1>. SUFFICES ASSUME NEW j \in Taken, keys[j] = k PROVE FALSE
  OBVIOUS
<1>1. PICK m \in Indices : Probe(k, m) = j
  BY ProbeOnto DEF Taken
<1>2. Match(k, m)
  BY <1>1 DEF Match, Taken
<1>3. CASE m < n
  BY <1>2, <1>3 DEF FirstHit, Indices
<1>4. CASE n < m
  <2>1. n \in 0 .. m - 1
    BY <1>4, HashSetAssumption DEF Indices
  <2>. QED BY <1>2, <2>1 DEF IInv, ProbesUnbroken
<1>5. CASE m = n
  BY <1>1, <1>5 DEF Taken
<1>. QED BY <1>3, <1>4, <1>5, HashSetAssumption DEF Indices

LEMMA TakenFinite == IsFiniteSet(Taken) /\ Cardinality(Indices) = MAX_HASHSET_SIZE /\ IsFiniteSet(Indices)
<1>1. IsFiniteSet(Indices) /\ Cardinality(Indices) = MAX_HASHSET_SIZE
  BY FS_Interval, HashSetAssumption DEF Indices
<1>. QED BY <1>1, FS_Subset DEF Taken

-----------------------------------------------------------------------------
(* The invariant.                                                          *)

LEMMA InitIInv == Init => IInv
<1>. SUFFICES ASSUME Init PROVE IInv
  OBVIOUS
<1>1. Taken = {}
  BY DEF Init, Taken
<1>2. TypeOK
  BY HashSetAssumption DEF Init, TypeOK
<1>3. SizeCounts
  BY <1>1, FS_EmptySet DEF Init, SizeCounts
<1>4. KeysDistinct /\ ProbesUnbroken
  BY <1>1, ProbeRange DEF KeysDistinct, ProbesUnbroken, Match, Taken
<1>. QED BY <1>2, <1>3, <1>4 DEF IInv

\* What a put that enters a new key does, place by place.
LEMMA NewPlace ==
    ASSUME IInv, NEW k \in Keys, NEW v \in Values, PutNew(k, v)
    PROVE  \E n \in Indices :
              /\ FirstHit(k, n)
              /\ Probe(k, n) \in Indices \ Taken
              /\ keys' = [keys EXCEPT ![Probe(k, n)] = k]
              /\ values' = [values EXCEPT ![Probe(k, n)] = v]
              /\ Taken' = Taken \cup {Probe(k, n)}
              /\ \A j \in Taken : keys[j] # k
<1>1. PICK n \in Indices : /\ FirstHit(k, n)
                           /\ ~occupied[Probe(k, n)]
                           /\ keys' = [keys EXCEPT ![Probe(k, n)] = k]
                           /\ values' = [values EXCEPT ![Probe(k, n)] = v]
                           /\ occupied' = [occupied EXCEPT ![Probe(k, n)] = TRUE]
  BY DEF PutNew
<1>2. Probe(k, n) \in Indices \ Taken
  BY <1>1, ProbeRange DEF Taken
<1>3. Taken' = Taken \cup {Probe(k, n)}
  BY <1>1, <1>2 DEF Taken, IInv, TypeOK
<1>. QED BY <1>1, <1>2, <1>3, FreshKey

LEMMA PutNewStep ==
    ASSUME IInv, NEW k \in Keys, NEW v \in Values, PutNew(k, v)
    PROVE  IInv'
<1>1. PICK n \in Indices :
              /\ FirstHit(k, n)
              /\ Probe(k, n) \in Indices \ Taken
              /\ keys' = [keys EXCEPT ![Probe(k, n)] = k]
              /\ values' = [values EXCEPT ![Probe(k, n)] = v]
              /\ Taken' = Taken \cup {Probe(k, n)}
              /\ \A j \in Taken : keys[j] # k
  BY NewPlace
<1>. DEFINE i == Probe(k, n)
<1>2. TypeOK'
  <2>1. size' = size + 1 /\ asked' = k /\ returned' = 1 /\ size < MAX_HASHSET_SIZE
    BY DEF PutNew
  <2>2. occupied' \in [Indices -> BOOLEAN]
    BY DEF PutNew, IInv, TypeOK
  <2>3. keys' \in [Indices -> Keys] /\ values' \in [Indices -> Values]
    BY <1>1 DEF IInv, TypeOK
  <2>4. size' \in 0 .. MAX_HASHSET_SIZE
    BY <2>1, HashSetAssumption DEF IInv, TypeOK
  <2>. QED BY <2>1, <2>2, <2>3, <2>4 DEF TypeOK
<1>3. SizeCounts'
  <2>1. Cardinality(Taken \cup {i}) = Cardinality(Taken) + 1
    BY <1>1, TakenFinite, FS_AddElement
  <2>. QED BY <1>1, <2>1 DEF SizeCounts, IInv, PutNew
<1>4. KeysDistinct'
  <2>1. ASSUME NEW a \in Taken', NEW b \in Taken', keys'[a] = keys'[b]
        PROVE  a = b
    <3>1. \A j \in Taken : keys'[j] = keys[j] /\ keys[j] # k
      BY <1>1 DEF IInv, TypeOK, Taken
    <3>2. keys'[i] = k
      BY <1>1 DEF IInv, TypeOK
    <3>. QED BY <1>1, <2>1, <3>1, <3>2 DEF IInv, KeysDistinct
  <2>. QED BY <2>1 DEF KeysDistinct
<1>5. ProbesUnbroken'
  <2>1. ASSUME NEW m \in Indices, NEW l \in Keys, Match(l, m)', NEW e \in 0 .. m - 1
        PROVE  Probe(l, e) \in Taken'
    <3>0. e \in Indices /\ Probe(l, e) \in Indices /\ Probe(l, m) \in Indices
      BY ProbeRange, HashSetAssumption DEF Indices
    <3>1. Probe(l, m) \in Taken' /\ keys'[Probe(l, m)] = l
      BY <2>1, <3>0 DEF Match, Taken, Probe, hash
    <3>2. CASE Probe(l, m) # i
      <4>1. Match(l, m)
        BY <1>1, <3>1, <3>2 DEF Match, Taken, IInv, TypeOK
      <4>. QED BY <1>1, <3>0, <4>1 DEF IInv, ProbesUnbroken, Taken
    <3>3. CASE Probe(l, m) = i
      <4>1. l = k
        BY <1>1, <3>0, <3>1, <3>3 DEF IInv, TypeOK
      <4>2. m = n
        BY <3>3, <4>1, ProbeInjective
      <4>3. occupied[Probe(k, e)]
        BY <1>1, <4>2 DEF FirstHit, Match
      <4>. QED BY <1>1, <3>0, <4>1, <4>3 DEF Taken
    <3>. QED BY <3>2, <3>3
  <2>2. ASSUME NEW m \in Indices, NEW l \in Keys, Match(l, m)', NEW e \in 0 .. m - 1
        PROVE  occupied'[Probe(l, e)]
    BY <2>1, <2>2 DEF Taken
  <2>. QED BY <2>2 DEF ProbesUnbroken, Probe, hash, Indices
<1>. QED BY <1>2, <1>3, <1>4, <1>5 DEF IInv

LEMMA OtherSteps ==
    ASSUME IInv, NEW k \in Keys, NEW v \in Values,
           \/ getHashsetValue(k) \/ PutFull(k, v) \/ PutAgain(k, v) \/ UNCHANGED vars
    PROVE  IInv'
<1>1. UNCHANGED <<keys, occupied, size>>
  BY DEF getHashsetValue, PutFull, PutAgain, vars
<1>2. Taken' = Taken
  BY <1>1 DEF Taken
<1>3. TypeOK'
  <2>1. CASE getHashsetValue(k)
    BY <1>1, <2>1, ProbeRange DEF getHashsetValue, IInv, TypeOK
  <2>2. CASE PutFull(k, v)
    BY <1>1, <2>2 DEF PutFull, IInv, TypeOK
  <2>3. CASE PutAgain(k, v)
    BY <1>1, <2>3, ProbeRange DEF PutAgain, IInv, TypeOK
  <2>4. CASE UNCHANGED vars
    BY <2>4 DEF vars, IInv, TypeOK
  <2>. QED BY <2>1, <2>2, <2>3, <2>4
<1>4. SizeCounts' /\ KeysDistinct' /\ ProbesUnbroken'
  BY <1>1, <1>2 DEF IInv, SizeCounts, KeysDistinct, ProbesUnbroken, Match, Probe, hash, Indices
<1>. QED BY <1>3, <1>4 DEF IInv

\* Every get and every put keeps the types, the size, the distinct keys and the
\* unbroken probe sequences.
THEOREM Invariant == Spec => []IInv
<1>1. IInv /\ [Next]_vars => IInv'
  BY PutNewStep, OtherSteps, HashSetAssumption DEF Next, putHashsetValue
<1>. QED BY InitIInv, <1>1, PTL DEF Spec

-----------------------------------------------------------------------------
(* The theorems.                                                           *)

\* The probe loop of a put meets its key or a free place before it comes round.
LEMMA HitExists ==
    ASSUME IInv, size < MAX_HASHSET_SIZE, NEW k \in Keys
    PROVE  \E n \in Indices : FirstHit(k, n)
<1>. DEFINE Hits == {n \in Indices : ~occupied[Probe(k, n)] \/ Match(k, n)}
<1>1. PICK i \in Indices : ~occupied[i]
  <2>1. Taken # Indices
    BY TakenFinite, HashSetAssumption DEF IInv, TypeOK, SizeCounts
  <2>. QED BY <2>1 DEF Taken, IInv, TypeOK
<1>2. Hits # {}
  BY <1>1, ProbeOnto
<1>3. PICK n \in Hits : \A m \in Hits : ~(<<m, n>> \in OpToRel(<, Nat))
  <2>1. Hits \subseteq Nat
    BY HashSetAssumption DEF Indices
  <2>. QED BY <1>2, <2>1, WFMin, NatLessThanWellFounded
<1>4. \A m \in 0 .. n - 1 : m \notin Hits
  <2>. SUFFICES ASSUME NEW m \in 0 .. n - 1, m \in Hits PROVE FALSE
    OBVIOUS
  <2>1. n \in Nat /\ m \in Nat /\ m < n
    BY HashSetAssumption DEF Indices
  <2>2. <<m, n>> \in OpToRel(<, Nat)
    BY <2>1 DEF OpToRel
  <2>. QED BY <1>3, <2>2
<1>5. \A m \in 0 .. n - 1 : m \in Indices
  BY HashSetAssumption DEF Indices
<1>. QED BY <1>4, <1>5 DEF FirstHit

\* Below the limit no put fails, for a table of any size.
THEOREM PutsFindPlaces == Spec => []PutFindsPlace
<1>1. IInv => PutFindsPlace
  BY HitExists DEF PutFindsPlace
<1>. QED BY Invariant, <1>1, PTL

\* No collision byte is in the table twice.
THEOREM KeysAreDistinct == Spec => []KeysDistinct
<1>1. IInv => KeysDistinct
  BY DEF IInv
<1>. QED BY Invariant, <1>1, PTL

LEMMA ContentsAt ==
    ASSUME KeysDistinct
    PROVE  /\ \A i \in Taken : keys[i] \in Keys => Contents[keys[i]] = values[i]
           /\ \A k \in Keys : (\A i \in Taken : keys[i] # k) => Contents[k] = NoCollisionYet
<1>1. ASSUME NEW i \in Taken, keys[i] \in Keys
      PROVE  Contents[keys[i]] = values[i]
  <2>1. \A j \in Taken : keys[j] = keys[i] => j = i
    BY DEF KeysDistinct
  <2>2. (CHOOSE j \in Taken : keys[j] = keys[i]) = i
    BY <2>1
  <2>. QED BY <1>1, <2>2 DEF Contents
<1>. QED BY <1>1 DEF Contents

LEMMA GetImplements ==
    ASSUME IInv, NEW k \in Keys, getHashsetValue(k)
    PROVE  Map!Get(k)
<1>1. Contents' = Contents /\ size' = size /\ asked' = k
  BY DEF getHashsetValue, Contents, Taken
<1>2. CASE \E n \in Indices : FirstMatch(k, n) /\ returned' = values[Probe(k, n)]
  <2>1. PICK n \in Indices : Match(k, n) /\ returned' = values[Probe(k, n)]
    BY <1>2 DEF FirstMatch
  <2>2. Probe(k, n) \in Taken /\ keys[Probe(k, n)] = k
    BY <2>1, ProbeRange DEF Match, Taken
  <2>. QED BY <1>1, <2>1, <2>2, ContentsAt DEF IInv, Map!Get
<1>3. CASE (\A n \in Indices : ~Match(k, n)) /\ returned' = NoCollisionYet
  <2>1. \A i \in Taken : keys[i] # k
    BY <1>3, ProbeOnto DEF Match, Taken
  <2>. QED BY <1>1, <1>3, <2>1, ContentsAt DEF IInv, Map!Get
<1>. QED BY <1>2, <1>3 DEF getHashsetValue

LEMMA PutNewImplements ==
    ASSUME IInv, NEW k \in Keys, NEW v \in Values, PutNew(k, v)
    PROVE  Map!Put(k, v)
<1>1. PICK n \in Indices :
              /\ Probe(k, n) \in Indices \ Taken
              /\ keys' = [keys EXCEPT ![Probe(k, n)] = k]
              /\ values' = [values EXCEPT ![Probe(k, n)] = v]
              /\ Taken' = Taken \cup {Probe(k, n)}
              /\ \A j \in Taken : keys[j] # k
  BY NewPlace
<1>2. KeysDistinct'
  BY PutNewStep DEF IInv
<1>3. Contents[k] = NoCollisionYet
  BY <1>1, ContentsAt DEF IInv
<1>. DEFINE i == Probe(k, n)
<1>4. keys'[i] = k /\ values'[i] = v
  BY <1>1 DEF IInv, TypeOK
<1>5. \A j \in Taken : keys'[j] = keys[j] /\ values'[j] = values[j] /\ keys[j] \in Keys
  BY <1>1 DEF IInv, TypeOK, Taken
<1>6. ASSUME NEW l \in Keys
      PROVE  Contents'[l] = IF l = k THEN v ELSE Contents[l]
  <2>1. (CHOOSE j \in Taken' : keys'[j] = k) = i
    <3>1. \A j \in Taken' : keys'[j] = k => j = i
      BY <1>1, <1>4, <1>5
    <3>. QED BY <1>1, <1>4, <3>1
  <2>2. CASE l = k
    <3>1. \E j \in Taken' : keys'[j] = k
      BY <1>1, <1>4
    <3>. QED BY <1>4, <2>1, <2>2, <3>1 DEF Contents
  <2>3. CASE l # k
    <3>1. CASE \E j \in Taken : keys[j] = l
      <4>1. PICK j \in Taken : keys[j] = l
        BY <3>1
      <4>2. \A e \in Taken' : keys'[e] = l => e = j
        BY <1>1, <1>4, <1>5, <2>3, <4>1 DEF IInv, KeysDistinct
      <4>3. (CHOOSE e \in Taken' : keys'[e] = l) = j
        BY <1>1, <1>5, <4>1, <4>2
      <4>4. Contents'[l] = values'[j]
        BY <1>1, <1>5, <4>1, <4>3 DEF Contents
      <4>. QED BY <1>5, <2>3, <4>1, <4>4, ContentsAt DEF IInv
    <3>2. CASE \A j \in Taken : keys[j] # l
      <4>1. \A j \in Taken' : keys'[j] # l
        BY <1>1, <1>4, <1>5, <2>3, <3>2
      <4>2. Contents'[l] = NoCollisionYet
        BY <4>1 DEF Contents
      <4>. QED BY <2>3, <3>2, <4>2, ContentsAt DEF IInv
    <3>. QED BY <3>1, <3>2
  <2>. QED BY <2>2, <2>3
<1>7. Contents' = [Contents EXCEPT ![k] = v]
  BY <1>6 DEF Contents
<1>. QED BY <1>3, <1>7 DEF PutNew, Map!Put

LEMMA PutAgainImplements ==
    ASSUME IInv, NEW k \in Keys, NEW v \in Values, PutAgain(k, v)
    PROVE  Map!Put(k, v)
<1>1. PICK n \in Indices : FirstHit(k, n) /\ occupied[Probe(k, n)]
                           /\ values' = [values EXCEPT ![Probe(k, n)] = v]
  BY DEF PutAgain
<1>. DEFINE i == Probe(k, n)
<1>2. i \in Taken /\ keys[i] = k
  BY <1>1, ProbeRange DEF FirstHit, Match, Taken
<1>3. UNCHANGED <<keys, occupied, size>> /\ Taken' = Taken
  BY DEF PutAgain, Taken
<1>4. Contents[k] # NoCollisionYet
  <2>1. Contents[k] = values[i]
    BY <1>2, ContentsAt DEF IInv
  <2>. QED BY <1>2, <2>1, HashSetAssumption DEF IInv, TypeOK, Taken
<1>5. ASSUME NEW l \in Keys
      PROVE  Contents'[l] = IF l = k THEN v ELSE Contents[l]
  <2>1. CASE \A j \in Taken : keys[j] # l
    <3>1. l # k /\ Contents'[l] = NoCollisionYet
      BY <1>2, <1>3, <2>1 DEF Contents
    <3>. QED BY <2>1, <3>1, ContentsAt DEF IInv
  <2>2. CASE \E j \in Taken : keys[j] = l
    <3>1. PICK j \in Taken : keys[j] = l
      BY <2>2
    <3>2. (CHOOSE e \in Taken : keys[e] = l) = j
      BY <3>1 DEF IInv, KeysDistinct
    <3>3. Contents'[l] = values'[j] /\ Contents[l] = values[j]
      BY <1>3, <3>1, <3>2 DEF Contents
    <3>4. l = k <=> j = i
      BY <1>2, <3>1 DEF IInv, KeysDistinct
    <3>. QED BY <1>1, <1>2, <3>1, <3>3, <3>4 DEF IInv, TypeOK, Taken
  <2>. QED BY <2>1, <2>2
<1>6. Contents' = [Contents EXCEPT ![k] = v]
  BY <1>5 DEF Contents
<1>. QED BY <1>3, <1>4, <1>6 DEF PutAgain, Map!Put

\* The table, with its probing, is the bounded map that check_collisions relies on.
THEOREM Implements == Spec => ImplementsMap
<1>1. Init => Map!Init
  <2>1. Init => Taken = {}
    BY DEF Init, Taken
  <2>. QED BY <2>1, HashSetAssumption DEF Init, Map!Init, Contents
<1>2. IInv /\ [Next]_vars => [Map!Next]_(Map!vars)
  <2>. SUFFICES ASSUME IInv, [Next]_vars PROVE Map!Next \/ UNCHANGED Map!vars
    OBVIOUS
  <2>1. ASSUME NEW k \in Keys, getHashsetValue(k) PROVE Map!Next
    BY <2>1, GetImplements DEF Map!Next
  <2>2. ASSUME NEW k \in Keys, NEW v \in Values, putHashsetValue(k, v) PROVE Map!Next
    <3>1. CASE PutFull(k, v)
      <4>1. Map!PutRefused(k, v)
        BY <3>1 DEF PutFull, Map!PutRefused, Contents, Taken
      <4>. QED BY <4>1 DEF Map!Next
    <3>2. CASE PutNew(k, v)
      BY <3>2, PutNewImplements DEF Map!Next
    <3>3. CASE PutAgain(k, v)
      BY <3>3, PutAgainImplements DEF Map!Next
    <3>. QED BY <2>2, <3>1, <3>2, <3>3 DEF putHashsetValue
  <2>3. CASE UNCHANGED vars
    BY <2>3 DEF vars, Map!vars, Contents, Taken
  <2>. QED BY <2>1, <2>2, <2>3 DEF Next
<1>. QED BY Invariant, <1>1, <1>2, PTL DEF Spec, ImplementsMap, Map!Spec

\* The places and values of the table have their types, whatever its size.
THEOREM TypeCorrect == Spec => []TypeOK
<1>1. IInv => TypeOK
  BY DEF IInv
<1>. QED BY Invariant, <1>1, PTL

\* Every key in the table is reached by its probes over taken places only, so
\* that a lookup that stops at the first free place has missed nothing.
THEOREM ProbesAreUnbroken == Spec => []ProbesUnbroken
<1>1. IInv => ProbesUnbroken
  BY DEF IInv
<1>. QED BY Invariant, <1>1, PTL
=============================================================================
