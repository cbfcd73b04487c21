---------------------------- MODULE Combat_proofs ----------------------------
(***************************************************************************)
(* What holds of hit points and collisions for any number of players.      *)
(***************************************************************************)
EXTENDS Combat, FiniteSetTheorems, TLAPS

Checking == bpc \in {"turn", "strike_j", "load_i", "strike_i"}
Striking == bpc \in {"strike_j", "load_i", "strike_i"}

\* Only the two nested loops leave i behind the last slot.
AtSlot == bpc # "turn" => i \in Slots

\* The holder of players_mutex, as its place says.
MutexHeld ==
    /\ \A c \in Slots : hpc[c] = "write" <=> players_mutex = c
    /\ Checking <=> players_mutex = Broadcast

\* What a handler or the broadcast thread has read and will store.
Bounded ==
    /\ reg_hp <= INITIAL_PLAYER_HP
    /\ \A c \in Slots : update_hp[c] <= INITIAL_PLAYER_HP

\* It is no more than has been shown, or the player has respawned since; and at
\* the broadcast it is no more than is shown then.
Pending ==
    /\ \A c \in Slots : hpc[c] = "write" =>
          /\ c \in respawned \/ update_hp[c] <= shown_hp[c]
          /\ bpc = "players" => update_hp[c] <= hp[c]
    /\ bpc \in {"hit_hp", "strike_i"} => i \in respawned \/ reg_hp <= shown_hp[i]
    /\ bpc = "strike_j" => j \in respawned \/ reg_hp <= shown_hp[j]

\* Two ships that have damaged each other are in each other's bytes, and those
\* about to are not.
Marked ==
    /\ Checking => \A c, d \in Slots : {c, d} \in struck =>
                        d \in collision_byte[c] /\ c \in collision_byte[d]
    /\ Striking => /\ i # j
                   /\ j \notin collision_byte[i]
                   /\ j \in collisionMatrix

\* A byte that began a cooldown is in the table for as long as it lasts, and those
\* of the ships about to damage each other are not, or no longer.
Cooling ==
    /\ \A c, d \in Slots : c # d /\ since[{c, d}] <= Cooldown /\ <<c, d>> \notin lapsed =>
          /\ {d} \in DOMAIN age
          /\ age[{d}] <= since[{c, d}]
    /\ Striking => AgeOf(collisionMatrix) > Cooldown

IInv == TypeOK /\ AtSlot /\ MutexHeld /\ Bounded /\ Pending /\ ShownDamageStays /\ Marked

-----------------------------------------------------------------------------

LEMMA SlotFacts ==
    /\ 0 \in Slots
    /\ \A s \in Slots : s \in 0 .. MAX_CLIENTS /\ s + 1 \in 0 .. MAX_CLIENTS
    /\ \A s \in 0 .. MAX_CLIENTS : s = MAX_CLIENTS \/ s \in Slots
    /\ Broadcast \notin Slots /\ Nobody \notin Slots /\ Nobody # Broadcast
BY CombatAssumption DEF Slots

LEMMA NextTurnType ==
    ASSUME TypeOK, i \in Slots, NEW m \in SUBSET Slots, NextTurn(m)
    PROVE  i' \in 0 .. MAX_CLIENTS /\ j' \in Slots /\ collisionMatrix' \subseteq Slots
BY SlotFacts DEF TypeOK, NextTurn

\* A put makes no key older and takes none out, and has the key in unless the
\* table is full.
LEMMA PutFacts ==
    ASSUME NEW a, \A x \in DOMAIN a : a[x] \in 0 .. Cooldown + 1, NEW key
    PROVE  /\ \A x \in DOMAIN a : x \in DOMAIN Put(a, key) /\ Put(a, key)[x] <= a[x]
           /\ Full(a) => Put(a, key) = a
           /\ ~Full(a) => key \in DOMAIN Put(a, key) /\ Put(a, key)[key] = 0
BY CombatAssumption DEF Put

LEMMA PutType ==
    ASSUME NEW a, DOMAIN a \subseteq SUBSET Bits,
           \A x \in DOMAIN a : a[x] \in 0 .. Cooldown + 1,
           NEW key \in SUBSET Bits
    PROVE  /\ DOMAIN Put(a, key) \subseteq SUBSET Bits
           /\ \A x \in DOMAIN Put(a, key) : Put(a, key)[x] \in 0 .. Cooldown + 1
BY CombatAssumption DEF Put

\* Pairs of slots are equal only when they have the same slots.
LEMMA PairEqual ==
    ASSUME NEW a, NEW b, NEW c, NEW d, {a, b} = {c, d}
    PROVE  (a = c /\ b = d) \/ (a = d /\ b = c)
OBVIOUS

LEMMA PairIsShips ==
    ASSUME NEW c \in Slots, NEW d \in Slots, c # d
    PROVE  {c, d} \in Ships
<1>1. IsFiniteSet({c}) /\ Cardinality({c}) = 1
  BY FS_Singleton
<1>2. Cardinality({c} \cup {d}) = 1 + 1
  BY <1>1, FS_AddElement
<1>3. {c} \cup {d} = {c, d}
  OBVIOUS
<1>. QED BY <1>2, <1>3 DEF Ships

LEMMA Start == Init => IInv
BY CombatAssumption, SlotFacts DEF Init, IInv, TypeOK, AtSlot, MutexHeld, Bounded, Pending,
    ShownDamageStays, Marked, Checking, Striking, Bits

LEMMA Step == IInv /\ [Next]_vars => IInv'
<1>. SUFFICES ASSUME IInv, [Next]_vars PROVE IInv'
  OBVIOUS
<1>. USE CombatAssumption, SlotFacts DEF globals, locals, regs, handlers, shown, ledger, Goto, Checking, Striking
<1>1. ASSUME NEW c \in Slots, RecvUpdate(c) PROVE IInv'
  BY <1>1 DEF RecvUpdate, IInv, TypeOK, AtSlot, MutexHeld, Bounded,
      Pending, ShownDamageStays, Marked
<1>2. ASSUME NEW c \in Slots, ReadHp(c) PROVE IInv'
  BY <1>2 DEF ReadHp, IInv, TypeOK, AtSlot, MutexHeld, Bounded,
      Pending, ShownDamageStays, Marked
<1>3. ASSUME NEW c \in Slots, WriteBack(c) PROVE IInv'
  BY <1>3 DEF WriteBack, IInv, TypeOK, AtSlot, MutexHeld, Bounded,
      Pending, ShownDamageStays, Marked
<1>4. ASSUME Pass PROVE IInv'
  <2>1. \A n \in 0 .. Cooldown + 1 : Older(n) \in 0 .. Cooldown + 1
    BY DEF Older
  <2>2. age' = [x \in DOMAIN age |-> Older(age[x])] /\ DOMAIN age' = DOMAIN age
    BY <1>4 DEF Pass
  <2>3. \A x \in DOMAIN age' : age'[x] \in 0 .. Cooldown + 1
    BY <2>1, <2>2 DEF IInv, TypeOK
  <2>4. since' \in [Ships -> 0 .. Cooldown + 1]
    BY <1>4, <2>1 DEF Pass, IInv, TypeOK
  <2>5. lapsed' \subseteq Slots \X Slots
    BY <1>4 DEF Pass, IInv, TypeOK
  <2>. QED BY <1>4, <2>2, <2>3, <2>4, <2>5 DEF Pass, IInv, TypeOK, AtSlot, MutexHeld, Bounded,
      Pending, ShownDamageStays, Marked
<1>5. ASSUME ClearLoad PROVE IInv'
  BY <1>5 DEF ClearLoad, IInv, TypeOK, AtSlot, MutexHeld, Bounded,
      Pending, ShownDamageStays, Marked
<1>6. ASSUME ClearStore PROVE IInv'
  BY <1>6 DEF ClearStore, IInv, TypeOK, AtSlot, MutexHeld, Bounded,
      Pending, ShownDamageStays, Marked
<1>7. ASSUME Hit PROVE IInv'
  BY <1>7 DEF Hit, IInv, TypeOK, AtSlot, MutexHeld, Bounded,
      Pending, ShownDamageStays, Marked
<1>8. ASSUME HitHp PROVE IInv'
  BY <1>8 DEF HitHp, IInv, TypeOK, AtSlot, MutexHeld, Bounded,
      Pending, ShownDamageStays, Marked
<1>9. ASSUME HitLoad PROVE IInv'
  BY <1>9 DEF HitLoad, IInv, TypeOK, AtSlot, MutexHeld, Bounded,
      Pending, ShownDamageStays, Marked
<1>10. ASSUME HitByte PROVE IInv'
  BY <1>10 DEF HitByte, Bits, IInv, TypeOK, AtSlot, MutexHeld, Bounded,
      Pending, ShownDamageStays, Marked
<1>11. ASSUME BulletsDone PROVE IInv'
  BY <1>11 DEF BulletsDone, IInv, TypeOK, AtSlot, MutexHeld, Bounded,
      Pending, ShownDamageStays, Marked
<1>12. ASSUME BeginCheck PROVE IInv'
  BY <1>12 DEF BeginCheck, IInv, TypeOK, AtSlot, MutexHeld, Bounded,
      Pending, ShownDamageStays, Marked
<1>13. ASSUME Skip PROVE IInv'
  <2>1. i' \in 0 .. MAX_CLIENTS /\ j' \in Slots /\ collisionMatrix' \subseteq Slots
    BY <1>13, NextTurnType DEF Skip, IInv, TypeOK
  <2>. QED BY <1>13, <2>1 DEF Skip, IInv, TypeOK, AtSlot, MutexHeld, Bounded,
      Pending, ShownDamageStays, Marked
<1>14. ASSUME Apart \/ TooSoon PROVE IInv'
  <2>1. collisionMatrix \in SUBSET Slots /\ Matrix \in SUBSET Slots
    BY DEF Matrix, IInv, TypeOK
  <2>2. i' \in 0 .. MAX_CLIENTS /\ j' \in Slots /\ collisionMatrix' \subseteq Slots
    BY <1>14, <2>1, NextTurnType DEF Apart, TooSoon, IInv
  <2>. QED BY <1>14, <2>2 DEF Apart, TooSoon, IInv, TypeOK, AtSlot, MutexHeld, Bounded,
      Pending, ShownDamageStays, Marked
<1>15. ASSUME Collision PROVE IInv'
  <2>1. Matrix \in SUBSET Slots
    BY DEF Matrix, IInv, TypeOK
  <2>2. i # j /\ j \notin collision_byte[i] /\ j \in Matrix
    BY <1>15 DEF Collision, Registered, Matrix
  <2>. QED BY <1>15, <2>1, <2>2 DEF Collision, IInv, TypeOK, AtSlot, MutexHeld, Bounded,
      Pending, ShownDamageStays, Marked
<1>16. ASSUME StrikeJ PROVE IInv'
  BY <1>16 DEF StrikeJ, IInv, TypeOK, AtSlot, MutexHeld, Bounded,
      Pending, ShownDamageStays, Marked
<1>17. ASSUME LoadI PROVE IInv'
  BY <1>17 DEF LoadI, IInv, TypeOK, AtSlot, MutexHeld, Bounded,
      Pending, ShownDamageStays, Marked
<1>18. ASSUME StrikeI PROVE IInv'
  <2>. DEFINE byte_i == collision_byte[i] \cup collisionMatrix
              byte_j == collision_byte[j] \cup {i}
              once   == Put(age, byte_i)
  <2>1. byte_i \in SUBSET Bits /\ byte_j \in SUBSET Bits /\ i \in Slots /\ j \in Slots
    BY <1>18 DEF StrikeI, IInv, TypeOK, AtSlot, MutexHeld, Bounded, Pending, ShownDamageStays, Marked, Bits
  <2>2. {i, j} \in Ships /\ i # j
    BY <1>18, <2>1, PairIsShips DEF StrikeI, IInv, Marked
  <2>3. /\ hp' = [hp EXCEPT ![i] = reg_hp - BOAT_COLLISION_DAMAGE]
        /\ collision_byte' = [collision_byte EXCEPT ![i] = byte_i, ![j] = byte_j]
        /\ age' = Put(once, byte_j)
        /\ struck' = struck \cup {{i, j}}
        /\ since' = [since EXCEPT ![{i, j}] = 0]
        /\ NextTurn(collisionMatrix)
        /\ reg_hp' = 0 /\ bpc = "strike_i" /\ bpc' = "turn"
        /\ UNCHANGED <<players_mutex, reg_byte, handlers, shown>>
    BY <1>18 DEF StrikeI
  <2>0. lapsed' \subseteq Slots \X Slots
    <3>1. lapsed' \subseteq lapsed \cup {<<i, j>>, <<j, i>>}
      BY <1>18 DEF StrikeI
    <3>. QED BY <2>1, <3>1 DEF IInv, TypeOK
  <2>4. since' \in [Ships -> 0 .. Cooldown + 1]
    <3>1. 0 \in 0 .. Cooldown + 1 /\ since \in [Ships -> 0 .. Cooldown + 1]
      BY DEF IInv, TypeOK
    <3>. QED BY <2>2, <2>3, <3>1, Zenon
  <2>5. /\ DOMAIN age' \subseteq SUBSET Bits
        /\ \A x \in DOMAIN age' : age'[x] \in 0 .. Cooldown + 1
    <3>1. /\ DOMAIN once \subseteq SUBSET Bits
          /\ \A x \in DOMAIN once : once[x] \in 0 .. Cooldown + 1
      BY <2>1, PutType DEF IInv, TypeOK
    <3>. HIDE DEF byte_i, byte_j, once
    <3>. QED BY <2>1, <2>3, <3>1, PutType
  <2>6. i' \in 0 .. MAX_CLIENTS /\ j' \in Slots /\ collisionMatrix' \subseteq Slots
    BY <2>1, <2>3, NextTurnType DEF IInv, TypeOK
  <2>7. collision_byte' \in [Slots -> SUBSET Bits]
    BY <2>1, <2>3 DEF IInv, TypeOK
  <2>8. Marked'
    <3>1. SUFFICES ASSUME NEW c \in Slots, NEW d \in Slots, {c, d} \in struck'
                   PROVE  d \in collision_byte'[c] /\ c \in collision_byte'[d]
      BY <2>3 DEF Marked
    <3>2. \A s \in Slots : collision_byte[s] \subseteq collision_byte'[s]
      BY <2>1, <2>3 DEF IInv, TypeOK
    <3>3. j \in collision_byte'[i] /\ i \in collision_byte'[j]
      BY <2>1, <2>2, <2>3 DEF IInv, TypeOK, Marked
    <3>4. CASE {c, d} \in struck
      BY <2>3, <3>2, <3>4 DEF IInv, Marked
    <3>5. CASE {c, d} = {i, j}
      BY <3>3, <3>5, PairEqual
    <3>. QED BY <2>3, <3>1, <3>4, <3>5
  <2>9. hp' \in [Slots -> Int] /\ \A c \in Slots : hp'[c] <= INITIAL_PLAYER_HP
    BY <2>1, <2>3 DEF IInv, TypeOK, Bounded
  <2>10. ShownDamageStays'
    BY <2>1, <2>3 DEF IInv, TypeOK, Pending, ShownDamageStays
  <2>11. TypeOK'
    <3>. HIDE DEF byte_i, byte_j, once
    <3>1. struck' \subseteq Ships
      BY <2>2, <2>3 DEF IInv, TypeOK
    <3>2. reg_hp' \in Int /\ bpc' = "turn" /\ UNCHANGED <<players_mutex, reg_byte>>
      BY <2>3
    <3>3. UNCHANGED <<hpc, update_byte, update_hp, shown_hp, shown_byte, respawned>>
      BY <2>3
    <3>. QED BY <2>0, <2>4, <2>5, <2>6, <2>7, <2>9, <3>1, <3>2, <3>3 DEF IInv, TypeOK
  <2>12. AtSlot' /\ MutexHeld' /\ Bounded' /\ Pending'
    BY <2>3 DEF IInv, AtSlot, MutexHeld, Bounded, Pending
  <2>. QED BY <2>8, <2>10, <2>11, <2>12 DEF IInv
<1>19. ASSUME EndCheck PROVE IInv'
  BY <1>19 DEF EndCheck, IInv, TypeOK, AtSlot, MutexHeld, Bounded,
      Pending, ShownDamageStays, Marked
<1>20. ASSUME BroadcastPlayers PROVE IInv'
  BY <1>20 DEF BroadcastPlayers, IInv, TypeOK, AtSlot, MutexHeld, Bounded,
      Pending, ShownDamageStays, Marked
<1>21. CASE UNCHANGED vars
  BY <1>21 DEF vars, IInv, TypeOK, AtSlot, MutexHeld, Bounded,
      Pending, ShownDamageStays, Marked
<1>. QED
  BY <1>1, <1>2, <1>3, <1>4, <1>5, <1>6, <1>7, <1>8, <1>9, <1>10, <1>11, <1>12, <1>13, <1>14, <1>15, <1>16, <1>17, <1>18, <1>19, <1>20, <1>21 DEF Next, Handler, BroadcastLoop

-----------------------------------------------------------------------------
(* The cooldown.                                                           *)

LEMMA CoolingStart == Init => Cooling
BY CombatAssumption, PairIsShips DEF Init, Cooling, Striking

\* A step that leaves the table alone keeps Cooling unless it begins a collision.
LEMMA CoolingKept ==
    ASSUME Cooling, UNCHANGED <<age, since, lapsed>>,
           Striking' => Striking /\ UNCHANGED collisionMatrix
    PROVE  Cooling'
BY DEF Cooling, AgeOf

\* The end of a collision puts both bytes in the table; for one that is the other
\* ship alone, and is taken, this begins a cooldown.
LEMMA CoolingStrike ==
    ASSUME IInv, Cooling, StrikeI
    PROVE  Cooling'
<1>. DEFINE byte_i == collision_byte[i] \cup collisionMatrix
            byte_j == collision_byte[j] \cup {i}
            once   == Put(age, byte_i)
<1>1. /\ age' = Put(once, byte_j) /\ bpc' = "turn"
      /\ since' = [since EXCEPT ![{i, j}] = 0]
      /\ <<i, j>> \notin lapsed' => ~Full(age) /\ byte_i = {j}
      /\ <<j, i>> \notin lapsed' => ~Full(once) /\ byte_j = {i}
      /\ \A c, d \in Slots : {c, d} # {i, j} /\ <<c, d>> \in lapsed => <<c, d>> \in lapsed'
  BY DEF StrikeI, Goto
<1>2. byte_i \in SUBSET Bits /\ byte_j \in SUBSET Bits /\ {i, j} \in Ships /\ i # j
  BY SlotFacts, PairIsShips DEF StrikeI, IInv, TypeOK, AtSlot, Marked, Striking, Bits
<1>3. DOMAIN age \subseteq SUBSET Bits /\ \A x \in DOMAIN age : age[x] \in 0 .. Cooldown + 1
  BY DEF IInv, TypeOK
<1>4. DOMAIN once \subseteq SUBSET Bits /\ \A x \in DOMAIN once : once[x] \in 0 .. Cooldown + 1
  BY <1>2, <1>3, PutType
<1>5. \A x \in DOMAIN age : x \in DOMAIN once /\ once[x] <= age[x]
  BY <1>3, PutFacts
<1>6. ~Full(age) => byte_i \in DOMAIN once /\ once[byte_i] = 0
  BY <1>3, PutFacts
<1>. HIDE DEF byte_i, byte_j, once
<1>7. \A x \in DOMAIN age' : age'[x] \in 0 .. Cooldown + 1
  BY <1>1, <1>2, <1>4, PutType
<1>8. \A x \in DOMAIN once : x \in DOMAIN age' /\ age'[x] <= once[x]
  BY <1>1, <1>4, PutFacts
<1>9. ~Full(age) => byte_i \in DOMAIN age' /\ age'[byte_i] = 0
  BY <1>6, <1>7, <1>8, CombatAssumption
<1>10. ~Full(once) => byte_j \in DOMAIN age' /\ age'[byte_j] = 0
  BY <1>1, <1>4, PutFacts
<1>11. SUFFICES ASSUME NEW c \in Slots, NEW d \in Slots, c # d,
                       since'[{c, d}] <= Cooldown, <<c, d>> \notin lapsed'
                PROVE  {d} \in DOMAIN age' /\ age'[{d}] <= since'[{c, d}]
  BY <1>1 DEF Cooling, Striking
<1>12. {c, d} \in Ships /\ since \in [Ships -> 0 .. Cooldown + 1]
  BY <1>11, PairIsShips DEF IInv, TypeOK
<1>13. CASE {c, d} = {i, j}
  <2>1. since'[{c, d}] = 0
    BY <1>1, <1>2, <1>12, <1>13
  <2>2. (c = i /\ d = j) \/ (c = j /\ d = i)
    BY <1>13, PairEqual
  <2>3. CASE c = i /\ d = j
    <3>1. {d} \in DOMAIN age' /\ age'[{d}] = 0
      BY <1>1, <1>9, <1>11, <2>3, Zenon
    <3>. QED BY <2>1, <3>1
  <2>4. CASE c = j /\ d = i
    <3>1. {d} \in DOMAIN age' /\ age'[{d}] = 0
      BY <1>1, <1>10, <1>11, <2>4, Zenon
    <3>. QED BY <2>1, <3>1
  <2>. QED BY <2>2, <2>3, <2>4
<1>14. CASE {c, d} # {i, j}
  <2>1. since'[{c, d}] = since[{c, d}] /\ <<c, d>> \notin lapsed
    BY <1>1, <1>11, <1>12, <1>14
  <2>2. {d} \in DOMAIN age /\ age[{d}] <= since[{c, d}]
    BY <1>11, <2>1 DEF Cooling
  <2>3. {d} \in DOMAIN once /\ once[{d}] <= age[{d}]
    BY <1>5, <2>2
  <2>4. {d} \in DOMAIN age' /\ age'[{d}] <= once[{d}]
    BY <1>8, <2>3
  <2>5. age[{d}] \in Int /\ once[{d}] \in Int /\ age'[{d}] \in Int /\ since[{c, d}] \in Int
    BY <1>3, <1>4, <1>7, <1>12, <2>2, <2>3, <2>4
  <2>. QED BY <2>1, <2>2, <2>3, <2>4, <2>5
<1>. QED BY <1>13, <1>14

LEMMA CoolingStep == IInv /\ Cooling /\ [Next]_vars => Cooling'
<1>. SUFFICES ASSUME IInv, Cooling, [Next]_vars PROVE Cooling'
  OBVIOUS
<1>. USE DEF globals, locals, regs, handlers, shown, ledger, Goto, Striking
<1>1. ASSUME Pass PROVE Cooling'
  <2>1. \A n \in 0 .. Cooldown + 1, m \in 0 .. Cooldown + 1 :
            /\ Older(m) <= Cooldown => m <= Cooldown
            /\ n <= m /\ m <= Cooldown => Older(n) <= Older(m)
    BY CombatAssumption DEF Older
  <2>2. /\ age' = [x \in DOMAIN age |-> Older(age[x])]
        /\ since' = [p \in Ships |-> Older(since[p])]
        /\ ~Striking'
    BY <1>1 DEF Pass
  <2>3. SUFFICES ASSUME NEW c \in Slots, NEW d \in Slots, c # d,
                        since'[{c, d}] <= Cooldown, <<c, d>> \notin lapsed'
                 PROVE  {d} \in DOMAIN age' /\ age'[{d}] <= since'[{c, d}]
    BY <2>2 DEF Cooling
  <2>4. {c, d} \in Ships /\ since \in [Ships -> 0 .. Cooldown + 1]
    BY <2>3, PairIsShips DEF IInv, TypeOK
  <2>5. since'[{c, d}] = Older(since[{c, d}]) /\ since[{c, d}] <= Cooldown
    BY <2>1, <2>2, <2>3, <2>4
  <2>6. <<c, d>> \notin lapsed
    BY <1>1, <2>3 DEF Pass
  <2>7. {d} \in DOMAIN age /\ age[{d}] <= since[{c, d}] /\ age[{d}] \in 0 .. Cooldown + 1
    BY <2>3, <2>5, <2>6 DEF Cooling, IInv, TypeOK
  <2>. QED BY <2>1, <2>2, <2>4, <2>5, <2>7
<1>2. ASSUME Collision PROVE Cooling'
  BY <1>2 DEF Collision, Renewed, Cooling, AgeOf
<1>3. ASSUME StrikeI PROVE Cooling'
  BY <1>3, CoolingStrike
<1>4. ASSUME StrikeJ \/ LoadI PROVE Cooling'
  BY <1>4, CoolingKept DEF StrikeJ, LoadI
<1>5. ASSUME ClearLoad \/ ClearStore \/ Hit \/ HitHp \/ HitLoad \/ HitByte \/ BulletsDone PROVE Cooling'
  BY <1>5, CoolingKept DEF ClearLoad, ClearStore, Hit, HitHp, HitLoad, HitByte, BulletsDone
<1>6. ASSUME BeginCheck \/ Skip \/ Apart \/ TooSoon \/ EndCheck \/ BroadcastPlayers PROVE Cooling'
  BY <1>6, CoolingKept DEF BeginCheck, Skip, Apart, TooSoon, EndCheck, BroadcastPlayers
<1>7. ASSUME NEW c \in Slots, Handler(c) PROVE Cooling'
  BY <1>7, CoolingKept DEF Handler, RecvUpdate, ReadHp, WriteBack
<1>8. CASE UNCHANGED vars
  BY <1>8, CoolingKept DEF vars
<1>. QED
  BY <1>1, <1>2, <1>3, <1>4, <1>5, <1>6, <1>7, <1>8 DEF Next, BroadcastLoop

-----------------------------------------------------------------------------
(* The theorems.                                                           *)

LEMMA Invariant == Spec => []IInv
BY Start, Step, PTL DEF Spec

\* Hit points, collision bytes and the table have their types, however many
\* players there are; hit points never exceed those a player begins with.
THEOREM TypeCorrect == Spec => []TypeOK
<1>1. IInv => TypeOK
  BY DEF IInv
<1>. QED BY Invariant, <1>1, PTL

\* A handler's write-back never gives back hit points whose loss the players
\* have been shown.
THEOREM ShownDamageIsKept == Spec => []ShownDamageStays
<1>1. IInv => ShownDamageStays
  BY DEF IInv
<1>. QED BY Invariant, <1>1, PTL

\* check_collisions damages no two ships twice in one tick.
THEOREM PairsAreStruckOnce == Spec => StruckOnce
<1>1. IInv /\ [Next]_vars => [StrikeI => {i, j} \notin struck]_vars
  <2>. SUFFICES ASSUME IInv, StrikeI PROVE {i, j} \notin struck
    OBVIOUS
  <2>1. i \in Slots /\ j \in Slots /\ j \notin collision_byte[i] /\ bpc = "strike_i"
    BY DEF StrikeI, IInv, TypeOK, AtSlot, Marked, Striking
  <2>. QED BY <2>1 DEF IInv, Marked, Checking
<1>. QED BY Invariant, <1>1, PTL DEF Spec, StruckOnce

\* Among any number of ships, two that have damaged each other are not damaged
\* again before the cooldown has passed, unless the outer loop's touches another
\* too, or the last time its byte was not the other ship alone or the table was full.
THEOREM CooldownsAreHeld == Spec => CooldownHeld
<1>1. IInv /\ Cooling =>
        [StrikeI /\ since[{i, j}] <= Cooldown =>
            collisionMatrix # {j} \/ <<i, j>> \in lapsed]_vars
  <2>. SUFFICES ASSUME IInv, Cooling, StrikeI, since[{i, j}] <= Cooldown,
                       collisionMatrix = {j}, <<i, j>> \notin lapsed
                PROVE  FALSE
    OBVIOUS
  <2>1. i \in Slots /\ j \in Slots /\ i # j /\ {i, j} \in Ships /\ AgeOf({j}) > Cooldown
    BY PairIsShips DEF StrikeI, IInv, TypeOK, AtSlot, Marked, Cooling, Striking
  <2>2. since[{i, j}] \in 0 .. Cooldown + 1 /\ \A x \in DOMAIN age : age[x] \in 0 .. Cooldown + 1
    BY <2>1 DEF IInv, TypeOK
  <2>3. {j} \in DOMAIN age /\ age[{j}] <= since[{i, j}]
    BY <2>1 DEF Cooling
  <2>. QED BY <2>1, <2>2, <2>3, CombatAssumption DEF AgeOf
<1>2. Spec => []Cooling
  BY Invariant, CoolingStart, CoolingStep, PTL DEF Spec
<1>. QED BY Invariant, <1>1, <1>2, PTL DEF CooldownHeld
=============================================================================
