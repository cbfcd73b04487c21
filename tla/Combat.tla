------------------------------- MODULE Combat -------------------------------
(***************************************************************************)
(* Hit points and collision bytes on the server (src/server/server.c):     *)
(* the broadcast thread applies the bullets' hits without a mutex and the  *)
(* collisions of ships under players_mutex, and then sends the players;    *)
(* the client_handler threads set the hit points of a respawned player     *)
(* without a mutex and write whole records back under players_mutex.  A    *)
(* -= or |= that another thread's store may fall into is a load and a      *)
(* store.                                                                  *)
(*                                                                         *)
(* All slots are taken and every player knows its id (PlayerSlots); which  *)
(* bullets hit is open, and so is which ships touch: what                  *)
(* sat_obb_collision_check says of two need not be what it says of them in *)
(* the other order (Collisions).  The table of collision times is the map  *)
(* that CollisionHashSet implements, with the seconds since a collision in *)
(* place of its time.                                                      *)
(***************************************************************************)
EXTENDS Integers, FiniteSets

CONSTANTS
    MAX_CLIENTS,
    INITIAL_PLAYER_HP,
    PLAYER_SPAWNED_BULLET_DAMAGE,
    BOAT_COLLISION_DAMAGE,
    Cooldown,            \* seconds; the 5 of check_collisions
    MAX_HASHSET_SIZE,
    BULLET_COLLISION_MASK,
    MinHp,               \* no hit takes a player below this: a bound of the model
    Broadcast, Nobody    \* holders of the mutex other than the handlers

Slots == 0 .. MAX_CLIENTS - 1
Bits  == Slots \cup {BULLET_COLLISION_MASK}
Ships == {p \in SUBSET Slots : Cardinality(p) = 2}

ASSUME CombatAssumption ==
    /\ MAX_CLIENTS \in Nat \ {0}
    /\ INITIAL_PLAYER_HP \in Nat
    /\ PLAYER_SPAWNED_BULLET_DAMAGE \in Nat /\ BOAT_COLLISION_DAMAGE \in Nat
    /\ Cooldown \in Nat /\ MAX_HASHSET_SIZE \in Nat
    /\ MinHp \in Int /\ MinHp <= 0
    /\ BULLET_COLLISION_MASK \notin Slots /\ Broadcast \notin Slots /\ Nobody \notin Slots \cup {Broadcast}

VARIABLES
    \* players, and the other globals
    hp, collision_byte,
    players_mutex,
    age,                   \* of each key of the table, no further than matters
    \* the broadcast thread
    bpc, i, j,             \* the slots that its loops are at
    reg_hp, reg_byte,      \* what a load has read
    collisionMatrix,
    \* the handlers
    hpc, update_byte, update_hp,
    \* what broadcast_players last sent
    shown_hp, shown_byte,
    \* history
    respawned,             \* the players that have respawned since
    struck,                \* the pairs that check_collisions has damaged in this tick
    since,                 \* how long ago each pair was last damaged
    lapsed                 \* <<c, d>>: d was not put as c's only collision then

regs     == <<reg_hp, reg_byte>>
globals  == <<hp, collision_byte, players_mutex, age>>
locals   == <<bpc, i, j, regs, collisionMatrix>>
handlers == <<hpc, update_byte, update_hp>>
shown    == <<shown_hp, shown_byte, respawned>>
ledger   == <<struck, since, lapsed>>
vars     == <<globals, locals, handlers, shown, ledger>>

-----------------------------------------------------------------------------
(* The table.                                                              *)

AgeOf(key) == IF key \in DOMAIN age THEN age[key] ELSE Cooldown + 1

Full(a) == Cardinality(DOMAIN a) >= MAX_HASHSET_SIZE

\* Mutation: a key the table has is not renewed.
PutOnce(a, key) ==
    IF Full(a) \/ key \in DOMAIN a THEN a
    ELSE [x \in DOMAIN a \cup {key} |-> IF x = key THEN 0 ELSE a[x]]

Put(a, key) ==
    IF Full(a) THEN a
    ELSE [x \in DOMAIN a \cup {key} |-> IF x = key THEN 0 ELSE a[x]]

Older(n) == IF n > Cooldown THEN n ELSE n + 1

\* A second passes.
Pass ==
    /\ bpc \in {"clear", "turn"}
    /\ age' = [x \in DOMAIN age |-> Older(age[x])]
    /\ since' = [p \in Ships |-> Older(since[p])]
    /\ lapsed' = {p \in lapsed : since'[{p[1], p[2]}] <= Cooldown}
    /\ UNCHANGED <<hp, collision_byte, players_mutex, locals, handlers, shown, struck>>

-----------------------------------------------------------------------------
(* client_handler.                                                         *)

\* Mutation: a respawn adds to the hit points there are.
RecvUpdateAdds(c) ==
    /\ hpc[c] = "recv"
    /\ update_byte' = [update_byte EXCEPT ![c] = shown_byte[c]]
    /\ hpc' = [hpc EXCEPT ![c] = "update"]
    /\ \/ UNCHANGED <<hp, respawned>>
       \/ /\ hp' = [hp EXCEPT ![c] = @ + INITIAL_PLAYER_HP]
          /\ respawned' = respawned \cup {c}
    /\ UNCHANGED <<collision_byte, players_mutex, age, locals, update_hp,
                   shown_hp, shown_byte, ledger>>

\* recv: a client sends back the collision byte it was last shown.
RecvUpdate(c) ==
    /\ hpc[c] = "recv"
    /\ update_byte' = [update_byte EXCEPT ![c] = shown_byte[c]]
    /\ hpc' = [hpc EXCEPT ![c] = "update"]
    /\ \/ UNCHANGED <<hp, respawned>>
       \/ /\ hp' = [hp EXCEPT ![c] = INITIAL_PLAYER_HP]
          /\ respawned' = respawned \cup {c}
    /\ UNCHANGED <<collision_byte, players_mutex, age, locals, update_hp,
                   shown_hp, shown_byte, ledger>>

\* Mutation: the record is completed before the mutex is taken.
ReadHpEarly(c) ==
    /\ hpc[c] = "update"
    /\ update_hp' = [update_hp EXCEPT ![c] = hp[c]]
    /\ hpc' = [hpc EXCEPT ![c] = "write"]
    /\ UNCHANGED <<globals, locals, update_byte, shown, ledger>>

\* update.hp = players[client_id].hp
ReadHp(c) ==
    /\ hpc[c] = "update"
    /\ players_mutex = Nobody
    /\ players_mutex' = c
    /\ update_hp' = [update_hp EXCEPT ![c] = hp[c]]
    /\ hpc' = [hpc EXCEPT ![c] = "write"]
    /\ UNCHANGED <<hp, collision_byte, age, locals, update_byte, shown, ledger>>

\* players[client_id] = update
WriteBack(c) ==
    /\ hpc[c] = "write"
    /\ hp' = [hp EXCEPT ![c] = update_hp[c]]
    /\ collision_byte' = [collision_byte EXCEPT ![c] = update_byte[c]]
    /\ players_mutex' = Nobody
    /\ hpc' = [hpc EXCEPT ![c] = "recv"]
    /\ update_hp' = [update_hp EXCEPT ![c] = 0]
    /\ update_byte' = [update_byte EXCEPT ![c] = {}]
    /\ UNCHANGED <<age, locals, shown, ledger>>

-----------------------------------------------------------------------------
(* broadcast_bullets, of which update_bullets and is_bullet_dead.          *)

Goto(there) == bpc' = there

\* The bullet bit of each player is cleared.
ClearLoad ==
    /\ bpc = "clear"
    /\ reg_byte' = collision_byte[i]
    /\ Goto("clear_store")
    /\ UNCHANGED <<globals, reg_hp, i, j, collisionMatrix, handlers, shown, ledger>>

ClearStore ==
    /\ bpc = "clear_store"
    /\ collision_byte' = [collision_byte EXCEPT ![i] = reg_byte \ {BULLET_COLLISION_MASK}]
    /\ reg_byte' = {}
    /\ IF i + 1 \in Slots THEN i' = i + 1 /\ Goto("clear")
                          ELSE i' = 0 /\ Goto("bullets")
    /\ UNCHANGED <<hp, reg_hp, players_mutex, age, j, collisionMatrix, handlers,
                   shown, ledger>>

\* The next bullet to hit a ship hits this one.
Hit ==
    /\ bpc = "bullets"
    /\ \E c \in Slots :
          /\ hp[c] > MinHp
          /\ i' = c
          /\ reg_hp' = hp[c]
    /\ Goto("hit_hp")
    /\ UNCHANGED <<globals, j, reg_byte, collisionMatrix, handlers, shown, ledger>>

HitHp ==
    /\ bpc = "hit_hp"
    /\ hp' = [hp EXCEPT ![i] = reg_hp - PLAYER_SPAWNED_BULLET_DAMAGE]
    /\ reg_hp' = 0
    /\ Goto("hit_load")
    /\ UNCHANGED <<collision_byte, reg_byte, players_mutex, age, i, j, collisionMatrix,
                   handlers, shown, ledger>>

HitLoad ==
    /\ bpc = "hit_load"
    /\ reg_byte' = collision_byte[i]
    /\ Goto("hit_byte")
    /\ UNCHANGED <<globals, reg_hp, i, j, collisionMatrix, handlers, shown, ledger>>

HitByte ==
    /\ bpc = "hit_byte"
    /\ collision_byte' = [collision_byte EXCEPT ![i] = reg_byte \cup {BULLET_COLLISION_MASK}]
    /\ reg_byte' = {} /\ i' = 0
    /\ Goto("bullets")
    /\ UNCHANGED <<hp, reg_hp, players_mutex, age, j, collisionMatrix, handlers,
                   shown, ledger>>

BulletsDone ==
    /\ bpc = "bullets"
    /\ Goto("lock")
    /\ UNCHANGED <<globals, i, j, regs, collisionMatrix, handlers, shown, ledger>>

-----------------------------------------------------------------------------
(* check_collisions, under players_mutex.                                  *)

\* The players' collisions are cleared, the bullet bit is not.
BeginCheck ==
    /\ bpc = "lock"
    /\ players_mutex = Nobody
    /\ players_mutex' = Broadcast
    /\ collision_byte' = [c \in Slots |-> collision_byte[c] \cap {BULLET_COLLISION_MASK}]
    /\ struck' = {}
    /\ Goto("turn")
    /\ UNCHANGED <<hp, age, i, j, regs, collisionMatrix, handlers, shown, since, lapsed>>

\* The matrix is begun anew with each i.
NextTurn(matrix) ==
    IF j + 1 \in Slots
    THEN j' = j + 1 /\ collisionMatrix' = matrix /\ UNCHANGED i
    ELSE j' = 0 /\ i' = i + 1 /\ collisionMatrix' = {}

\* Mutation: registered collisions are looked at again.
RegisteredNever == i = j

\* The collision is not of two ships, or "already registered".
Registered == i = j \/ j \in collision_byte[i]

Skip ==
    /\ bpc = "turn" /\ i \in Slots
    /\ Registered
    /\ NextTurn(collisionMatrix)
    /\ UNCHANGED <<globals, bpc, regs, handlers, shown, ledger>>

\* The two do not touch.
Apart ==
    /\ bpc = "turn" /\ i \in Slots
    /\ ~Registered
    /\ NextTurn(collisionMatrix)
    /\ UNCHANGED <<globals, bpc, regs, handlers, shown, ledger>>

\* They touch.
Matrix  == collisionMatrix \cup {j}
Renewed == AgeOf(Matrix) > Cooldown

TooSoon ==
    /\ bpc = "turn" /\ i \in Slots
    /\ ~Registered
    /\ ~Renewed
    /\ NextTurn(Matrix)
    /\ UNCHANGED <<globals, bpc, regs, handlers, shown, ledger>>

\* players[j].hp -= BOAT_COLLISION_DAMAGE, and then players[i].hp.
Collision ==
    /\ bpc = "turn" /\ i \in Slots
    /\ ~Registered
    /\ Renewed
    /\ hp[i] > MinHp /\ hp[j] > MinHp
    /\ collisionMatrix' = Matrix
    /\ reg_hp' = hp[j]
    /\ Goto("strike_j")
    /\ UNCHANGED <<globals, reg_byte, i, j, handlers, shown, ledger>>

StrikeJ ==
    /\ bpc = "strike_j"
    /\ hp' = [hp EXCEPT ![j] = reg_hp - BOAT_COLLISION_DAMAGE]
    /\ reg_hp' = 0
    /\ Goto("load_i")
    /\ UNCHANGED <<collision_byte, reg_byte, players_mutex, age, i, j, collisionMatrix,
                   handlers, shown, ledger>>

LoadI ==
    /\ bpc = "load_i"
    /\ reg_hp' = hp[i]
    /\ Goto("strike_i")
    /\ UNCHANGED <<globals, reg_byte, i, j, collisionMatrix, handlers, shown, ledger>>

\* Both bytes are set and put in the table, which takes nothing when it is full;
\* a third ship, or a bullet in this tick, makes them other keys than the ship alone.
StrikeI ==
    LET byte_i == collision_byte[i] \cup collisionMatrix
        byte_j == collision_byte[j] \cup {i}
        once   == Put(age, byte_i)
    IN
    /\ bpc = "strike_i"
    /\ hp' = [hp EXCEPT ![i] = reg_hp - BOAT_COLLISION_DAMAGE]
    /\ collision_byte' = [collision_byte EXCEPT ![i] = byte_i, ![j] = byte_j]
    /\ age' = Put(once, byte_j)
    /\ struck' = struck \cup {{i, j}}
    /\ since' = [since EXCEPT ![{i, j}] = 0]
    /\ lapsed' = {p \in lapsed : {p[1], p[2]} # {i, j}}
                 \cup {p \in {<<i, j>>} : Full(age) \/ byte_i # {j}}
                 \cup {p \in {<<j, i>>} : Full(once) \/ byte_j # {i}}
    /\ NextTurn(collisionMatrix)
    /\ reg_hp' = 0
    /\ Goto("turn")
    /\ UNCHANGED <<players_mutex, reg_byte, handlers, shown>>

EndCheck ==
    /\ bpc = "turn" /\ i \notin Slots
    /\ players_mutex' = Nobody
    /\ i' = 0
    /\ Goto("players")
    /\ UNCHANGED <<hp, collision_byte, age, j, regs, collisionMatrix, handlers,
                   shown, ledger>>

\* broadcast_players, which takes no players_mutex; handle_player_death moves
\* the dead, and nothing here depends on where they are.
BroadcastPlayers ==
    /\ bpc = "players"
    /\ shown_hp' = hp
    /\ shown_byte' = collision_byte
    /\ respawned' = {}
    /\ Goto("clear")
    /\ UNCHANGED <<globals, i, j, regs, collisionMatrix, handlers, ledger>>

-----------------------------------------------------------------------------

Init ==
    /\ hp = [c \in Slots |-> INITIAL_PLAYER_HP]
    /\ collision_byte = [c \in Slots |-> {}]
    /\ players_mutex = Nobody
    /\ age = [x \in {} |-> 0]
    /\ bpc = "clear" /\ i = 0 /\ j = 0 /\ reg_hp = 0 /\ reg_byte = {}
    /\ collisionMatrix = {}
    /\ hpc = [c \in Slots |-> "recv"]
    /\ update_byte = [c \in Slots |-> {}]
    /\ update_hp = [c \in Slots |-> 0]
    /\ shown_hp = hp /\ shown_byte = collision_byte
    /\ respawned = {} /\ struck = {}
    /\ since = [p \in Ships |-> Cooldown + 1] /\ lapsed = {}

Handler(c) == RecvUpdate(c) \/ ReadHp(c) \/ WriteBack(c)

BroadcastLoop ==
    \/ ClearLoad \/ ClearStore \/ Hit \/ HitHp \/ HitLoad \/ HitByte \/ BulletsDone
    \/ BeginCheck \/ Skip \/ Apart \/ TooSoon \/ Collision \/ StrikeJ \/ LoadI \/ StrikeI
    \/ EndCheck \/ BroadcastPlayers

Next == Pass \/ BroadcastLoop \/ \E c \in Slots : Handler(c)

Spec == Init /\ [][Next]_vars

-----------------------------------------------------------------------------
(* Properties.                                                             *)

\* Every variable has its type: hit points never exceed those a player begins with.
TypeOK ==
    /\ hp \in [Slots -> Int] /\ shown_hp \in [Slots -> Int] /\ update_hp \in [Slots -> Int]
    /\ \A c \in Slots : hp[c] <= INITIAL_PLAYER_HP
    /\ collision_byte \in [Slots -> SUBSET Bits]
    /\ shown_byte \in [Slots -> SUBSET Bits]
    /\ update_byte \in [Slots -> SUBSET Bits]
    /\ players_mutex \in Slots \cup {Broadcast, Nobody}
    /\ DOMAIN age \subseteq SUBSET Bits
    /\ \A x \in DOMAIN age : age[x] \in 0 .. Cooldown + 1
    /\ bpc \in {"clear", "clear_store", "bullets", "hit_hp", "hit_load", "hit_byte", "lock",
                "turn", "strike_j", "load_i", "strike_i", "players"}
    /\ i \in 0 .. MAX_CLIENTS /\ j \in Slots
    /\ reg_hp \in Int /\ reg_byte \subseteq Bits
    /\ collisionMatrix \subseteq Slots
    /\ hpc \in [Slots -> {"recv", "update", "write"}]
    /\ respawned \subseteq Slots /\ struck \subseteq Ships
    /\ since \in [Ships -> 0 .. Cooldown + 1]
    /\ lapsed \subseteq Slots \X Slots

\* A write-back may undo a bullet's hit, but none that a client has been shown:
\* the handlers' write-backs that began before the hit have ended when
\* check_collisions has had the mutex, and the players are sent after that.
ShownDamageStays == \A c \in Slots \ respawned : hp[c] <= shown_hp[c]

\* In one tick two ships damage each other once, whichever of them is the outer
\* loop's, also when the table has not taken their bytes.
StruckOnce == [][StrikeI => {i, j} \notin struck]_vars

\* Two ships that have damaged each other are damaged again within the cooldown for
\* one of two reasons only.  The outer loop's has now been found to touch another
\* before: the bits of all it touches are one key, which has a time of its own.  Or
\* the last time began no cooldown: a third ship or a bullet of that tick was in the
\* byte as well, or the table was full, and then it does not even renew a key it has.
CooldownHeld ==
    [][StrikeI /\ since[{i, j}] <= Cooldown =>
          collisionMatrix # {j} \/ <<i, j>> \in lapsed]_vars
=============================================================================
