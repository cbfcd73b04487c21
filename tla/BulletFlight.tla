---------------------------- MODULE BulletFlight ----------------------------
(***************************************************************************)
(* Bullets on their way (src/server/server.c): a client_handler adds a     *)
(* bullet beside the ship that it is told of and writes the ship's record; *)
(* the broadcast thread moves each bullet, asks of one ship after another  *)
(* whether it is hit, and puts the dead ships aside.  It reads and writes  *)
(* the players without players_mutex: a record that is being written is    *)
(* read in parts, and a dead ship's two coordinates are two stores.        *)
(*                                                                         *)
(* What a hit takes from a ship is the subject of Combat: here it is open  *)
(* who is dead.  Every player knows its id (PlayerSlots), and the nodes of *)
(* the list, whose order BulletList models, are walked in any order.       *)
(***************************************************************************)
EXTENDS Collisions

CONSTANTS
    MAX_CLIENTS,
    Nodes,                   \* nodes that malloc returns, and Null
    Null,
    One, Rotations,          \* of Collisions
    Places,                  \* where a client may say that its ship is
    Spawner,                 \* where the vortex is
    WINDOW_WIDTH, WINDOW_HEIGHT, tolerance,
    BULLET_SPEED, BULLET_HALF, PLAYER_HALF,
    DEAD_PLAYER_POS,
    SERVER_SPAWNED_BULLET

Slots == 0 .. MAX_CLIENTS - 1

ASSUME FlightAssumption ==
    /\ MAX_CLIENTS \in Nat \ {0}
    /\ Null \notin Nodes
    /\ One \in Nat \ {0}
    /\ \A r \in Rotations : r \in Int \X Int /\ r[1] * r[1] + r[2] * r[2] = One * One
    /\ Places \subseteq Int \X Int
    /\ Spawner \in Int \X Int /\ DEAD_PLAYER_POS \in Int \X Int
    /\ WINDOW_WIDTH \in Nat /\ WINDOW_HEIGHT \in Nat /\ tolerance \in Nat
    /\ BULLET_SPEED \in Nat
    /\ BULLET_HALF \in (Nat \ {0}) \X (Nat \ {0})
    /\ PLAYER_HALF \in (Nat \ {0}) \X (Nat \ {0})
    \* -300 is further out than a bullet flies, however the ship there is turned.
    /\ \A d \in {1, 2} :
          DEAD_PLAYER_POS[d] + PLAYER_HALF[1] + PLAYER_HALF[2] + BULLET_HALF[d] < -tolerance
    /\ SERVER_SPAWNED_BULLET \in Int \ Slots

VARIABLES
    players, update,         \* positions and rotations: the server's, and those received
    hpc,                     \* the handlers; a slot's client is "out" until it has one
    bullets,                 \* the list: [pos, dir, shooter] of its nodes
    bpc, todo, current,      \* the broadcast thread, and its walk through the list
    i, collides,
    still,                   \* history: of the players there, those not written to since current was moved
    spent                    \* history: the bullets that have hit

walk == <<todo, current, i, collides, still, spent>>
vars == <<players, update, hpc, bullets, bpc, walk>>

Pose(p, r) == [pos |-> p, rotation |-> r]
Still      == Pose(<<0, 0>>, <<One, 0>>)   \* of an update there is none of

Scaled(p)  == <<One * p[1], One * p[2]>>
Positions  == {Scaled(p) : p \in Places \cup {DEAD_PLAYER_POS}}
Dead       == Scaled(DEAD_PLAYER_POS)

Playing    == {c \in Slots : hpc[c] \in {"recv", "write"}}
Walking    == bpc \in {"walk", "test", "return"}     \* under clients_mutex and bullets_mutex

-----------------------------------------------------------------------------
(* The bullets.                                                            *)

\* angle + action * PI / 2
get_bullet_direction(r, action) == <<-action * r[2], action * r[1]>>

add_bullet(n, pos, dir, shooter) ==
    /\ n \notin DOMAIN bullets
    /\ bullets' = [b \in DOMAIN bullets \cup {n} |->
                      IF b = n THEN [pos |-> pos, dir |-> dir, shooter |-> shooter]
                               ELSE bullets[b]]

\* Mutation: a direction is of whole numbers.
update_whole(b) ==
    LET Whole(d) == IF d \in {-One, One} THEN d * BULLET_SPEED ELSE 0
    IN [b EXCEPT !.pos = <<@[1] + Whole(b.dir[1]), @[2] + Whole(b.dir[2])>>]

update_bullet_position(b) ==
    [b EXCEPT !.pos = <<@[1] + b.dir[1] * BULLET_SPEED, @[2] + b.dir[2] * BULLET_SPEED>>]

Outside(pos) ==
    \/ pos[2] > One * (WINDOW_HEIGHT + tolerance)
    \/ pos[2] < -One * tolerance
    \/ pos[1] > One * (WINDOW_WIDTH - tolerance)
    \/ pos[1] < -One * tolerance

bbox(b) == get_rotated_rect_corners(RotatedRect(b.pos, BULLET_HALF, <<One, 0>>))

otherBbox(pose) ==
    get_rotated_rect_corners(RotatedRect(pose.pos, PLAYER_HALF, pose.rotation))

-----------------------------------------------------------------------------
(* client_handler.                                                         *)

\* A client is given a slot that is free; the ship is where it was left.
Join(c) ==
    /\ hpc[c] = "out"
    /\ ~Walking
    /\ hpc' = [hpc EXCEPT ![c] = "recv"]
    /\ UNCHANGED <<players, update, bullets, bpc, walk>>

RecvUpdate(c) ==
    /\ hpc[c] = "recv"
    /\ hpc' = [hpc EXCEPT ![c] = "write"]
    /\ \E p \in Positions, r \in Rotations :
          /\ update' = [update EXCEPT ![c] = Pose(p, r)]
          /\ \/ UNCHANGED bullets
             \/ /\ ~Walking
                /\ \E n \in Nodes, action \in {-1, 1} :
                      add_bullet(n, p, get_bullet_direction(r, action), c)
    /\ still' = still \ {c}
    /\ UNCHANGED <<players, bpc, todo, current, i, collides, spent>>

WriteBack(c) ==
    /\ hpc[c] = "write"
    /\ players' = [players EXCEPT ![c] = update[c]]
    /\ update' = [update EXCEPT ![c] = Still]
    /\ hpc' = [hpc EXCEPT ![c] = "recv"]
    /\ UNCHANGED <<bullets, bpc, walk>>

\* client_sockets[client_id] = UNUSED_SOCKET_ID
CleanSocket(c) ==
    /\ hpc[c] = "recv"
    /\ ~Walking
    /\ hpc' = [hpc EXCEPT ![c] = "clean_player"]
    /\ UNCHANGED <<players, update, bullets, bpc, walk>>

\* spawn_player_random_pos
CleanPlayer(c) ==
    /\ hpc[c] = "clean_player"
    /\ \E p \in Places : players' = [players EXCEPT ![c] = Pose(Scaled(p), <<One, 0>>)]
    /\ hpc' = [hpc EXCEPT ![c] = "out"]
    /\ UNCHANGED <<update, bullets, bpc, walk>>

-----------------------------------------------------------------------------
(* update_bullets.                                                         *)

\* The vortex may add a bullet first.
BeginWalk ==
    /\ bpc = "update"
    /\ \/ UNCHANGED bullets
       \/ \E n \in Nodes, r \in Rotations :
             add_bullet(n, Scaled(Spawner), r, SERVER_SPAWNED_BULLET)
    /\ todo' = DOMAIN bullets'
    /\ bpc' = "walk"
    /\ UNCHANGED <<players, update, hpc, current, i, collides, still, spent>>

Removed(n) ==
    /\ bullets' = [b \in DOMAIN bullets \ {n} |-> bullets[b]]
    /\ spent' = spent \ {n}

\* Mutation: the border is not looked at before the ships.
FlyOn ==
    /\ bpc = "walk"
    /\ \E n \in todo :
          /\ bullets' = [bullets EXCEPT ![n] = update_bullet_position(bullets[n])]
          /\ todo' = todo \ {n}
          /\ current' = n
    /\ still' = {c \in Slots : hpc[c] = "recv"}
    /\ bpc' = "test"
    /\ UNCHANGED <<players, update, hpc, i, collides, spent>>

\* The bullet is moved, and is dead where the border is passed.
Fly ==
    /\ bpc = "walk"
    /\ \E n \in todo :
          LET b == update_bullet_position(bullets[n]) IN
          /\ todo' = todo \ {n}
          /\ IF Outside(b.pos)
             THEN Removed(n) /\ UNCHANGED <<bpc, current, still>>
             ELSE /\ bullets' = [bullets EXCEPT ![n] = b]
                  /\ current' = n
                  /\ still' = {c \in Slots : hpc[c] = "recv"}
                  /\ bpc' = "test"
                  /\ UNCHANGED spent
    /\ UNCHANGED <<players, update, hpc, i, collides>>

Bullet  == bullets[current]
Skipped == i \notin Playing \/ i = Bullet.shooter

\* Mutation: `collides` is declared in the loop.
SkipAnew ==
    /\ bpc = "test" /\ i \in Slots
    /\ Skipped
    /\ i' = i + 1
    /\ collides' = "unset"
    /\ UNCHANGED <<players, update, hpc, bullets, bpc, todo, current, still, spent>>

Skip ==
    /\ bpc = "test" /\ i \in Slots
    /\ Skipped
    /\ i' = i + 1
    /\ UNCHANGED <<players, update, hpc, bullets, bpc, todo, current, collides, still, spent>>

\* What is read of a record while update may be being written to it.
Seen(c) ==
    IF hpc[c] # "write" THEN {players[c]}
    ELSE {Pose(<<x, y>>, r) : x \in {players[c].pos[1], update[c].pos[1]},
                              y \in {players[c].pos[2], update[c].pos[2]},
                              r \in {players[c].rotation, update[c].rotation}}

Checks(c) ==
    {sat_obb_collision_check(a, b) : a \in {bbox(Bullet)}, b \in {otherBbox(p) : p \in Seen(c)}}

\* Mutation: the next ships are asked as well.
TestAll ==
    /\ bpc = "test" /\ i \in Slots
    /\ ~Skipped
    /\ \E hit \in Checks(i) :
          /\ collides' = IF hit THEN "yes" ELSE "no"
          /\ spent' = IF hit THEN spent \cup {current} ELSE spent
    /\ i' = i + 1
    /\ UNCHANGED <<players, update, hpc, bullets, bpc, todo, current, still>>

\* Mutation: the first ship decides.
TestOne ==
    /\ bpc = "test" /\ i \in Slots
    /\ ~Skipped
    /\ \E hit \in Checks(i) :
          /\ collides' = IF hit THEN "yes" ELSE "no"
          /\ spent' = IF hit THEN spent \cup {current} ELSE spent
    /\ bpc' = "return"
    /\ UNCHANGED <<players, update, hpc, bullets, todo, current, i, still>>

\* The first ship that is hit is damaged, and ends the loop.
Test ==
    /\ bpc = "test" /\ i \in Slots
    /\ ~Skipped
    /\ \E hit \in Checks(i) :
          IF hit
          THEN /\ collides' = "yes"
               /\ spent' = spent \cup {current}
               /\ bpc' = "return"
               /\ UNCHANGED i
          ELSE /\ collides' = "no"
               /\ i' = i + 1
               /\ UNCHANGED <<bpc, spent>>
    /\ UNCHANGED <<players, update, hpc, bullets, todo, current, still>>

Tested == bpc = "return" \/ (bpc = "test" /\ i \notin Slots)

\* Mutation: the walk goes on from the node that has been freed.
NextFromFreed ==
    /\ i' = 0 /\ collides' = "unset"
    /\ still' = {}
    /\ bpc' = "walk"
    /\ UNCHANGED <<players, update, hpc, todo, current>>

NextBullet ==
    /\ i' = 0 /\ collides' = "unset"
    /\ current' = Null /\ still' = {}
    /\ bpc' = "walk"
    /\ UNCHANGED <<players, update, hpc, todo>>

\* A `collides` that no ship has set is whatever was there.
Dies ==
    /\ Tested
    /\ collides # "no"
    /\ Removed(current)
    /\ NextBullet

Lives ==
    /\ Tested
    /\ collides # "yes"
    /\ NextBullet
    /\ UNCHANGED <<bullets, spent>>

EndWalk ==
    /\ bpc = "walk" /\ todo = {}
    /\ bpc' = "death"
    /\ UNCHANGED <<players, update, hpc, bullets, walk>>

-----------------------------------------------------------------------------
(* handle_player_death, slot by slot.                                      *)

NextSlot ==
    IF i + 1 \in Slots THEN i' = i + 1 /\ bpc' = "death"
                       ELSE i' = 0 /\ bpc' = "update"

Alive ==
    /\ bpc = "death"
    /\ NextSlot
    /\ UNCHANGED <<players, update, hpc, bullets, todo, current, collides, still, spent>>

KillX ==
    /\ bpc = "death" /\ i \in Playing
    /\ players' = [players EXCEPT ![i].pos[1] = Dead[1]]
    /\ bpc' = "kill"
    /\ UNCHANGED <<update, hpc, bullets, walk>>

KillY ==
    /\ bpc = "kill"
    /\ players' = [players EXCEPT ![i].pos[2] = Dead[2]]
    /\ NextSlot
    /\ UNCHANGED <<update, hpc, bullets, todo, current, collides, still, spent>>

-----------------------------------------------------------------------------

Init ==
    /\ players \in [Slots -> {Pose(Scaled(p), <<One, 0>>) : p \in Places}]
    /\ update = [c \in Slots |-> Still]
    /\ hpc = [c \in Slots |-> "out"]
    /\ bullets = [n \in {} |-> Still]
    /\ bpc = "update" /\ todo = {} /\ current = Null
    /\ i = 0 /\ collides = "unset"
    /\ still = {} /\ spent = {}

Handler(c) == Join(c) \/ RecvUpdate(c) \/ WriteBack(c) \/ CleanSocket(c) \/ CleanPlayer(c)

BroadcastLoop ==
    \/ BeginWalk \/ Fly \/ Skip \/ Test \/ Dies \/ Lives \/ EndWalk
    \/ Alive \/ KillX \/ KillY

Next == BroadcastLoop \/ \E c \in Slots : Handler(c)

\* Nothing keeps the broadcast thread waiting here; clients may do nothing.
Spec == Init /\ [][Next]_vars /\ WF_vars(BroadcastLoop)

-----------------------------------------------------------------------------
(* Properties.                                                             *)

Hit == Test /\ collides' = "yes"

\* Every variable has its type: the bullets in the list are no further than a
\* border that they have not been found to pass.
TypeOK ==
    /\ players \in [Slots -> [pos : (Int \X Int), rotation : Rotations \cup {<<One, 0>>}]]
    /\ update \in [Slots -> [pos : Positions \cup {<<0, 0>>}, rotation : Rotations \cup {<<One, 0>>}]]
    /\ hpc \in [Slots -> {"out", "recv", "write", "clean_player"}]
    /\ DOMAIN bullets \subseteq Nodes
    /\ \A n \in DOMAIN bullets :
          bullets[n] \in [pos : (Int \X Int), dir : (Int \X Int),
                          shooter : Slots \cup {SERVER_SPAWNED_BULLET}]
    /\ bpc \in {"update", "walk", "test", "return", "death", "kill"}
    /\ todo \subseteq DOMAIN bullets
    /\ current \in DOMAIN bullets \cup {Null}
    /\ i \in 0 .. MAX_CLIENTS
    /\ collides \in {"unset", "no", "yes"}
    /\ still \subseteq Slots /\ spent \subseteq DOMAIN bullets

\* No contact is missed: a bullet that lives on touches no other player's ship,
\* unless the ship was moved while the bullet's ships were being looked at.
ContactIsFound ==
    [][Lives => \A c \in still \ {Bullet.shooter} :
                    ~Touch(bbox(Bullet), otherBbox(players[c]))]_vars

\* No hit is made up where a ship lies as bullets do: of a turned ship it is the
\* box around it that is hit.
StraightHitsTouch ==
    [][Hit /\ hpc[i] # "write" /\ 0 \in {players[i].rotation[1], players[i].rotation[2]}
          => Touch(bbox(Bullet), otherBbox(players[i]))]_vars

\* A bullet damages one ship, once: it is removed before it is moved again.
HitsOnce == [][Hit => current \notin spent]_vars

\* Bullets are removed at the border or by a hit; without either only when no
\* other player was there to be asked about.
GoneForAReason ==
    [][Dies /\ current \notin spent => Playing \subseteq {Bullet.shooter}]_vars

\* A ship in the place of the dead is not hit, be it the shooter's or one that
\* has been given hit points again and is still to put to sea: the bullets there
\* are beyond the border, which is looked at first.
DeadAreOutOfReach ==
    [][Hit /\ hpc[i] # "write" => players[i].pos[1] # Dead[1] /\ players[i].pos[2] # Dead[2]]_vars

\* Every bullet comes to its end, whatever the ships do.
BulletsEnd == \A n \in Nodes : n \in DOMAIN bullets ~> n \notin DOMAIN bullets
=============================================================================
