# Specifications of the multiplayer ship game

TLA+ modules about the client and the server of this game (`src/src/`), TLC runs
that check them on small instances, and proofs, checked by TLAPS, of what holds
for every size. Paths below are relative to `src/src/`.

## 1. The system

Up to `MAX_CLIENTS` = 5 clients play on one server over TCP. There is no
simulation step on the server other than its broadcasts: clients move their own
ships and send their whole `Player` record, and the server answers with the
records of all.

| Part | State | Operations | What is hard about it |
|---|---|---|---|
| **Slots and registration** (`server/server.c`) | `players[i].id`, `player_data`, `client_sockets`, `players_mutex`, `clients_mutex` | `accept`, `client_handler` (claim, greet, register, serve, clean up), `send_existing_players_static`, `broadcast_new_player`, the removals in the broadcasts | one thread per client, two mutexes that guard overlapping state, descriptors that the kernel reuses, clients that die at any point |
| **Bullet list and packets** (`server/server.c`) | `head`, `bullets_count`, `bullets_mutex` | `add_bullet`, `update_bullets`, `broadcast_bullets` | the packet is built without the mutex; the limit and the check compute in `size_t` |
| **Vortex spawners, terminal** (`server/bullet_hell_mode.c`) | `spawners`, `spawner_count`, `spawn_vortex_bullets` | `chaos`, `nochaos`, `spawn` | changed by the terminal thread while the broadcast thread spawns |
| **Bullet flight and hits** (`server/server.c`) | position and direction of each bullet | `update_bullet_position`, `is_bullet_dead`, `handle_player_death` | ships are read, and moved, without `players_mutex`; `collides` may be returned unset |
| **Damage and collisions** (`server/server.c`) | `hp`, `collision_byte`, `collisionHashSet` | `is_bullet_dead`, `check_collisions`, `client_handler`'s respawn and write-back, `broadcast_players`, `handle_player_death` | half of the writes are not under `players_mutex`; the client's copy of the record comes back |
| **Cooldown table** (`common/hashset.c`) | `keys`, `values`, `occupied`, `size` | `getHashsetValue`, `putHashsetValue` | probing round a full table |
| **Network thread** (`client/client.c`) | `local_player`, `players`, `player_data`, bullets | `client_communication`, `receive_server_data` | shares everything with the render thread, without a mutex; one `recv` for several messages or for a part of one; the server waits for it, holding its mutexes |
| **Render loop and input** (`game_window.c`) | timers, `is_dead`, `local_player` | `update_timers`, `update_death_state`, `update_local_player`, drawing | the same |
| **Collision queue** (`collision_queue.c`) | ring of `CollisionInfo` | `enqueue_collision`, `dequeue_collision`, `update_collision_queue` | emptied and refilled in place in each frame |
| **Collision geometry** (`common/collisions.c`) | none | `get_rotated_rect_corners`, `sat_obb_collision_check` | which axes are enough to tell two rectangles apart |
| **Sprites, drawing** (`game_window.c`) | textures, shaders | `load_player_sprite`, `draw_players`, `draw_bullets` | reads what the network thread writes |

How they interact. `main` starts the broadcast thread and the terminal thread,
and one `client_handler` thread per accepted connection. The broadcast thread
runs `broadcast_bullets` (which moves the bullets and hits ships),
`check_collisions` (which consults the cooldown table), `broadcast_players` and
`handle_player_death` in a loop. It meets the handlers in `players`,
`client_sockets` and the bullet list. A client has a network thread and a render
thread that meet in `local_player`, the timers, `player_data` and the bullet
arrays; the collision queue belongs to the render thread alone.

What each part must keep: a slot belongs to one handler and is given back; two
players in the game know each other; the packet of bullets is a snapshot that
fits its array; a bullet finds the ships it touches, damages one and comes to its
end; damage that has been shown stays; two ships are not damaged again by one
contact; the cooldown table is a map; the server goes on though a client reads
late; a death is answered by one respawn, after its wait; a ring of effects is a
list.

`PROJECT.json` lists every component and, under `hazards`, the places where the
code is hard to test, with the properties that would catch it going wrong.

## 2. The modules

| Module | Models | Extends or instances |
|---|---|---|
| `PlayerSlots` | slots, registration, broadcasts, descriptors, clients that leave | |
| `BulletList` | the list, the spawners, the building of a packet | |
| `Collisions` | rectangles, the check of two of them, and what it is to find out | |
| `BulletFlight` | bullets on their way among ships that join, move, sink and leave | extends `Collisions` |
| `Connection` | the server's sends and a client's receives, over streams that take only so much | |
| `Combat` | hit points and collision bytes | |
| `CollisionHashSet` | the cooldown table, probe by probe | implements `BoundedMap` |
| `BoundedMap` | abstract: what `check_collisions` expects of the table | |
| `ClientLoop` | the two threads of a client, against a server that kills, revives and is late | |
| `CollisionQueue` | the ring of effects, entry by entry | implements `CollisionEffects`, extends `EffectTimers` |
| `CollisionEffects` | abstract: the running effects, oldest first | extends `EffectTimers` |
| `EffectTimers` | what a list of effects is some time later, for both of the above | |
| `MC...` | symmetry sets, small sets of values and bounds for TLC | the module of that name |
| `..._proofs` | invariants and theorems | the module of that name |

Conventions. A variable has the name of the variable or field of the code. A
`pc`, `npc`, `rpc`, `hpc` or `bpc` says where a thread is. What a thread does
under a mutex that is free before and after, and does not share with anybody
outside it, is one step; everything that another thread may see half done is
several. `x -= d` on a shared variable is a load and a store. `Mutation:` marks
an operator that no specification uses: a plausible slip in the code with which
the property named in `PROJECT.json` fails.

**PlayerSlots.** `Accept`; then per connection the scan for a free id under
`clients_mutex`, one slot a step: `Claim` takes a slot that is free and registers the
socket, `Pass` goes on to the next, or to the refusal behind the last. A cleanup may
free a slot that the scan has passed, since it does so under `players_mutex`; whatever
else takes `clients_mutex` waits for the scan (`ClientsMutexFree`). Then `Hello` (the
player's record, line 381), `Register`, `SendExisting`, `AnnounceRead`,
`AnnounceSkip`, `AnnounceSend` (the loops under `players_mutex`, one slot a
step, the socket read before it is used), `Registered`, `RecvUpdate`,
`WriteBack`, `RecvEnd`, and the cleanup in its three parts `CleanSocket`,
`CleanPlayer`, `CloseSocket`. The broadcast thread has `BroadcastBullets`,
`BulletsWithheld`, `CheckCollisions` (which only waits for the mutex here) and
`BroadcastPlayers`, which closes the sockets to which it cannot send. The kernel
is external: `accept` returns the lowest free descriptor; `Leave` ends a client
and leaves `fin` or `rst`; the first send after that succeeds or fails, the next
raises SIGPIPE. `update_id` is the id the client has been told, which is what
`players[client_id] = update` stores.

**BulletList.** A handler adds a bullet by three stores under `bullets_mutex`: `Shoot`
(`head->next = new_node`, or the head itself), `ShootLink` (`new_node->next = next`) and
`ShootCount` (`bullets_count += 1`). `SpawnOne`, `MoveAlive`, `MoveDead` are the broadcast
thread's under the mutex, then come `ReadHead`, `ReadSize`, `ReadHeader`, `CopyNode`,
`CopyDone`, `Withhold` or `Checked`, `BeginSend`, `Sent`: the head, the count for the
array, the count for the header, the links and the count for the check are five reads
without the mutex, between any two of a handler's stores. Until `ShootLink` the new
bullet's `next` is NULL, and a copy that comes there ends (`NextNode`). `CopyOverrun` is the case of
more nodes than the array has room for: the behaviour is undefined, and the model
stops. `MAX_BULLETS_ALLOWED` is reduced modulo `SizeModulus`, as `size_t` does.

**Collisions.** `get_rotated_rect_corners` and `sat_obb_collision_check` in
integers: a rotation is a vector with whole components (3, 4 and 5 make a turned
ship), and everything is scaled by its length `One`, so that nothing is rounded.
The axes are the normals of the first rectangle's edges only, as in the code.
`Touch` (a corner in the other, or edges that cross) is written independently of
it.

**BulletFlight.** A handler's `Join`, `RecvUpdate` (with or without a shot, which is
added at the place that the update tells of), `WriteBack`, `CleanSocket`,
`CleanPlayer`; the broadcast thread's `BeginWalk` (with or without a spawned
bullet), `Fly` (a bullet moves, and dies at the border), `Skip`, `Test` (one slot a
step), `Dies`, `Lives`, `EndWalk`, and `handle_player_death` as `Alive`, `KillX`,
`KillY`. The positions are read and written without `players_mutex` by the
broadcast thread: of a record that is being written, `Seen` is any mixture of
the old coordinates and the new. `collides` starts `unset`; both outcomes are
open when no ship has set it. Who is dead is open here (`Combat` says how it
comes about).

**Combat.** `ClearLoad`/`ClearStore` (the bullet bit, without a mutex), `Hit`,
`HitHp`, `HitLoad`, `HitByte` (a bullet's damage, without a mutex), `BeginCheck`,
`Skip`, `Apart`, `TooSoon`, `Collision`, `StrikeJ`, `LoadI`, `StrikeI`, `EndCheck`
(`check_collisions`, with its two loops and `collisionMatrix`),
`BroadcastPlayers`; and per handler `RecvUpdate` (with or without a respawn,
which stores hit points without a mutex), `ReadHp`, `WriteBack`. Which bullets
hit is arbitrary, and so is which ships touch, in each order by itself: the
check looks at the axes of one rectangle, and its answer for two ships depends on
which comes first. `age` is the table as a map, with the seconds since a
collision in place of its time; that the table is such a map is what
`CollisionHashSet` and `BoundedMap` are for. All slots are taken. `since` is the time
since a pair damaged each other last, whatever the table did; `lapsed` has the pairs, in
the order of the loops, for which that began no cooldown, because the byte was not the
other ship's bit alone or the table refused it.

**Connection.** Two bounded streams join the server and a client. The broadcast
thread: `Prepare` or `Withhold`, `SendBullets`, `CheckCollisions`, `SendPlayers`. The
client's handler: `RecvUpdate`, `Shoot`, `WriteBack`. The handlers of others, who come
and go once: `Claim`, `Register`, `Announce`, `Leave`, `CleanSocket`, `CleanPlayer`.
Each is enabled when the mutexes it takes are free and the stream has room, so
that a `send` waits with what its thread holds. The client: `Receive`,
`ReceiveBullets`, then `NoBullets` or `CopyBullets` and `Publish`, then `Send`; a `recv`
that takes only a part of a message (`Cut`, and every packet that is longer than
the client's buffer) ends the model, since from there on anything may be taken
for a header. Of a packet two numbers are kept: the bullets that its header counts
(`count`, line 283) and those that it has room for (`records`, line 281), which may be
fewer; the client copies by the first, the length is by the second.

**CollisionHashSet.** `getHashsetValue`, and `putHashsetValue` as `PutFull`,
`PutNew`, `PutAgain`. `Probe(k, n)` is the n-th place that a key's loop visits.

**ClientLoop.** The network thread: `Hello` or `Refused`, then `Receive`, `Send`,
`CheckShoot`, `CheckRespawn`, `Reset` in a loop, one step for each access to
`action`, until `Disconnected`. The render thread: `LoadTimer`, `StoreTimers`,
`SkipFrame`, `LoadHp`, `UpdateDeathState`, `Keys`, `Act`. The server's
`ServerUpdate`, `Damage` and `Broadcast` come at any time, through two bounded
queues. A `Receive` may swallow several messages, of which only the first counts.
`raced` marks a shot after which the cooldown cannot be relied on: its timer was
set while the render thread was between its load and its store, or had already
granted the next shot. `spoiled` marks what `Unspoiled` excludes: a client greeted
among the dead, and a respawn taken again in one death with the player back at sea. That
is wider than the race that does harm: it is set, and nothing is claimed any more, also when
the first respawn was examined and cleared but never sent. Hit points are reduced to
dead or alive and places to at sea or where `DEAD_PLAYER_POS_X` is.

**CollisionQueue.** `BeginUpdate`, `AgeRunning`, `AgeOver`, `EndUpdate` (one turn of
the loop of `update_collision_queue` a step), `Collide`, `EndDraw`. Its refinement mapping
reads a ring in mid-update as the list it will be when the update is over.

## 3. The runs

| Run | Instance | Distinct states | What it shows |
|---|---|---|---|
| `slots` | 3 connections, 2 slots, 3 descriptors | 1 108 531 | slots are exclusive and do not leak; the socket table and the descriptors are sound; static data is exchanged |
| `slots_live` | 2 connections, 2 slots, fair | 44 903 | a claim is served or refused; a client that has gone is cleaned up |
| `slots_assigned_id` | 2 connections | violated | a client can be sent another record before its own |
| `slots_failed_send` | 2 connections | violated | a send to a client that has gone ends the server |
| `bullets` | 4 nodes, a buffer of 2, 2 spawners | 193 704 | the count is the length but for a bullet linked and not yet counted; a packet is a snapshot off by no more than the shots under way or since, unless it ends at a bullet not yet linked on |
| `bullet_flight` | 2 players, 1 bullet at a time, 2 rotations | 577 881 | no contact is missed; a bullet damages one ship and comes to its end, for a reason; the dead are out of reach |
| `connection` | streams of 2 messages each way, 2 others, 0 to 2 bullets for a buffer of 1 | 383 616 | the server and the client go on unless the client's own stream is full as well; what is drawn was written by a copy |
| `combat_damage` | 2 ships, 1 hit point, no table | 5 724 952 | damage that has been shown stays |
| `combat_cooldown` | 2 ships, a table of 3, a cooldown of 1 | 5 202 749 | a pair is damaged once in a tick and, touching no other, not again before its cooldown, if its last collision began one |
| `hashset` | 3 places, 5 keys | 7 170 | the table is the bounded map |
| `client_loop` | cooldowns of 1, frames of 1 or 2, 2 messages each way | 1 593 001 | a respawn is for this death and after its wait; a living player is on the map; shots are cooled down |
| `collision_queue` | a ring of 3, 2 kinds, frames of 0, 1 and 3 | 7 351 | the ring is the list of running effects |

Why these bounds are enough. Three connections for two slots are the smallest
number for which a slot is taken over, a client is refused and a descriptor is
reused while others are in the game, and two slots for a scan to pass one that is freed
behind it. A buffer of two bullets and four nodes lets
the list pass its limit by one and by two, with a removal at its head, in its
middle and at its end, and lets a freed node be allocated again; the margin 5
exceeds the buffer as 256 exceeds 102, so that the subtraction wraps as the
code's does. The table has three places and five keys in
two pairs that collide, so that probes wrap round and puts are refused. A ring
of three with effects that run out in the first, a later or the same frame
passes its end from each position.
Two ships have every order of a pair. What a third adds, keys of several bits,
is only in the proofs, which are for any number. In `combat_damage` the table takes
nothing, so that touching ships are damaged in each tick and hit points move
most; in `combat_cooldown` it has one place fewer than there are bytes.
In `bullet_flight` half sizes, places and the tolerance are in units of six pixels and
the sea is small, so that a bullet is past every border in three steps and ships
are hit at the side, at a corner, at the border, and by a bullet of their own;
bullets meet nothing but ships, and the places they take in the list are the
subject of `BulletList`, so that one at a time is enough. `connection` has two
messages of room each way, so that the client is `Jammed` only behind two updates that its
handler has not read, two who announce themselves to wait for each other, packets of
no bullets, whose header may count one, packets that are longer than the buffer, and too
many bullets to be sent.

Constraints and caps, all named in the modules or configurations:

* `Sound` (`slots`, `slots_live`): what follows a client that was misled about
  its id, or a socket removed by a broadcast, is not explored, and the properties
  promise nothing there. Both are findings of their own or hazards; after them
  slots really can be lost or shared.
* `NobodyRespawns`, `OneUpdateAtATime` (`combat_cooldown`): a respawn sets hit points only, on which neither
  property depends, and the handlers write different records and share only the
  mutex.
* `OneHandlerAtATime` (`bullet_flight`): no handler is between two of its steps while
  another is; they write different ships, and the broadcast thread looks at one
  ship a step.
* `MinHp`: no bullet or collision takes a player below it; `MaxUp`, `MaxDown`:
  messages in flight, behind which a send waits; `MaxBullets`: bullets on the server of
  `Connection`; `Places`, `Rotations`: where and how ships lie; `Nodes`: `malloc` returns no more than these; `Conns`, `Fds`:
  accepted connections and open descriptors. Ages, timers and counts stop one
  beyond the last value that is compared.
* `CHECK_DEADLOCK FALSE` where the system may stop: all clients have gone
  (`PlayerSlots`), an overrun array (`BulletList`), a client that was refused
  (`ClientLoop`), a message that was cut and the circular wait of section 4
  (`Connection`).

Fairness is weak fairness of threads, which the operating system schedules, and
never of what a client or its player decides: no client is assumed to join, to
shoot, to leave or to stay.

* `slots_live`: of each handler and of the broadcast thread while the process is
  up. None waits for anything but the two mutexes, `recv` and `send`. Every holder of
  a mutex releases it after finitely many steps of its own, and only finitely
  many scans, registrations and write-backs compete for it in a model with finitely many
  connections whose clients leave, so that weak fairness is enough; strong fairness of
  `pthread_mutex_lock`, which POSIX does not promise, is not assumed.
* `connection`: of the broadcast thread, of the client's handler, of its network thread
  and of each other handler, whose clients come and go once for the same reason.
  `BroadcastsGoOn` and `NewcomerIsAnnounced` except the state `Jammed`, in which the client waits to send
  because its own stream is full: it is the circular wait that the code allows. Both are
  progress properties, which one moment of that state satisfies, also one that passes
  because the handler reads on; `OnlyTheJammedWait` of section 5 says, state by state,
  that nobody waits in a circle outside it.
* `bullet_flight`: of the broadcast thread, which meets no lock in the model that a
  handler keeps between two of its steps. `BulletsEnd` needs nothing of the
  handlers.

## 4. What the code does differently from what it says

Each is a run that TLC finds violated; `PROJECT.json` has them under `findings`.

1. `AssignedIdIsMine`: the socket is registered before the client's record is
   sent, so that the client may take another player's record for its own and
   print a wrong "Assigned ID" (`client/client.c:174`).
2. `FailedSendIsSurvived`: "Send failed, removing client" (`server/server.c:316`)
   is not reached a second time: SIGPIPE is not handled.

The other disagreements met while modelling have no run: what they are about is in
the models, and the properties say what is left to rely on.

* The client "applies cooldown if needed" (`client/client.c:181`), but a shot may
  follow another without one: when the network thread sets `shoot_timer` between
  the render thread's load and store, and when the next shot was granted before
  the last was sent. `ShotsCooledDown` excepts those two races (`raced`) and TLC finds
  no other.
* `add_bullet` is limited so that the packet fits (`server/server.c:291` asks "how did
  we get there?" when it does not): the limit is computed in `size_t`, wraps round below
  zero and limits nothing. Only the check before the send keeps a packet back.
* A packet may have one record more than the client's buffer, because that check
  forgets the header record: `SentPacketBounded` states the length that is kept.
  The buffer of "up to 200 bullets" (`common/common.h:16`) takes 102.
* The header's count is read later than the array was sized, and may count
  bullets that the packet does not have; `SkewIsByShots` bounds how many. The client
  copies and draws that many: the surplus is whatever its buffer held before
  (`DrawnWasWritten` says no more than that a copy has written it).
* A new bullet is linked to the head (`server/server.c:123`) before it is linked to the rest
  (124), and its `next` is NULL in between. A packet built then has two bullets, counts
  all, and for the rest of the array sends what the stack held. `SnapshotComplete`
  has that case as its second disjunct, and `SkewIsByShots` equates records and header
  only without a shot under way.
* The broadcast loop is to work "at fixed intervals" (`server/server.c:451`). It may wait
  for ever: for room on the way to a client whose handler waits for the
  `bullets_mutex` that the broadcast thread holds, while the client waits for room on the
  way to the handler. `BroadcastsGoOn` holds except in that state.
* "check all normals for both rects" (`common/collisions.c:29`): the normals of the
  first are checked. A bullet hits the box around a turned ship
  (`StraightHitsTouch` is claimed for ships that lie along the axes), and two
  ships may touch in one order and not in the other.
* At the right border (`server/server.c:59`) the tolerance has the other sign than at the other
  three: bullets end before they have left the window.
* A write-back between `check_collisions` and `broadcast_players` restores the
  collision byte that the client was last shown, so that the byte's bits are not
  always collisions (`common/common.h:62`). Nothing is claimed of the bits shown.
* The cooldown is looked up by the bits of all that the outer loop's ship has been
  found to touch. A pair in cooldown is damaged again when that ship also touches
  one of a lower slot, since the two bits together are a key of their own.
* What is entered is the whole byte. A ship that a bullet has hit in the same tick has the
  bullet's bit in it, a third ship its own, and the next collision of the pair finds no
  time under its key; and when the table's 25 places are taken, none of which is ever given
  back, nothing is entered or renewed. In each case the collision begins no cooldown, and
  ships that go on touching are damaged in the next tick, with a full table in every
  tick. `CooldownHeld` claims the cooldown after all other collisions, and names these.

## 5. What is proved

Every theorem is of the specification, for all values of the constants that the
named assumption of the module admits: `SlotsAssumption`, `BulletListAssumption`,
`CombatAssumption`, `HashSetAssumption`, `QueueAssumption`, `ConnectionAssumption`,
`FlightAssumption`, `ClientAssumption`. They say that sizes are naturals, positive where
there must be one, and that null values are none of the others;
`ConnectionAssumption`, that the client's array takes what a buffer holds, as 256
exceeds 102; and `FlightAssumption`, that a rotation has the length `One`, as the sine
and cosine of an angle have, and that the place of the dead is further beyond the border
than a ship and a bullet reach, as -300 is beyond -48 by more than 48, 30 and 12. Each proof module has an inductive invariant `IInv`, shown to hold
initially and to be kept by each action.

| Theorem | Property |
|---|---|
| `PlayerSlots_proofs!SlotsAreExclusive` | `SlotExclusive` |
| `PlayerSlots_proofs!NoSlotLeaks` | `NoLeakedSlot` |
| `PlayerSlots_proofs!SocketTableIsSound` | `SocketTableSound` |
| `PlayerSlots_proofs!DescriptorsAreHeld` | `DescriptorHeld` |
| `PlayerSlots_proofs!FreeSlotsAreUnregistered` | a free slot has no socket |
| `PlayerSlots_proofs!StaticIsExchanged` | `StaticExchange` |
| `BulletList_proofs!CountIsExact` | `CountIsLength` |
| `BulletList_proofs!PacketsAreBounded` | `SentPacketBounded` |
| `BulletList_proofs!SnapshotsAreComplete` | `SnapshotComplete` |
| `BulletList_proofs!SkewsAreByShots` | `SkewIsByShots` |
| `BulletFlight_proofs!BulletsHitOnce` | `HitsOnce` |
| `BulletFlight_proofs!BulletsDieForAReason` | `GoneForAReason` |
| `BulletFlight_proofs!ContactsAreFound` | `ContactIsFound` |
| `BulletFlight_proofs!StraightHitsAreContacts` | `StraightHitsTouch` |
| `BulletFlight_proofs!DeadAreNotReached` | `DeadAreOutOfReach` |
| `Combat_proofs!ShownDamageIsKept` | `ShownDamageStays` |
| `Combat_proofs!PairsAreStruckOnce` | `StruckOnce` |
| `Combat_proofs!CooldownsAreHeld` | `CooldownHeld` |
| `CollisionHashSet_proofs!PutsFindPlaces` | `PutFindsPlace` |
| `CollisionHashSet_proofs!Implements` | `ImplementsMap` |
| `CollisionHashSet_proofs!KeysAreDistinct`, `ProbesAreUnbroken` | no key twice, none behind a free place |
| `ClientLoop_proofs!AliveAreAtSea` | `AliveIsAtSea` |
| `ClientLoop_proofs!RespawnsAreForThisDeath` | `RespawnIsForThisDeath` |
| `ClientLoop_proofs!ShotsAreCooledDown` | `ShotsCooledDown` |
| `Connection_proofs!DrawnIsWritten` | `DrawnWasWritten` |
| `Connection_proofs!LockedOnlyWhileCopying` | the game is locked only while bullets are copied |
| `Connection_proofs!OneAnnounces` | one newcomer announces itself at a time |
| `Connection_proofs!OnlyTheJammedWait` | while the client is not `Jammed`, not all of client, broadcast thread and newcomers wait for each other |
| `CollisionQueue_proofs!RingIsConsistent` | `RingConsistent` |
| `CollisionQueue_proofs!UpdateFindsEntries` | `NeverEmptyHanded` |
| `CollisionQueue_proofs!RingImplementsEffects` | `ImplementsEffects` |
| `TypeCorrect` of each of the eight modules | `TypeOK` |

The arguments.

* *Slots.* Exclusiveness is not inductive alone: a slot could be freed by a
  write-back or a cleanup that carries another slot's id. `HolderSound` says that
  a handler in its slot has its id there, its socket, and a client that knows that id,
  so that what a write-back stores is what was there; `SocketHeld` and
  `DistinctSlots` say the converse, that a registered socket or an id has one
  handler; `OwnerHolds` is the converse of `DescriptorHeld` for the kernel's
  table, without which a reused descriptor could be another handler's. That a scan takes
  a step per slot costs the argument nothing: a slot found free has no handler, and
  without one nothing but this scan writes to it.
* *Slots, static data.* Both loops of a registration run under `players_mutex`, so that
  of two players who are being served one was registered before the other began its
  loops. `Exchanged` says what has been told at each place of the loops: the
  newcomer has heard of the registered slots that its first loop has passed, those have
  heard of the newcomer whose slots the second loop has passed, and all who are served
  have heard of each other. A loop reads the socket of a slot before it uses it
  (`TargetHeld`). What is told of a player depends on its slot only
  (`server/server.c:387`), so that a slot's id stands for it.
* *Bullets.* The count is the length of the list less the bullet that a handler has linked
  and not counted, and the mutex keeps the broadcast thread's changes out until it has
  counted. `Reads` follows the three reads of the count: none is smaller than
  the one before, because handlers only add while the packet is built. The check
  comes last and so bounds the array too. `CurrentLive` says that the copy does
  not stand on a freed node. What a packet holds rests on a second invariant,
  `SInv`. `Grown`: while the packet is built, shots are put in behind the head, and
  what was behind it then is as many places further back. `FollowsBy(d)`: the node
  copied last is d places further back in the list than in the packet, and d only
  grows from one copy to the next, by the shots that the copy has missed. With the
  nodes of the list distinct, the packet is the head, shots, and all the rest; or the
  copy has ended at the second node, before that was linked on, and then there was a shot
  under way at the start or since.
* *Flight.* While ships are asked about, the bullet is current, in the list and
  out of the walk (`CurrentHeld`); one that has hit is about to be removed
  (`SpentIsGone`); and as long as `collides` is unset, nobody that was there but the
  shooter has been asked about (`NobodyAsked`), which a join in the meantime cannot
  change, since it waits for the mutex of the walk.
* *Flight, geometry.* A bullet's box lies along the axes, so that the check, which looks along
  the normals of its edges only, says whether the ranges of the corners meet in both
  coordinates (`BoxCheck`). No contact is missed: a point of a rectangle, of whatever
  rotation, is within the range of its corners, being a mean of them (`InWithin`), and edges that cross
  have ranges that meet (`CrossMeet`). Conversely boxes whose ranges meet have a corner
  of one in the other or edges that cross (`BoxesTouch`), which covers ships along the
  axes. A ship among the dead reaches no further than half its length and half its
  width, and a bullet that is asked about is inside the border. `Looked` says so: what is asked about is
  `InsideBorder`, and a ship that was there unwritten to and did not set `collides` was not
  hit by the check (`AskedUnhit`).
* *Combat.* `ShownDamageStays` rests on `Pending`: hit points that a handler has
  read for its write-back, or the broadcast thread for a subtraction, are no more
  than has been shown, unless the player has respawned since; and at the moment of
  the broadcast no more than is shown then, because `check_collisions` has held
  `players_mutex` between the last bullet's hit and the broadcast, so that no
  handler is still in a write-back begun before (`MutexHeld`). `StruckOnce` rests
  on `Marked`: ships that have damaged each other in this tick are in each
  other's bytes, and those about to are not. `CooldownHeld` rests on `Cooling`,
  which is inductive under `IInv`: as long as a pair's cooldown runs, each ship's bit by
  itself is a key of the table, and no older than the cooldown, unless the pair has
  `lapsed` in the order that would look for it; a put renews or is refused, and makes no
  key older.
* *Hash table.* A probe sequence is a bijection onto the places; since `size`
  counts the taken ones (`SizeCounts`, by `FiniteSetTheorems`), one below the
  limit is free. With `ProbesUnbroken` a put meets a key that is there before it
  meets a free place; hence keys are distinct, and get and put are the map's.
* *Client, deaths.* `AliveIsAtSea` and `RespawnIsForThisDeath` depend on what is on
  its way. From the client to the server the player is dead, then alive, then
  dead, with no more than one change of each kind: `DiesOnce` says of each message
  that says dead, behind one that says alive or with a client that still takes the player for alive,
  that all behind it and the server say dead. So who is found dead is dead all
  the way (`DeathOnItsWay`, `DeadAllTheWay`) until its own respawn is sent; of
  respawns there is one at most on its way, and nothing has been heard of it yet
  (`AskedOnce`); it was taken by the render thread from among the dead, or has been
  sent and is cleared next (`ToBeSent`). Hence the answer comes behind the move. `Waiting`
  ties the wait to the timer. All of it holds as long as the run is `Unspoiled`,
  which is never regained.
* *Client, shots.* `Cooling`: unless raced, the timer is covered by what has been
  counted, and so is what the render thread has read of it, up to the store; a shot
  that is granted, set or about to be sent has been counted for.
* *Connection.* The game is locked in two places of `receive_server_data` and in no
  other; what is about to be published has been written, from the packet or from what
  lies behind it; `players_mutex` is held by
  who announces. So, when the client waits in `recv`, the stream to it is empty and
  has room: the broadcast thread goes on, or else waits for who announces, and that
  one has room too (`OnlyTheJammedWait`). The guards in it are spelled out, `ENABLED`
  being out of reach.
* *Ring.* `RingConsistent` and `todo <= size` through each turn of an update. From them,
  the refinement: the place that `rear` moves to is the one behind the last entry and no
  other entry's (`PlacesApart`), so that a turn takes the first entry off the list
  and puts it, if at all, at the end (`Dequeued`, `Shifted`). What a turn takes is the
  first of those still to be aged, which run on or not apart from the rest
  (`LaterFirst`), so that the list as it will be stays as it is.

`Later` is a recursive function, and what it computes for a list of any length is
proved by induction: `NumberInduction` states induction for a set of numbers, from
the well-foundedness of their order, and each use of it defines its set.

Only model-checked: the liveness of `slots_live` (`JoinResolves`, `GoneIsCleanedUp`), of
`connection` (`LockIsReleased`, `BroadcastsGoOn`, `NewcomerIsAnnounced`) and of
`bullet_flight` (`BulletsEnd`), since liveness and `ENABLED` are out of the prover's reach.
Every other property of a passing run is a theorem. The two violated properties of
section 4 are refuted by TLC's counterexamples.

## 6. What is not modelled

* The client's movement, bouncing (with the collision normal, which may be unset) and
  interpolation, and the vortex's angle and clock: arithmetic on floats, on which
  no other part depends but through positions, and those are open in
  `BulletFlight`. There rotations with irrational sines are left out.
* Sprites, shaders and drawing: OpenGL and SDL. The hand-over of `player_data` to the
  loading of sprites is a hazard without a property.
* `connect_to_server` and the client's startup, before it has its own record; the window
  and key handling of SDL.
* `server_busy`, `usleep` and `connected_clients_count`: they change the timing, or
  are only counted and printed.
* Printing; vendored libraries; the empty `player.c` and `player.h`;
  `updateHashsetCollision`, which nothing calls.
* TCP is reliable and ordered per connection. Messages merged by the stream appear in
  `ClientLoop` and `Connection` as lost ones; a cut one ends `Connection`. Socket buffers
  are unbounded in `PlayerSlots`, where a `send` does not block; that it does is the
  subject of `Connection`, where in turn the client in question stays.
* Plain loads and stores are atomic and in program order. A record is stored in one
  step in all modules but `BulletFlight`, and `broadcast_players` sends to all in one
  step.
* Joining and leaving in `Combat`, and clients there and in `BulletFlight` that have a
  wrong id.

The vendored SDL and cglm are nearly all of the repository's lines. The game's
own code is what the modules are about.

## 7. Plan

Done: `PlayerSlots`, `BulletList`, `CollisionHashSet` with `BoundedMap`, `CollisionQueue`
with `CollisionEffects`, `ClientLoop`, `Combat`, `Connection`, `Collisions` and
`BulletFlight`, in the order of how much depends on each, and for each an
inductive invariant.

Next, in this order:

1. `Combat` with players that join and leave, composed with the slots of
   `PlayerSlots`; `Combat` over `BoundedMap` by a refinement mapping.
2. The hand-over of `player_data` to the sprite loading by `should_update_sprites`
   (`game_window.c:1022`), with the network thread that writes both.
3. The `server_busy` handshake between registrations and the broadcast thread.
4. Proofs: the parts of the liveness properties that are safety, as
   `OnlyTheJammedWait` is for `BroadcastsGoOn`: from each waiting state, which step its
   thread takes next and that no other thread can take that step away.
