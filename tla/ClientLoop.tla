----------------------------- MODULE ClientLoop -----------------------------
(***************************************************************************)
(* The two threads of a client (src/client/client.c, src/game_window.c),   *)
(* which share local_player and the timers without a mutex: the network    *)
(* thread receives one message, sends local_player and clears its action;  *)
(* the render thread counts the timers down and turns keys into actions.   *)
(* Each access to a variable the other thread writes is a step of its own. *)
(*                                                                         *)
(* Of the server there is what decides whether the player lives.  Hit      *)
(* points are dead or alive, places are at sea or where the dead are put;  *)
(* movement, collisions and drawing are left out.  A timer is counted in   *)
(* ticks and stays at -1 once it is below 0.                               *)
(***************************************************************************)
EXTENDS Integers, Sequences

CONSTANTS
    SHOOT_COOLDOWN,
    RESPAWN_COOLDOWN,
    Deltas,          \* the values of delta_time
    MaxUp, MaxDown   \* the messages in flight each way: bounds of the model

ASSUME ClientAssumption ==
    /\ SHOOT_COOLDOWN \in Nat
    /\ RESPAWN_COOLDOWN \in Nat
    /\ Deltas \subseteq Nat
    /\ MaxUp \in Nat \ {0} /\ MaxDown \in Nat \ {0}

VARIABLES
    \* local_player
    action, alive, place,
    \* the other shared globals
    shoot_timer, respawn_timer, is_dead, is_player_initialized,
    \* the network thread, and the render thread with what it has read
    npc, rpc, delta_time, timer_read, alive_read, wish,
    \* the connection, and the player on the server
    up, down, server_alive,
    \* history
    counted,     \* of the cooldown of the last shot, how much has been counted
    waited,      \* since this death
    raced,       \* see CheckShoot
    spoiled      \* see Unspoiled

player == <<action, alive, place>>
timers == <<shoot_timer, respawn_timer>>
frame  == <<rpc, delta_time, timer_read, alive_read, wish>>
server == <<up, down, server_alive>>
vars   == <<player, timers, is_dead, is_player_initialized, npc, frame, server,
            counted, waited, raced, spoiled>>

Actions == {"none", "shoot", "respawn"}

\* What the server sends: the hit points, or static data or bullets, which say
\* nothing of them.
Hp(living) == IF living THEN "alive" ELSE "dead"
Messages   == {"alive", "dead", "other"}

\* A timer or a count, no further than matters.
Lower(timer, d)        == IF timer - d < 0 THEN -1 ELSE timer - d
CountOn(count, d, max) == IF count + d > max THEN max + 1 ELSE count + d

-----------------------------------------------------------------------------
(* client_communication.                                                   *)

\* The server may have put a player it took for dead elsewhere by now.
Hello ==
    /\ npc = "hello"
    /\ \E p \in {"sea", "dead"} : place' = p /\ spoiled' = (p = "dead")
    /\ alive' = TRUE
    /\ action' = "none"
    /\ is_player_initialized' = TRUE
    /\ npc' = "recv"
    /\ UNCHANGED <<timers, is_dead, frame, server, counted, waited, raced>>

\* "Failed to receive initial local player data": the server is full.
Refused ==
    /\ npc = "hello"
    /\ npc' = "ended"
    /\ UNCHANGED <<player, timers, is_dead, is_player_initialized, frame, server,
                   counted, waited, spoiled, raced>>

\* receive_server_data: one recv may take several messages, and all but the
\* first of them are lost.
Receive ==
    /\ npc = "recv"
    /\ \E n \in 1 .. Len(down) : down' = SubSeq(down, n + 1, Len(down))
    /\ alive' = IF Head(down) = "other" THEN alive ELSE Head(down) = "alive"
    /\ npc' = "send"
    /\ UNCHANGED <<action, place, timers, is_dead, is_player_initialized, frame,
                   up, server_alive, counted, waited, spoiled, raced>>

Send ==
    /\ npc = "send"
    /\ Len(up) < MaxUp
    /\ up' = Append(up, action)
    /\ npc' = "check_shoot"
    /\ UNCHANGED <<player, timers, is_dead, is_player_initialized, frame,
                   down, server_alive, counted, waited, spoiled, raced>>

\* The server has gone: nothing that is received or sent from here on matters, and
\* the render thread is left to itself.
Disconnected ==
    /\ npc \in {"recv", "send"}
    /\ npc' = "ended"
    /\ UNCHANGED <<player, timers, is_dead, is_player_initialized, frame, server,
                   counted, waited, spoiled, raced>>

\* Mutation: the cooldown makes up for the frame under way.
CheckShootCompensated ==
    /\ npc = "check_shoot"
    /\ IF action = "shoot"
       THEN shoot_timer' = SHOOT_COOLDOWN + delta_time /\ counted' = 0 /\ raced' = FALSE
       ELSE UNCHANGED <<shoot_timer, counted, raced>>
    /\ npc' = "check_respawn"
    /\ UNCHANGED <<player, respawn_timer, is_dead, is_player_initialized, frame, server,
                   waited, spoiled>>

\* The timer is set behind the render thread's back when that is about to store
\* what it has read before, or to take another shot that it has granted before.
CheckShoot ==
    /\ npc = "check_shoot"
    /\ IF action = "shoot"
       THEN /\ shoot_timer' = SHOOT_COOLDOWN /\ counted' = 0
            /\ raced' = (rpc = "store" \/ (rpc = "act" /\ wish = "shoot"))
       ELSE UNCHANGED <<shoot_timer, counted, raced>>
    /\ npc' = "check_respawn"
    /\ UNCHANGED <<player, respawn_timer, is_dead, is_player_initialized, frame, server,
                   waited, spoiled>>

\* Mutation: the respawned player stays where it is.
CheckRespawnHere ==
    /\ npc = "check_respawn"
    /\ npc' = "reset"
    /\ UNCHANGED <<player, timers, is_dead, is_player_initialized, frame, server,
                   counted, waited, spoiled, raced>>

CheckRespawn ==
    /\ npc = "check_respawn"
    /\ place' = IF action = "respawn" THEN "sea" ELSE place
    /\ npc' = "reset"
    /\ UNCHANGED <<action, alive, timers, is_dead, is_player_initialized, frame, server,
                   counted, waited, spoiled, raced>>

\* Mutation: only a shot is cleared.
ResetShot ==
    /\ npc = "reset"
    /\ action' = IF action = "shoot" THEN "none" ELSE action
    /\ npc' = "recv"
    /\ UNCHANGED <<alive, place, timers, is_dead, is_player_initialized, frame, server,
                   counted, waited, spoiled, raced>>

Reset ==
    /\ npc = "reset"
    /\ action' = "none"
    /\ npc' = "recv"
    /\ UNCHANGED <<alive, place, timers, is_dead, is_player_initialized, frame, server,
                   counted, waited, spoiled, raced>>

-----------------------------------------------------------------------------
(* SDL_AppInit and SDL_AppIterate.                                         *)

\* Behind the spin on is_player_initialized.
StartRendering ==
    /\ rpc = "init"
    /\ is_player_initialized
    /\ rpc' = "timers"
    /\ UNCHANGED <<player, timers, is_dead, is_player_initialized, npc, delta_time,
                   timer_read, alive_read, wish, server, counted, waited, spoiled, raced>>

\* update_timers: shoot_timer -= delta_time is a load and a store.
LoadTimer ==
    /\ rpc = "timers"
    /\ delta_time' \in Deltas
    /\ timer_read' = shoot_timer
    /\ rpc' = "store"
    /\ UNCHANGED <<player, timers, is_dead, is_player_initialized, npc, alive_read, wish,
                   server, counted, waited, spoiled, raced>>

StoreTimers ==
    /\ rpc = "store"
    /\ shoot_timer' = Lower(timer_read, delta_time)
    /\ respawn_timer' = Lower(respawn_timer, delta_time)
    /\ counted' = CountOn(counted, delta_time, SHOOT_COOLDOWN)
    /\ waited' = CountOn(waited, delta_time, RESPAWN_COOLDOWN)
    /\ delta_time' = 0 /\ timer_read' = 0
    /\ rpc' = "death"
    /\ UNCHANGED <<player, is_dead, is_player_initialized, npc, alive_read, wish, server,
                   spoiled, raced>>

\* is_update_locked: the network thread is about to copy bullets.
SkipFrame ==
    /\ rpc = "death"
    /\ npc = "recv"
    /\ rpc' = "timers"
    /\ UNCHANGED <<player, timers, is_dead, is_player_initialized, npc, delta_time,
                   timer_read, alive_read, wish, server, counted, waited, spoiled, raced>>

LoadHp ==
    /\ rpc = "death"
    /\ alive_read' = alive
    /\ rpc' = "dead"
    /\ UNCHANGED <<player, timers, is_dead, is_player_initialized, npc, delta_time,
                   timer_read, wish, server, counted, waited, spoiled, raced>>

\* update_death_state
UpdateDeathState ==
    /\ rpc = "dead"
    /\ IF ~alive_read /\ ~is_dead
       THEN /\ respawn_timer' = RESPAWN_COOLDOWN
            /\ waited' = 0
            /\ place' = "dead"
       ELSE UNCHANGED <<respawn_timer, waited, place>>
    /\ is_dead' = ~alive_read
    /\ alive_read' = TRUE
    /\ rpc' = "keys"
    /\ UNCHANGED <<action, alive, shoot_timer, is_player_initialized, npc, delta_time,
                   timer_read, wish, server, counted, spoiled, raced>>

\* Mutation: a shot is granted as soon as the timer is at 0.
KeysAtZero ==
    /\ rpc = "keys"
    /\ \/ wish' = "none" /\ rpc' = "timers"
       \/ is_dead /\ respawn_timer < 0 /\ wish' = "respawn" /\ rpc' = "act"
       \/ ~is_dead /\ shoot_timer <= 0 /\ wish' = "shoot" /\ rpc' = "act"
    /\ UNCHANGED <<player, timers, is_dead, is_player_initialized, npc, delta_time,
                   timer_read, alive_read, server, counted, waited, spoiled, raced>>

\* The keys that are down, and the timer they are subject to.
Keys ==
    /\ rpc = "keys"
    /\ \/ wish' = "none" /\ rpc' = "timers"
       \/ is_dead /\ respawn_timer < 0 /\ wish' = "respawn" /\ rpc' = "act"
       \/ ~is_dead /\ shoot_timer < 0 /\ wish' = "shoot" /\ rpc' = "act"
    /\ UNCHANGED <<player, timers, is_dead, is_player_initialized, npc, delta_time,
                   timer_read, alive_read, server, counted, waited, spoiled, raced>>

Act ==
    /\ rpc = "act"
    /\ action' = wish
    /\ spoiled' = (spoiled \/ (wish = "respawn" /\ place = "sea"))
    /\ wish' = "none"
    /\ rpc' = "timers"
    /\ UNCHANGED <<alive, place, timers, is_dead, is_player_initialized, npc, delta_time,
                   timer_read, alive_read, server, counted, waited, raced>>

-----------------------------------------------------------------------------
(* The server: client_handler, the damage, and broadcast_players.          *)

ServerUpdate ==
    /\ up # <<>>
    /\ up' = Tail(up)
    /\ server_alive' = (server_alive \/ Head(up) = "respawn")
    /\ UNCHANGED <<player, timers, is_dead, is_player_initialized, npc, frame, down,
                   counted, waited, spoiled, raced>>

Damage ==
    /\ npc \notin {"hello", "ended"}
    /\ server_alive' = FALSE
    /\ UNCHANGED <<player, timers, is_dead, is_player_initialized, npc, frame, up, down,
                   counted, waited, spoiled, raced>>

Broadcast ==
    /\ npc \notin {"hello", "ended"}
    /\ Len(down) < MaxDown
    /\ \E m \in {Hp(server_alive), "other"} : down' = Append(down, m)
    /\ UNCHANGED <<player, timers, is_dead, is_player_initialized, npc, frame, up,
                   server_alive, counted, waited, spoiled, raced>>

-----------------------------------------------------------------------------

Init ==
    /\ action = "none" /\ alive = TRUE /\ place = "sea"
    /\ shoot_timer = 0 /\ respawn_timer = 0
    /\ is_dead = FALSE
    /\ is_player_initialized = FALSE
    /\ npc = "hello" /\ rpc = "init"
    /\ delta_time = 0 /\ timer_read = 0 /\ alive_read = TRUE /\ wish = "none"
    /\ up = <<>> /\ down = <<>> /\ server_alive = TRUE
    /\ counted = SHOOT_COOLDOWN + 1
    /\ waited = 0
    /\ raced = FALSE /\ spoiled = FALSE

Network ==
    \/ Hello \/ Refused \/ Receive \/ Send \/ Disconnected
    \/ CheckShoot \/ CheckRespawn \/ Reset

Render ==
    \/ StartRendering \/ LoadTimer \/ StoreTimers \/ SkipFrame
    \/ LoadHp \/ UpdateDeathState \/ Keys \/ Act

Server == ServerUpdate \/ Damage \/ Broadcast

Next == Network \/ Render \/ Server

Spec == Init /\ [][Next]_vars

-----------------------------------------------------------------------------
(* Properties.                                                             *)

\* Every variable has its type: no timer is set beyond its cooldown.
TypeOK ==
    /\ action \in Actions /\ wish \in Actions
    /\ alive \in BOOLEAN /\ server_alive \in BOOLEAN /\ alive_read \in BOOLEAN
    /\ place \in {"sea", "dead"}
    /\ shoot_timer \in -1 .. SHOOT_COOLDOWN /\ timer_read \in -1 .. SHOOT_COOLDOWN
    /\ respawn_timer \in -1 .. RESPAWN_COOLDOWN
    /\ is_dead \in BOOLEAN /\ is_player_initialized \in BOOLEAN
    /\ raced \in BOOLEAN /\ spoiled \in BOOLEAN
    /\ npc \in {"hello", "ended", "recv", "send", "check_shoot", "check_respawn", "reset"}
    /\ rpc \in {"init", "timers", "store", "death", "dead", "keys", "act"}
    /\ delta_time \in Deltas \cup {0}
    /\ up \in Seq(Actions) /\ Len(up) <= MaxUp
    /\ down \in Seq(Messages) /\ Len(down) <= MaxDown
    /\ counted \in 0 .. SHOOT_COOLDOWN + 1
    /\ waited \in 0 .. RESPAWN_COOLDOWN + 1

\* The server has not put the player among the dead before greeting its client,
\* and the respawn key has not been taken again in one death once the network
\* thread had moved the player back to sea.  If it had sent the first respawn, the
\* second would be left over for the next death; if it had only examined and
\* cleared that one, nothing would be, but nothing is claimed then either.
Unspoiled == ~spoiled

\* A player that its client takes for alive is not where the dead are put: the
\* network thread moves it away after it has sent the respawn, and whatever the
\* render thread does and the connection delays or loses meanwhile, it is there
\* before the server's answer.
AliveIsAtSea == Unspoiled /\ ~is_dead => place = "sea"

\* A respawn that waits to be sent, or will next be put there to be sent, is for
\* this death, and the player has waited for it: one asked for in an earlier
\* death is never left over.
RespawnIsForThisDeath ==
    Unspoiled /\ is_dead /\ "respawn" \in {action, wish} => waited > RESPAWN_COOLDOWN

\* A cooldown is counted down to its end before the next shot is sent, whatever
\* becomes of the frames and messages meanwhile.  Only the two races of CheckShoot
\* defeat it; "apply cooldown if needed" (client.c:181) does not except them.
ShotsCooledDown ==
    [][Send /\ action = "shoot" /\ ~raced => counted > SHOOT_COOLDOWN]_vars
=============================================================================
