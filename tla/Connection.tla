----------------------------- MODULE Connection -----------------------------
(***************************************************************************)
(* The server and one client in the game, joined by two streams that take  *)
(* only so much: a send waits for room, with the mutexes its thread holds  *)
(* (src/server/server.c, src/client/client.c).                             *)
(*                                                                         *)
(* The broadcast thread, the client_handler of the client and those of     *)
(* others who come and go send and receive; the client's network thread    *)
(* receives a message, copies what is in it and sends its player.  Other   *)
(* clients always have room.  Of what is sent only how many bullets a      *)
(* packet has matters, and how many its header counts, which may be more;  *)
(* how they are read is the subject of BulletList.                         *)
(*                                                                         *)
(* A stream does not keep messages apart.  A recv may take several, of     *)
(* which the first is looked at, or cut one, after which what the client   *)
(* takes for headers are not; the model stops there.                       *)
(***************************************************************************)
EXTENDS Integers, Sequences

CONSTANTS
    Others,                    \* clients that come and go once
    MAX_BULLETS_PER_BUFFER,
    bullet_capacity,
    MaxBullets,                \* on the server: a bound of the model
    MaxUp, MaxDown,            \* the messages a stream takes
    Nobody

ASSUME ConnectionAssumption ==
    /\ MAX_BULLETS_PER_BUFFER \in Nat /\ bullet_capacity \in Nat /\ MaxBullets \in Nat
    /\ MAX_BULLETS_PER_BUFFER <= bullet_capacity
    /\ MaxUp \in Nat \ {0} /\ MaxDown \in Nat \ {0}
    /\ Nobody \notin Others

VARIABLES
    up, down,            \* how many updates, and which messages are on the way
    players_mutex,
    bpc, readyBullets,   \* the broadcast thread and its packet
    hpc,                 \* the client's handler
    jpc,                 \* those of the others
    \* the client's network thread
    npc, bullets_to_copy,
    is_update_locked, existing_bullets,
    written              \* how many of the records of bullets have been written

server == <<players_mutex, bpc, readyBullets, hpc, jpc>>
client == <<npc, bullets_to_copy, is_update_locked, existing_bullets, written>>
vars   == <<up, down, server, client>>

\* A packet of bullets: what its header counts, and how many the array has room for.
Bullets(n, r) == [kind |-> "bullets", count |-> n, records |-> r]
Players       == [kind |-> "players"]
Static        == [kind |-> "static"]
NoPacket      == [kind |-> "none"]
Packets       == {Bullets(n, r) : n \in 0 .. MAX_BULLETS_PER_BUFFER, r \in 0 .. MAX_BULLETS_PER_BUFFER}
Messages      == {Players, Static} \cup Packets

Room    == Len(down) < MaxDown
Sent(m) == Room /\ down' = Append(down, m)

\* The broadcast thread keeps clients_mutex and bullets_mutex while it sends bullets.
ClientsFree == bpc \notin {"bullets", "players"}
BulletsFree == bpc # "bullets"

-----------------------------------------------------------------------------
(* broadcast_loop.                                                         *)

\* Mutation: a packet that is too long is sent all the same.
PrepareUnchecked ==
    /\ bpc = "update"
    /\ \E n \in 0 .. MaxBullets : readyBullets' = Bullets(n, n)
    /\ bpc' = "bullets"
    /\ UNCHANGED <<up, down, players_mutex, hpc, jpc, client>>

\* The array is sized, its header set and the count checked one after the other,
\* while shots may raise the count.
Prepare ==
    /\ bpc = "update"
    /\ \E n \in 0 .. MaxBullets :
          /\ n <= MAX_BULLETS_PER_BUFFER
          /\ \E h \in 0 .. n : \E r \in 0 .. h : readyBullets' = Bullets(h, r)
    /\ bpc' = "bullets"
    /\ UNCHANGED <<up, down, players_mutex, hpc, jpc, client>>

Withhold ==
    /\ bpc = "update"
    /\ MaxBullets > MAX_BULLETS_PER_BUFFER
    /\ bpc' = "check"
    /\ UNCHANGED <<up, down, players_mutex, readyBullets, hpc, jpc, client>>

SendBullets ==
    /\ bpc = "bullets"
    /\ Sent(readyBullets)
    /\ readyBullets' = NoPacket
    /\ bpc' = "check"
    /\ UNCHANGED <<up, players_mutex, hpc, jpc, client>>

CheckCollisions ==
    /\ bpc = "check"
    /\ players_mutex = Nobody
    /\ bpc' = "players"
    /\ UNCHANGED <<up, down, players_mutex, readyBullets, hpc, jpc, client>>

SendPlayers ==
    /\ bpc = "players"
    /\ Sent(Players)
    /\ bpc' = "update"
    /\ UNCHANGED <<up, players_mutex, readyBullets, hpc, jpc, client>>

-----------------------------------------------------------------------------
(* The client_handler of the client.                                       *)

RecvUpdate ==
    /\ hpc = "recv"
    /\ up > 0
    /\ up' = up - 1
    /\ hpc' \in {"shoot", "write"}
    /\ UNCHANGED <<down, players_mutex, bpc, readyBullets, jpc, client>>

Shoot ==
    /\ hpc = "shoot"
    /\ BulletsFree
    /\ hpc' = "write"
    /\ UNCHANGED <<up, down, players_mutex, bpc, readyBullets, jpc, client>>

WriteBack ==
    /\ hpc = "write"
    /\ players_mutex = Nobody
    /\ hpc' = "recv"
    /\ UNCHANGED <<up, down, players_mutex, bpc, readyBullets, jpc, client>>

-----------------------------------------------------------------------------
(* The client_handler of another: it tells the client of the newcomer.     *)

Goto(c, there) == jpc' = [jpc EXCEPT ![c] = there]

Claim(c) ==
    /\ jpc[c] = "away"
    /\ ClientsFree
    /\ Goto(c, "claimed")
    /\ UNCHANGED <<up, down, players_mutex, bpc, readyBullets, hpc, client>>

\* Mutation: the players are announced without the mutex.
RegisterUnlocked(c) ==
    /\ jpc[c] = "claimed"
    /\ players_mutex = Nobody
    /\ Goto(c, "announce")
    /\ UNCHANGED <<up, down, players_mutex, bpc, readyBullets, hpc, client>>

Register(c) ==
    /\ jpc[c] = "claimed"
    /\ players_mutex = Nobody
    /\ players_mutex' = c
    /\ Goto(c, "announce")
    /\ UNCHANGED <<up, down, bpc, readyBullets, hpc, client>>

\* Mutation: the mutex is not released.
AnnounceHeld(c) ==
    /\ jpc[c] = "announce"
    /\ Sent(Static)
    /\ Goto(c, "serve")
    /\ UNCHANGED <<up, players_mutex, bpc, readyBullets, hpc, client>>

\* broadcast_new_player, under players_mutex.
Announce(c) ==
    /\ jpc[c] = "announce"
    /\ Sent(Static)
    /\ players_mutex' = Nobody
    /\ Goto(c, "serve")
    /\ UNCHANGED <<up, bpc, readyBullets, hpc, client>>

Leave(c) ==
    /\ jpc[c] = "serve"
    /\ Goto(c, "clean_socket")
    /\ UNCHANGED <<up, down, players_mutex, bpc, readyBullets, hpc, client>>

CleanSocket(c) ==
    /\ jpc[c] = "clean_socket"
    /\ ClientsFree
    /\ Goto(c, "clean_player")
    /\ UNCHANGED <<up, down, players_mutex, bpc, readyBullets, hpc, client>>

CleanPlayer(c) ==
    /\ jpc[c] = "clean_player"
    /\ players_mutex = Nobody
    /\ Goto(c, "done")
    /\ UNCHANGED <<up, down, players_mutex, bpc, readyBullets, hpc, client>>

-----------------------------------------------------------------------------
(* client_communication and receive_server_data.                           *)

\* A full packet is a record longer than the client's buffer.
TooLong(m) == m.kind = "bullets" /\ m.records >= MAX_BULLETS_PER_BUFFER

\* Whole messages are taken, and the first is looked at.
Take(kinds) ==
    /\ npc = "recv"
    /\ \E n \in 1 .. Len(down) :
          /\ \A m \in 1 .. n : ~TooLong(down[m])
          /\ down' = SubSeq(down, n + 1, Len(down))
    /\ Head(down).kind \in kinds

Receive ==
    /\ Take({"players", "static"})
    /\ npc' = "send"
    /\ UNCHANGED <<up, server, bullets_to_copy, is_update_locked, existing_bullets, written>>

ReceiveBullets ==
    /\ Take({"bullets"})
    /\ is_update_locked' = TRUE
    /\ bullets_to_copy' = Head(down).count
    /\ npc' = "bullets"
    /\ UNCHANGED <<up, server, existing_bullets, written>>

Cut ==
    /\ npc = "recv"
    /\ down # <<>>
    /\ npc' = "cut"
    /\ UNCHANGED <<up, down, server, bullets_to_copy, is_update_locked, existing_bullets, written>>

\* Mutation: the game stays locked.
NoBulletsLocked ==
    /\ npc = "bullets"
    /\ bullets_to_copy = 0
    /\ npc' = "send"
    /\ UNCHANGED <<up, down, server, is_update_locked, bullets_to_copy, existing_bullets, written>>

\* "get out asap": existing_bullets stays what it was.
NoBullets ==
    /\ npc = "bullets"
    /\ bullets_to_copy = 0
    /\ is_update_locked' = FALSE
    /\ npc' = "send"
    /\ UNCHANGED <<up, down, server, bullets_to_copy, existing_bullets, written>>

\* Mutation: what is copied is the size of a pointer, as it is for bullets_last.
CopyBulletsPointer ==
    /\ npc = "bullets"
    /\ bullets_to_copy > 0
    /\ npc' = "publish"
    /\ UNCHANGED <<up, down, server, bullets_to_copy, is_update_locked, existing_bullets, written>>

\* "clients bullets overflowed" returns with the game locked.
CopyBullets ==
    /\ npc = "bullets"
    /\ bullets_to_copy > 0
    /\ IF bullets_to_copy > bullet_capacity
       THEN npc' = "send" /\ UNCHANGED written
       ELSE npc' = "publish" /\ written' = IF bullets_to_copy > written THEN bullets_to_copy ELSE written
    /\ UNCHANGED <<up, down, server, bullets_to_copy, is_update_locked, existing_bullets>>

Publish ==
    /\ npc = "publish"
    /\ existing_bullets' = bullets_to_copy
    /\ bullets_to_copy' = 0
    /\ is_update_locked' = FALSE
    /\ npc' = "send"
    /\ UNCHANGED <<up, down, server, written>>

Send ==
    /\ npc = "send"
    /\ up < MaxUp
    /\ up' = up + 1
    /\ npc' = "recv"
    /\ UNCHANGED <<down, server, bullets_to_copy, is_update_locked, existing_bullets, written>>

-----------------------------------------------------------------------------

\* The client is in the game and has been sent its own record.
Init ==
    /\ up = 0 /\ down = <<>>
    /\ players_mutex = Nobody
    /\ bpc = "update" /\ readyBullets = NoPacket
    /\ hpc = "recv"
    /\ jpc = [c \in Others |-> "away"]
    /\ npc = "recv" /\ bullets_to_copy = 0
    /\ is_update_locked = FALSE /\ existing_bullets = 0 /\ written = 0

BroadcastLoop == Prepare \/ Withhold \/ SendBullets \/ CheckCollisions \/ SendPlayers

Handler == RecvUpdate \/ Shoot \/ WriteBack

Other(c) == Claim(c) \/ Register(c) \/ Announce(c) \/ CleanSocket(c) \/ CleanPlayer(c)

Network ==
    \/ Receive \/ ReceiveBullets \/ Cut
    \/ NoBullets \/ CopyBullets \/ Publish \/ Send

Next == BroadcastLoop \/ Handler \/ Network \/ \E c \in Others : Other(c) \/ Leave(c)

\* Each thread goes on when nothing keeps it waiting; nobody has to leave.
Fairness ==
    /\ WF_vars(BroadcastLoop) /\ WF_vars(Handler) /\ WF_vars(Network)
    /\ \A c \in Others : WF_vars(Other(c))

Spec == Init /\ [][Next]_vars /\ Fairness

-----------------------------------------------------------------------------
(* Properties.                                                             *)

\* Every variable has its type: no packet counts more bullets than the server's
\* check lets through.
TypeOK ==
    /\ up \in 0 .. MaxUp
    /\ down \in Seq(Messages) /\ Len(down) <= MaxDown
    /\ players_mutex \in Others \cup {Nobody}
    /\ bpc \in {"update", "bullets", "check", "players"}
    /\ readyBullets \in Packets \cup {NoPacket}
    /\ bpc = "bullets" => readyBullets \in Packets
    /\ hpc \in {"recv", "shoot", "write"}
    /\ jpc \in [Others -> {"away", "claimed", "announce", "serve", "clean_socket",
                           "clean_player", "done"}]
    /\ npc \in {"recv", "bullets", "publish", "send", "cut"}
    /\ bullets_to_copy \in 0 .. MAX_BULLETS_PER_BUFFER
    /\ is_update_locked \in BOOLEAN
    /\ existing_bullets \in 0 .. bullet_capacity /\ written \in 0 .. bullet_capacity

\* draw_bullets takes no mutex and reads existing_bullets again before each
\* record: whenever it looks, the records it goes on to draw have been written by
\* the copy, and are not what malloc left there.  Not all need have been received:
\* where the header counts more than was sent, the copy goes on with what is left
\* in, or lies behind, the buffer.
DrawnWasWritten == existing_bullets <= written

\* The render thread is not locked out for ever: whichever way receive_server_data
\* is left, the server's packets being what they are, the game is unlocked again.
LockIsReleased == is_update_locked ~> ~is_update_locked

\* The client waits for its handler, as its own updates have filled the stream.
Jammed == npc = "send" /\ up = MaxUp

\* The broadcast thread sends under clients_mutex and bullets_mutex and waits for
\* a players_mutex whose holder sends as well: nobody waits for ever as long as
\* the client is not Jammed.  When it is, its handler may wait for the broadcast
\* thread's bullets_mutex, and that for room on the way to the client.
BroadcastsGoOn == []<>(bpc = "update" \/ npc = "cut" \/ Jammed)

\* A newcomer is announced though the broadcast thread may take any room that
\* there is: it comes to wait for the players_mutex that the newcomer holds.
NewcomerIsAnnounced ==
    \A c \in Others : jpc[c] = "claimed" ~> (jpc[c] = "serve" \/ npc = "cut" \/ Jammed)
=============================================================================
