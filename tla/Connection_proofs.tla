------------------------- MODULE Connection_proofs -------------------------
(***************************************************************************)
(* Proofs about Connection, for streams and buffers of any size and any    *)
(* number of others who come and go.                                       *)
(***************************************************************************)
EXTENDS Connection, TLAPS

\* What is to be published has been written, and fits.
Publishable == npc = "publish" => bullets_to_copy <= written /\ bullets_to_copy <= bullet_capacity

\* The game is locked while a packet of bullets is looked at, and at no other time.
LockedWhileCopying == is_update_locked <=> npc \in {"bullets", "publish"}

\* players_mutex is held by one who announces itself.
MutexHeld == \A c \in Others : jpc[c] = "announce" <=> players_mutex = c

IInv == TypeOK /\ DrawnWasWritten /\ Publishable /\ LockedWhileCopying /\ MutexHeld

-----------------------------------------------------------------------------
(* The stream to the client.                                               *)

LEMMA SentType ==
    ASSUME TypeOK, NEW m \in Messages, Sent(m)
    PROVE  down' \in Seq(Messages) /\ Len(down') <= MaxDown
BY ConnectionAssumption DEF Sent, Room, TypeOK

LEMMA TakeType ==
    ASSUME TypeOK, NEW kinds, Take(kinds)
    PROVE  /\ down' \in Seq(Messages) /\ Len(down') <= MaxDown
           /\ Head(down) \in Messages /\ Head(down).kind \in kinds
           /\ npc = "recv"
<1>1. PICK n \in 1 .. Len(down) : down' = SubSeq(down, n + 1, Len(down))
  BY DEF Take
<1>2. down \in Seq(Messages) /\ Len(down) \in Nat /\ Len(down) <= MaxDown /\ down # <<>>
  BY <1>1 DEF TypeOK
<1>3. \A k \in n + 1 .. Len(down) : down[k] \in Messages
  BY <1>1, <1>2
<1>4. down' \in Seq(Messages) /\ Len(down') = Len(down) - n
  BY <1>1, <1>2, <1>3
<1>5. Len(down') <= MaxDown
  BY <1>1, <1>2, <1>4, ConnectionAssumption
<1>6. Head(down) \in Messages
  BY <1>2
<1>. QED BY <1>4, <1>5, <1>6 DEF Take

-----------------------------------------------------------------------------
(* The invariant.                                                          *)

LEMMA Start == Init => IInv
<1>. SUFFICES ASSUME Init PROVE IInv
  OBVIOUS
<1>1. TypeOK
  <2>1. <<>> \in Seq(Messages) /\ Len(<<>>) = 0
    OBVIOUS
  <2>2. down \in Seq(Messages) /\ Len(down) <= MaxDown
    BY <2>1, ConnectionAssumption DEF Init
  <2>3. up \in 0 .. MaxUp /\ readyBullets \in Packets \cup {NoPacket}
        /\ bullets_to_copy \in 0 .. MAX_BULLETS_PER_BUFFER
        /\ existing_bullets \in 0 .. bullet_capacity /\ written \in 0 .. bullet_capacity
    BY ConnectionAssumption DEF Init
  <2>4. jpc \in [Others -> {"away", "claimed", "announce", "serve", "clean_socket",
                           "clean_player", "done"}]
    BY DEF Init
  <2>. QED BY <2>2, <2>3, <2>4 DEF Init, TypeOK
<1>2. DrawnWasWritten /\ Publishable /\ LockedWhileCopying /\ MutexHeld
  BY ConnectionAssumption DEF Init, DrawnWasWritten, Publishable, LockedWhileCopying, MutexHeld
<1>. QED BY <1>1, <1>2 DEF IInv

\* A step of the server leaves the client as it was.
LEMMA ServerStep ==
    ASSUME IInv, BroadcastLoop \/ Handler
    PROVE  IInv'
<1>. USE ConnectionAssumption
<1>1. UNCHANGED <<client, players_mutex, jpc>>
  BY DEF BroadcastLoop, Handler, Prepare, Withhold, SendBullets, CheckCollisions, SendPlayers,
         RecvUpdate, Shoot, WriteBack
<1>2. DrawnWasWritten' /\ Publishable' /\ LockedWhileCopying' /\ MutexHeld'
  BY <1>1 DEF IInv, client, DrawnWasWritten, Publishable, LockedWhileCopying, MutexHeld
<1>3. up' \in 0 .. MaxUp
  BY DEF BroadcastLoop, Handler, Prepare, Withhold, SendBullets, CheckCollisions, SendPlayers,
         RecvUpdate, Shoot, WriteBack, IInv, TypeOK
<1>4. down' \in Seq(Messages) /\ Len(down') <= MaxDown
  <2>1. CASE UNCHANGED down
    BY <2>1 DEF IInv, TypeOK
  <2>2. CASE SendBullets
    <3>1. readyBullets \in Messages
      BY <2>2 DEF SendBullets, IInv, TypeOK, Messages
    <3>. QED BY <2>2, <3>1, SentType DEF SendBullets, IInv
  <2>3. CASE SendPlayers
    BY <2>3, SentType DEF SendPlayers, Messages, IInv
  <2>. QED BY <2>1, <2>2, <2>3 DEF BroadcastLoop, Handler, Prepare, Withhold, CheckCollisions,
             RecvUpdate, Shoot, WriteBack
<1>5. /\ bpc' \in {"update", "bullets", "check", "players"}
      /\ readyBullets' \in Packets \cup {NoPacket}
      /\ bpc' = "bullets" => readyBullets' \in Packets
  <2>1. CASE Prepare
    <3>1. PICK n \in 0 .. MaxBullets : /\ n <= MAX_BULLETS_PER_BUFFER
                                     /\ \E h \in 0 .. n : \E r \in 0 .. h : readyBullets' = Bullets(h, r)
      BY <2>1 DEF Prepare
    <3>2. PICK h \in 0 .. n : \E r \in 0 .. h : readyBullets' = Bullets(h, r)
      BY <3>1
    <3>3. PICK r \in 0 .. h : readyBullets' = Bullets(h, r)
      BY <3>2
    <3>4. h \in 0 .. MAX_BULLETS_PER_BUFFER /\ r \in 0 .. MAX_BULLETS_PER_BUFFER
      BY <3>1
    <3>5. readyBullets' \in Packets
      BY <3>3, <3>4 DEF Packets
    <3>. QED BY <2>1, <3>5 DEF Prepare
  <2>2. CASE SendBullets
    BY <2>2 DEF SendBullets
  <2>3. CASE Withhold \/ CheckCollisions \/ SendPlayers \/ Handler
    BY <2>3 DEF Handler, Withhold, CheckCollisions, SendPlayers, RecvUpdate, Shoot, WriteBack, IInv, TypeOK
  <2>. QED BY <2>1, <2>2, <2>3 DEF BroadcastLoop
<1>6. hpc' \in {"recv", "shoot", "write"}
  BY DEF BroadcastLoop, Handler, Prepare, Withhold, SendBullets, CheckCollisions, SendPlayers,
         RecvUpdate, Shoot, WriteBack, IInv, TypeOK
<1>7. TypeOK'
  BY <1>1, <1>3, <1>4, <1>5, <1>6 DEF client, IInv, TypeOK
<1>. QED BY <1>2, <1>7 DEF IInv

LEMMA OtherStep ==
    ASSUME IInv, NEW c \in Others, Other(c) \/ Leave(c)
    PROVE  IInv'
<1>. USE ConnectionAssumption DEF Goto
<1>1. UNCHANGED <<up, bpc, readyBullets, hpc, client>>
  BY DEF Other, Claim, Register, Announce, Leave, CleanSocket, CleanPlayer
<1>2. DrawnWasWritten' /\ Publishable' /\ LockedWhileCopying'
  BY <1>1 DEF IInv, client, DrawnWasWritten, Publishable, LockedWhileCopying
<1>3. down' \in Seq(Messages) /\ Len(down') <= MaxDown
  <2>1. CASE UNCHANGED down
    BY <2>1 DEF IInv, TypeOK
  <2>2. CASE Announce(c)
    BY <2>2, SentType DEF Announce, Messages, IInv
  <2>. QED BY <2>1, <2>2 DEF Other, Claim, Register, Leave, CleanSocket, CleanPlayer
<1>4. /\ players_mutex' \in Others \cup {Nobody}
      /\ jpc' \in [Others -> {"away", "claimed", "announce", "serve", "clean_socket",
                              "clean_player", "done"}]
  BY DEF Other, Claim, Register, Announce, Leave, CleanSocket, CleanPlayer, IInv, TypeOK
<1>5. MutexHeld'
  BY DEF Other, Claim, Register, Announce, Leave, CleanSocket, CleanPlayer, IInv, TypeOK, MutexHeld
<1>6. TypeOK'
  BY <1>1, <1>3, <1>4 DEF client, IInv, TypeOK
<1>. QED BY <1>2, <1>5, <1>6 DEF IInv

LEMMA NetworkStep ==
    ASSUME IInv, Network
    PROVE  IInv'
<1>. USE ConnectionAssumption
<1>1. UNCHANGED server
  BY DEF Network, Receive, ReceiveBullets, Cut, NoBullets, CopyBullets, Publish, Send
<1>2. MutexHeld'
  BY <1>1 DEF server, IInv, MutexHeld
<1>. SUFFICES TypeOK' /\ DrawnWasWritten' /\ Publishable' /\ LockedWhileCopying'
  BY <1>2 DEF IInv
<1>3. CASE Receive
  <2>1. down' \in Seq(Messages) /\ Len(down') <= MaxDown /\ npc = "recv"
    BY <1>3, TakeType DEF Receive, IInv
  <2>. QED BY <1>1, <1>3, <2>1 DEF Receive, server, IInv, TypeOK, DrawnWasWritten, Publishable, LockedWhileCopying
<1>4. CASE ReceiveBullets
  <2>1. /\ down' \in Seq(Messages) /\ Len(down') <= MaxDown /\ npc = "recv"
        /\ Head(down) \in Messages /\ Head(down).kind \in {"bullets"}
    BY <1>4, TakeType DEF ReceiveBullets, IInv
  <2>2. Head(down).count \in 0 .. MAX_BULLETS_PER_BUFFER
    BY <2>1 DEF Messages, Packets, Bullets, Players, Static
  <2>3. bullets_to_copy' \in 0 .. MAX_BULLETS_PER_BUFFER
    BY <1>4, <2>2 DEF ReceiveBullets
  <2>. QED BY <1>1, <1>4, <2>1, <2>3 DEF ReceiveBullets, server, IInv, TypeOK, DrawnWasWritten, Publishable, LockedWhileCopying
<1>5. CASE Cut
  BY <1>1, <1>5 DEF Cut, server, IInv, TypeOK, DrawnWasWritten, Publishable, LockedWhileCopying
<1>6. CASE NoBullets
  BY <1>1, <1>6 DEF NoBullets, server, IInv, TypeOK, DrawnWasWritten, Publishable, LockedWhileCopying
<1>7. CASE CopyBullets
  <2>1. ~(bullets_to_copy > bullet_capacity) /\ npc = "bullets" /\ bullets_to_copy > 0
    BY <1>7 DEF CopyBullets, IInv, TypeOK
  <2>2. npc' = "publish" /\ written' = IF bullets_to_copy > written THEN bullets_to_copy ELSE written
    BY <1>7, <2>1 DEF CopyBullets
  <2>3. UNCHANGED <<up, down, server, bullets_to_copy, is_update_locked, existing_bullets>>
    BY <1>7 DEF CopyBullets
  <2>. QED BY <2>1, <2>2, <2>3 DEF server, IInv, TypeOK, DrawnWasWritten, Publishable, LockedWhileCopying
<1>8. CASE Publish
  <2>1. /\ existing_bullets' = bullets_to_copy /\ bullets_to_copy' = 0
        /\ is_update_locked' = FALSE /\ npc' = "send" /\ UNCHANGED <<up, down, written>>
    BY <1>8 DEF Publish
  <2>2. bullets_to_copy <= written /\ bullets_to_copy <= bullet_capacity
    BY <1>8 DEF Publish, IInv, Publishable
  <2>3. existing_bullets' \in 0 .. bullet_capacity /\ bullets_to_copy' \in 0 .. MAX_BULLETS_PER_BUFFER
    BY <2>1, <2>2 DEF IInv, TypeOK
  <2>4. TypeOK'
    BY <1>1, <2>1, <2>3 DEF server, IInv, TypeOK
  <2>. QED BY <2>1, <2>2, <2>4 DEF DrawnWasWritten, Publishable, LockedWhileCopying
<1>9. CASE Send
  BY <1>1, <1>9 DEF Send, server, IInv, TypeOK, DrawnWasWritten, Publishable, LockedWhileCopying
<1>. QED BY <1>3, <1>4, <1>5, <1>6, <1>7, <1>8, <1>9 DEF Network

\* Whichever thread goes on: the types, that a mutex is held by who announces, that
\* the game is locked while bullets are copied and that what is published was written.
THEOREM Invariant == Spec => []IInv
<1>1. IInv /\ UNCHANGED vars => IInv'
  BY DEF vars, server, client, IInv, TypeOK, DrawnWasWritten, Publishable, LockedWhileCopying, MutexHeld
<1>2. IInv /\ [Next]_vars => IInv'
  BY <1>1, ServerStep, OtherStep, NetworkStep DEF Next
<1>. QED BY Start, <1>2, PTL DEF Spec

\* Every variable keeps its type, for streams and buffers of any size.
THEOREM TypeCorrect == Spec => []TypeOK
<1>1. IInv => TypeOK
  BY DEF IInv
<1>. QED BY Invariant, <1>1, PTL

\* No record is ever drawn that receive_server_data has not written, be it from a
\* packet or, where the header counts more than was sent, from what lies behind it.
THEOREM DrawnIsWritten == Spec => []DrawnWasWritten
<1>1. IInv => DrawnWasWritten
  BY DEF IInv
<1>. QED BY Invariant, <1>1, PTL

\* The way out of receive_server_data that leaves the game locked is never taken,
\* the server's packets being what they are: whenever the client waits, for what
\* comes or to send, the game is drawn.
THEOREM LockedOnlyWhileCopying == Spec => [](is_update_locked => npc \in {"bullets", "publish"})
<1>1. IInv => (is_update_locked => npc \in {"bullets", "publish"})
  BY DEF IInv, LockedWhileCopying
<1>. QED BY Invariant, <1>1, PTL

\* Two that register exclude each other from the announcements until both are sent.
THEOREM OneAnnounces == Spec => [](\A c, d \in Others : jpc[c] = "announce" /\ jpc[d] = "announce" => c = d)
<1>1. IInv => (\A c, d \in Others : jpc[c] = "announce" /\ jpc[d] = "announce" => c = d)
  BY DEF IInv, MutexHeld
<1>. QED BY Invariant, <1>1, PTL

\* The guards of the threads for which another may be kept waiting.
BroadcastGoesOn ==
    \/ bpc = "update"
    \/ bpc \in {"bullets", "players"} /\ Room
    \/ bpc = "check" /\ players_mutex = Nobody

AnnouncerGoesOn == \E c \in Others : jpc[c] = "announce" /\ Room

ClientGoesOn ==
    \/ npc \in {"bullets", "publish"}
    \/ npc = "recv" /\ down # <<>>
    \/ npc = "send" /\ up < MaxUp

\* Everybody waits for everybody only when the client is Jammed: otherwise the
\* client goes on, or there is room, and with it for the broadcast thread or for
\* who has the players_mutex that it waits for.
THEOREM OnlyTheJammedWait ==
    Spec => [](npc # "cut" /\ ~Jammed => ClientGoesOn \/ BroadcastGoesOn \/ AnnouncerGoesOn)
<1>1. ASSUME IInv, npc # "cut", ~Jammed, ~ClientGoesOn
      PROVE  BroadcastGoesOn \/ AnnouncerGoesOn
  <2>1. npc = "recv" /\ down = <<>>
    <3>1. npc \in {"recv", "bullets", "publish", "send", "cut"} /\ up \in 0 .. MaxUp
      BY <1>1 DEF IInv, TypeOK
    <3>2. npc # "send"
      <4>1. up = MaxUp \/ up < MaxUp
        BY <3>1, ConnectionAssumption
      <4>. QED BY <1>1, <4>1 DEF Jammed, ClientGoesOn
    <3>. QED BY <1>1, <3>1, <3>2 DEF ClientGoesOn
  <2>2. Room
    <3>1. Len(<<>>) = 0 /\ 0 < MaxDown
      BY ConnectionAssumption
    <3>. QED BY <2>1, <3>1 DEF Room
  <2>3. CASE players_mutex = Nobody
    BY <1>1, <2>2, <2>3 DEF IInv, TypeOK, BroadcastGoesOn
  <2>4. CASE players_mutex # Nobody
    BY <1>1, <2>2, <2>4 DEF IInv, TypeOK, MutexHeld, AnnouncerGoesOn
  <2>. QED BY <2>3, <2>4
<1>2. IInv => (npc # "cut" /\ ~Jammed => ClientGoesOn \/ BroadcastGoesOn \/ AnnouncerGoesOn)
  BY <1>1
<1>. QED BY Invariant, <1>2, PTL
=============================================================================
