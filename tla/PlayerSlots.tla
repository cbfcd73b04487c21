---------------------------- MODULE PlayerSlots ----------------------------
(***************************************************************************)
(* The player slots of the game server (src/server/server.c): how a        *)
(* client_handler thread claims a slot, greets its client, registers it    *)
(* with the other players, serves it and cleans up after it, while the     *)
(* broadcast thread sends to every registered socket.                      *)
(*                                                                         *)
(* Two mutexes guard the slots.  clients_mutex is held for the scan of a   *)
(* claim, for each broadcast and for the first half of the cleanup.  The   *)
(* scan is a step per slot, because the second half of a cleanup frees     *)
(* slots without that mutex; the others are one step each, client_sockets  *)
(* being changed under it alone.  players_mutex is held for the            *)
(* registration, whose sends are steps of their own because client_sockets *)
(* changes under it, for the write-back of an update, for check_collisions *)
(* and for the second half of the cleanup.  Hit points, positions and      *)
(* bullets are not in this module.                                         *)
(*                                                                         *)
(* The kernel's sockets are external: a descriptor number is reused as     *)
(* soon as it is closed, and a connection whose peer is gone answers sends *)
(* the way a Linux loopback socket does.                                   *)
(***************************************************************************)
EXTENDS Integers

CONSTANTS
    MaxClients,     \* MAX_CLIENTS, the number of slots
    Conns,          \* the connections a behaviour may accept, one handler each
    Fds,            \* the descriptor numbers the kernel may hand out
    Nobody          \* no holder of a mutex, no connection behind a descriptor

INVALID_PLAYER_ID == -1
UNUSED_SOCKET_ID  == 0
NotAssigned       == -2    \* the client has not been sent a byte yet

Slots == 0 .. MaxClients - 1
Ids   == Slots \cup {INVALID_PLAYER_ID}

ASSUME SlotsAssumption ==
    /\ MaxClients \in Nat \ {0}
    /\ Fds \subseteq Nat \ {0}
    /\ Nobody \notin Conns

VARIABLES
    \* globals of the server
    players_id,      \* players[i].id
    player_data_id,  \* player_data[i].id
    client_sockets,
    players_mutex,
    \* locals of the handler of each connection
    pc,
    client_socket,
    client_id,
    update_id,       \* update.id, from the last recv
    idx,             \* i, of whichever loop it is in
    target,          \* the descriptor broadcast_new_player is about to send to
    bpc,             \* where the broadcast thread is in its loop
    \* the kernel
    owner,           \* the connection behind each descriptor
    link,            \* the state of each connection's socket
    up,              \* the server process has not been killed by a signal
    \* the clients
    assigned,        \* the id byte of the first message each connection is sent
    told,            \* the ids of which each connection has been sent static data
    \* history: what has gone wrong so far
    misled,          \* some client was first sent an id that is not its slot
    removed          \* broadcast_players has closed a socket

globals == <<players_id, player_data_id, client_sockets, players_mutex>>
locals  == <<client_socket, client_id, update_id, idx, target>>
sockets == <<owner, link, up, assigned, told, misled, removed>>
vars    == <<globals, pc, locals, bpc, sockets>>

-----------------------------------------------------------------------------
(* The kernel.                                                             *)

\* accept() returns the lowest descriptor that is not open.
FreeFds == {f \in Fds : owner[f] = Nobody}

\* A connection is "open" until its client goes.  The client's exit leaves "fin"
\* if it had read everything it was sent and "rst" if it had not.  A send then
\* succeeds once ("fin") or fails once ("rst"); the next one raises SIGPIPE,
\* which the server neither ignores nor handles.
SendFails(f)   == owner[f] = Nobody \/ link[owner[f]] = "rst"
SendSignals(f) == owner[f] # Nobody /\ link[owner[f]] = "epipe"

\* A send to each descriptor of a set.  `id` is the byte that a Player, a
\* PlayerStaticData and an array of Players all have at offset 1.
SendTo(fds, id) ==
    LET reached == {c \in Conns : \E f \in fds : owner[f] = c}
        greeted == {c \in reached : link[c] = "open" /\ assigned[c] = NotAssigned}
    IN
    /\ up' = ~(\E f \in fds : SendSignals(f))
    /\ link' = [c \in Conns |-> IF c \in reached /\ link[c] \in {"fin", "rst"}
                                THEN "epipe" ELSE link[c]]
    /\ assigned' = [c \in Conns |-> IF c \in greeted THEN id ELSE assigned[c]]
    /\ misled' = (misled \/ \E c \in greeted : id \notin Slots \/ id # client_id[c])

Send(f, id) == SendTo({f}, id)

Tell(f, id) == told' = [c \in Conns |-> IF c = owner[f] THEN told[c] \cup {id} ELSE told[c]]

-----------------------------------------------------------------------------
(* main: accept, and one client_handler thread per connection.  A local    *)
(* that will not be read again is reset.                                   *)

Goto(c, there) == pc' = [pc EXCEPT ![c] = there]

Accept(c) ==
    /\ pc[c] = "absent"
    /\ \E f \in FreeFds :
          /\ \A g \in FreeFds : f <= g
          /\ owner' = [owner EXCEPT ![f] = c]
          /\ client_socket' = [client_socket EXCEPT ![c] = f]
    /\ link' = [link EXCEPT ![c] = "open"]
    /\ Goto(c, "claim")
    /\ UNCHANGED <<globals, client_id, update_id, idx, target, bpc,
                   up, assigned, told, misled, removed>>

\* The client's process ends, having read all it was sent or not.
Leave(c) ==
    /\ link[c] = "open"
    /\ \E l \in {"fin", "rst"} : link' = [link EXCEPT ![c] = l]
    /\ UNCHANGED <<globals, pc, locals, bpc, owner, up, assigned, told, misled, removed>>

\* Mutation: the loop runs one turn too many.
NextSlotLong(c, loop, after) ==
    IF idx[c] \in Slots
    THEN idx' = [idx EXCEPT ![c] = @ + 1] /\ Goto(c, loop)
    ELSE idx' = [idx EXCEPT ![c] = 0]     /\ Goto(c, after)

\* The next turn of a loop over the slots, or what follows the loop.
NextSlot(c, loop, after) ==
    IF idx[c] + 1 \in Slots
    THEN idx' = [idx EXCEPT ![c] = @ + 1] /\ Goto(c, loop)
    ELSE idx' = [idx EXCEPT ![c] = 0]     /\ Goto(c, after)

\* clients_mutex is held between two steps by the handler in the midst of its
\* scan and by nobody else.
ClientsMutexFree == \A d \in Conns : pc[d] = "claim" => idx[d] = 0

\* Mutation: a slot is free once its socket is unregistered.
FreeSlotsBySocket == {s \in Slots : client_sockets[s] = UNUSED_SOCKET_ID}

FreeSlots == {s \in Slots : players_id[s] = INVALID_PLAYER_ID}

\* A handler begins its scan when clients_mutex is free and keeps it to the end.
Scans(c) ==
    /\ pc[c] = "claim"
    /\ idx[c] = 0 => ClientsMutexFree

\* The first slot found free.  One that the scan has passed may be free by now.
Claim(c) ==
    LET s == idx[c] IN
    /\ Scans(c)
    /\ s \in FreeSlots
    /\ players_id' = [players_id EXCEPT ![s] = s]
    /\ client_id' = [client_id EXCEPT ![c] = s]
    /\ client_sockets' = [client_sockets EXCEPT ![s] = client_socket[c]]
    /\ idx' = [idx EXCEPT ![c] = 0]
    /\ Goto(c, "hello")
    /\ UNCHANGED <<player_data_id, players_mutex, client_socket, update_id, target,
                   bpc, sockets>>

\* A slot that is taken; after the last, "No available slot for new client".
Pass(c) ==
    /\ Scans(c)
    /\ idx[c] \notin FreeSlots
    /\ NextSlot(c, "claim", "close")
    /\ UNCHANGED <<globals, client_socket, client_id, update_id, target, bpc, sockets>>

\* The new player's own record, which tells the client its id.
Hello(c) ==
    /\ pc[c] = "hello"
    /\ Send(client_socket[c], players_id[client_id[c]])
    /\ Goto(c, "register")
    /\ UNCHANGED <<globals, locals, bpc, owner, told, removed>>

Register(c) ==
    /\ pc[c] = "register"
    /\ players_mutex = Nobody
    /\ players_mutex' = c
    /\ player_data_id' = [player_data_id EXCEPT ![client_id[c]] = players_id[client_id[c]]]
    /\ Goto(c, "existing")
    /\ UNCHANGED <<players_id, client_sockets, locals, bpc, sockets>>

\* send_existing_players_static
SendExisting(c) ==
    LET s == idx[c] IN
    /\ pc[c] = "existing"
    /\ \/ /\ client_sockets[s] # UNUSED_SOCKET_ID
          /\ player_data_id[s] # INVALID_PLAYER_ID
          /\ Send(client_socket[c], player_data_id[s])
          /\ Tell(client_socket[c], player_data_id[s])
       \/ /\ \/ client_sockets[s] = UNUSED_SOCKET_ID
             \/ player_data_id[s] = INVALID_PLAYER_ID
          /\ UNCHANGED <<link, up, assigned, told, misled>>
    /\ NextSlot(c, "existing", "announce")
    /\ UNCHANGED <<globals, client_socket, client_id, update_id, target, bpc,
                   owner, removed>>

\* broadcast_new_player reads client_sockets without clients_mutex: the
\* descriptor it has read may be closed, and reused, before it sends.
AnnounceRead(c) ==
    LET s == idx[c] IN
    /\ pc[c] = "announce"
    /\ client_sockets[s] # UNUSED_SOCKET_ID
    /\ s # client_id[c]
    /\ target' = [target EXCEPT ![c] = client_sockets[s]]
    /\ Goto(c, "announce_send")
    /\ UNCHANGED <<globals, client_socket, client_id, update_id, idx, bpc, sockets>>

\* Mutation: the loop ends at a slot that it has nothing to send to.
AnnounceSkipEnds(c) ==
    /\ pc[c] = "announce"
    /\ client_sockets[idx[c]] = UNUSED_SOCKET_ID \/ idx[c] = client_id[c]
    /\ idx' = [idx EXCEPT ![c] = 0]
    /\ Goto(c, "registered")
    /\ UNCHANGED <<globals, client_socket, client_id, update_id, target, bpc, sockets>>

AnnounceSkip(c) ==
    LET s == idx[c] IN
    /\ pc[c] = "announce"
    /\ client_sockets[s] = UNUSED_SOCKET_ID \/ s = client_id[c]
    /\ NextSlot(c, "announce", "registered")
    /\ UNCHANGED <<globals, client_socket, client_id, update_id, target, bpc, sockets>>

AnnounceSend(c) ==
    /\ pc[c] = "announce_send"
    /\ Send(target[c], player_data_id[client_id[c]])
    /\ Tell(target[c], player_data_id[client_id[c]])
    /\ target' = [target EXCEPT ![c] = UNUSED_SOCKET_ID]
    /\ NextSlot(c, "announce", "registered")
    /\ UNCHANGED <<globals, client_socket, client_id, update_id, bpc, owner, removed>>

\* Mutation: a return without the unlock.
RegisteredLocked(c) ==
    /\ pc[c] = "registered"
    /\ Goto(c, "serve")
    /\ UNCHANGED <<globals, locals, bpc, sockets>>

Registered(c) ==
    /\ pc[c] = "registered"
    /\ players_mutex' = Nobody
    /\ Goto(c, "serve")
    /\ UNCHANGED <<players_id, player_data_id, client_sockets, locals, bpc, sockets>>

\* recv: a client sends its own record, with the id it was first given, once per
\* message it receives.  The descriptor may by now belong to another connection.
RecvUpdate(c) ==
    /\ pc[c] = "serve"
    /\ \E p \in Conns :
          /\ owner[client_socket[c]] = p
          /\ link[p] = "open"
          /\ assigned[p] # NotAssigned
          /\ update_id' = [update_id EXCEPT ![c] = assigned[p]]
    /\ Goto(c, "update")
    /\ UNCHANGED <<globals, client_socket, client_id, idx, target, bpc, sockets>>

\* players[client_id] = update
WriteBack(c) ==
    /\ pc[c] = "update"
    /\ players_mutex = Nobody
    /\ players_id' = [players_id EXCEPT ![client_id[c]] = update_id[c]]
    /\ update_id' = [update_id EXCEPT ![c] = INVALID_PLAYER_ID]
    /\ Goto(c, "serve")
    /\ UNCHANGED <<player_data_id, client_sockets, players_mutex,
                   client_socket, client_id, idx, target, bpc, sockets>>

\* recv: an error or the end of the stream; reporting the reset consumes it.
RecvEnd(c) ==
    /\ pc[c] = "serve"
    /\ \A p \in Conns : owner[client_socket[c]] = p => link[p] # "open"
    /\ link' = [p \in Conns |-> IF p = owner[client_socket[c]] /\ link[p] = "rst"
                                THEN "epipe" ELSE link[p]]
    /\ Goto(c, "clean_socket")
    /\ UNCHANGED <<globals, locals, bpc, owner, up, assigned, told, misled, removed>>

\* Mutations: the socket is closed before it is unregistered; or closed twice.
CleanSocketEarlyClose(c) ==
    /\ pc[c] = "clean_socket"
    /\ ClientsMutexFree
    /\ owner' = [owner EXCEPT ![client_socket[c]] = Nobody]
    /\ Goto(c, "clean_player")
    /\ UNCHANGED <<globals, locals, bpc, link, up, assigned, told, misled, removed>>
CleanSocketTwice(c) ==
    /\ pc[c] = "clean_socket"
    /\ ClientsMutexFree
    /\ client_sockets' = [client_sockets EXCEPT ![client_id[c]] = UNUSED_SOCKET_ID]
    /\ owner' = [owner EXCEPT ![client_socket[c]] = Nobody]
    /\ Goto(c, "clean_player")
    /\ UNCHANGED <<players_id, player_data_id, players_mutex, locals, bpc,
                   link, up, assigned, told, misled, removed>>

CleanSocket(c) ==
    /\ pc[c] = "clean_socket"
    /\ ClientsMutexFree
    /\ client_sockets' = [client_sockets EXCEPT ![client_id[c]] = UNUSED_SOCKET_ID]
    /\ Goto(c, "clean_player")
    /\ UNCHANGED <<players_id, player_data_id, players_mutex, locals, bpc, sockets>>

\* Mutation: the slot is not given back.
CleanPlayerKept(c) ==
    /\ pc[c] = "clean_player"
    /\ players_mutex = Nobody
    /\ client_id' = [client_id EXCEPT ![c] = INVALID_PLAYER_ID]
    /\ Goto(c, "close")
    /\ UNCHANGED <<globals, client_socket, update_id, idx, target, bpc, sockets>>

CleanPlayer(c) ==
    /\ pc[c] = "clean_player"
    /\ players_mutex = Nobody
    /\ players_id' = [players_id EXCEPT ![client_id[c]] = INVALID_PLAYER_ID]
    /\ client_id' = [client_id EXCEPT ![c] = INVALID_PLAYER_ID]
    /\ Goto(c, "close")
    /\ UNCHANGED <<player_data_id, client_sockets, players_mutex,
                   client_socket, update_id, idx, target, bpc, sockets>>

\* The connection behind the descriptor, whichever it is now, ends.
CloseSocket(c) ==
    LET p == owner[client_socket[c]] IN
    /\ pc[c] = "close"
    /\ owner' = [owner EXCEPT ![client_socket[c]] = Nobody]
    /\ link' = [d \in Conns |-> IF d = p THEN "none" ELSE link[d]]
    /\ assigned' = [d \in Conns |-> IF d = p THEN NotAssigned ELSE assigned[d]]
    /\ told' = [d \in Conns |-> IF d = p THEN {} ELSE told[d]]
    /\ client_socket' = [client_socket EXCEPT ![c] = UNUSED_SOCKET_ID]
    /\ Goto(c, "done")
    /\ UNCHANGED <<globals, client_id, update_id, idx, target, bpc, up, misled, removed>>

-----------------------------------------------------------------------------
(* broadcast_loop.  The sends of one broadcast go to different connections *)
(* and clients_mutex is held from the first to the last.                   *)

OpenSockets == {client_sockets[s] : s \in Slots} \ {UNUSED_SOCKET_ID}

\* The packet starts with a Bullet: its byte at offset 1 is padding that nothing
\* has written.  The result of send is ignored.
BroadcastBullets ==
    /\ bpc = "bullets"
    /\ ClientsMutexFree
    /\ \E padding \in Ids : SendTo(OpenSockets, padding)
    /\ bpc' = "collisions"
    /\ UNCHANGED <<globals, pc, locals, owner, told, removed>>

\* More bullets than the buffer holds: nothing is sent this tick.
BulletsWithheld ==
    /\ bpc = "bullets"
    /\ bpc' = "collisions"
    /\ UNCHANGED <<globals, pc, locals, sockets>>

\* check_collisions holds players_mutex throughout and changes no slot.
CheckCollisions ==
    /\ bpc = "collisions"
    /\ players_mutex = Nobody
    /\ bpc' = "players"
    /\ UNCHANGED <<globals, pc, locals, sockets>>

\* The whole players array: the byte at offset 1 is the id in slot 0.
\* "Send failed, removing client": a descriptor on which send fails is closed
\* here, and once more by the handler when it finds out.
BroadcastPlayers ==
    /\ bpc = "players"
    /\ ClientsMutexFree
    /\ LET failing == {f \in OpenSockets : SendFails(f)} IN
          /\ SendTo(OpenSockets, players_id[0])
          /\ owner' = [f \in Fds |-> IF f \in failing THEN Nobody ELSE owner[f]]
          /\ client_sockets' = [s \in Slots |-> IF client_sockets[s] \in failing
                                               THEN UNUSED_SOCKET_ID ELSE client_sockets[s]]
          /\ removed' = (removed \/ failing # {})
    /\ bpc' = "bullets"
    /\ UNCHANGED <<players_id, player_data_id, players_mutex, pc, locals, told>>

-----------------------------------------------------------------------------

Init ==
    /\ players_id = [s \in Slots |-> INVALID_PLAYER_ID]
    /\ player_data_id = [s \in Slots |-> INVALID_PLAYER_ID]
    /\ client_sockets = [s \in Slots |-> UNUSED_SOCKET_ID]
    /\ players_mutex = Nobody
    /\ pc = [c \in Conns |-> "absent"]
    /\ client_socket = [c \in Conns |-> UNUSED_SOCKET_ID]
    /\ client_id = [c \in Conns |-> INVALID_PLAYER_ID]
    /\ update_id = [c \in Conns |-> INVALID_PLAYER_ID]
    /\ idx = [c \in Conns |-> 0]
    /\ target = [c \in Conns |-> UNUSED_SOCKET_ID]
    /\ bpc = "bullets"
    /\ owner = [f \in Fds |-> Nobody]
    /\ link = [c \in Conns |-> "none"]
    /\ up = TRUE
    /\ assigned = [c \in Conns |-> NotAssigned]
    /\ told = [c \in Conns |-> {}]
    /\ misled = FALSE
    /\ removed = FALSE

Handler(c) ==
    \/ Claim(c) \/ Pass(c) \/ Hello(c)
    \/ Register(c) \/ SendExisting(c) \/ AnnounceRead(c) \/ AnnounceSkip(c)
    \/ AnnounceSend(c) \/ Registered(c)
    \/ RecvUpdate(c) \/ WriteBack(c) \/ RecvEnd(c)
    \/ CleanSocket(c) \/ CleanPlayer(c) \/ CloseSocket(c)

BroadcastLoop ==
    \/ BroadcastBullets \/ BulletsWithheld \/ CheckCollisions \/ BroadcastPlayers

\* A SIGPIPE stops every thread of the process.
Next ==
    /\ up
    /\ \/ \E c \in Conns : Accept(c) \/ Leave(c) \/ Handler(c)
       \/ BroadcastLoop

Spec == Init /\ [][Next]_vars

\* The threads keep running.  A mutex is always released again after finitely
\* many steps and the finitely many scans and registrations end, so that a thread
\* waiting for one finds it free for ever in the end: weak fairness is enough.
Fairness == /\ \A c \in Conns : WF_vars(up /\ Handler(c))
            /\ WF_vars(up /\ BroadcastLoop)

FairSpec == Spec /\ Fairness

-----------------------------------------------------------------------------
(* Properties.                                                             *)

Registering == {"existing", "announce", "announce_send", "registered"}
Greeted     == {"register", "serve", "update"} \cup Registering
Holding     == {"hello", "clean_socket", "clean_player"} \cup Greeted
Connected   == {"claim", "close"} \cup Holding

\* Every variable has its type: no id, descriptor or loop index leaves its range.
TypeOK ==
    /\ players_id \in [Slots -> Ids]
    /\ player_data_id \in [Slots -> Ids]
    /\ client_sockets \in [Slots -> Fds \cup {UNUSED_SOCKET_ID}]
    /\ players_mutex \in Conns \cup {Nobody}
    /\ pc \in [Conns -> Connected \cup {"absent", "done"}]
    /\ client_socket \in [Conns -> Fds \cup {UNUSED_SOCKET_ID}]
    /\ client_id \in [Conns -> Ids]
    /\ update_id \in [Conns -> Ids]
    /\ idx \in [Conns -> Slots]
    /\ target \in [Conns -> Fds \cup {UNUSED_SOCKET_ID}]
    /\ bpc \in {"bullets", "collisions", "players"}
    /\ owner \in [Fds -> Conns \cup {Nobody}]
    /\ link \in [Conns -> {"none", "open", "fin", "rst", "epipe"}]
    /\ up \in BOOLEAN
    /\ assigned \in [Conns -> Ids \cup {NotAssigned}]
    /\ told \in [Conns -> SUBSET Ids]
    /\ misled \in BOOLEAN
    /\ removed \in BOOLEAN

\* Two things can go wrong once and spoil the slots from then on: the two
\* violation runs show how.  What the slots promise, they promise until then.
Sound == ~misled /\ ~removed

\* No two handlers serve the same slot, and a handler's slot is not free: the
\* scan in client_handler never gives away a slot whose handler is still in it,
\* whatever the write-backs and cleanups of other handlers do meanwhile.
SlotExclusive ==
    Sound => \A c, d \in Conns :
                pc[c] \in Holding =>
                    /\ players_id[client_id[c]] = client_id[c]
                    /\ pc[d] \in Holding /\ client_id[c] = client_id[d] => c = d

\* No slot leaks: one that is taken has a handler that will give it back.
NoLeakedSlot ==
    \A s \in Slots : players_id[s] # INVALID_PLAYER_ID =>
                        \E c \in Conns : pc[c] \in Holding /\ client_id[c] = s

\* What the broadcasts read from client_sockets is an open descriptor of the
\* connection whose handler is in that slot, never one already closed, or reused.
SocketTableSound ==
    Sound => \A s \in Slots : client_sockets[s] # UNUSED_SOCKET_ID =>
                \E c \in Conns : /\ pc[c] \in Holding
                                 /\ client_id[c] = s
                                 /\ owner[client_sockets[s]] = c

\* A handler receives from, and in the end closes, its own connection: its
\* descriptor is not closed, and so not reused, behind its back.
DescriptorHeld ==
    ~removed => \A c \in Conns : pc[c] \in Connected => owner[client_socket[c]] = c

\* Any two clients in the game have been sent each other's static data, however
\* their registrations and the disconnections of others interleave.
StaticExchange ==
    Sound => \A c, d \in Conns : pc[c] \in {"serve", "update"} /\ pc[d] \in {"serve", "update"}
                => client_id[d] \in told[c]

\* client.c:174, "Assigned ID: %d": the id in the first record a client receives
\* is the slot the server has given it.
AssignedIdIsMine == ~misled

\* server.c:316, "Send failed, removing client": a send that fails costs the
\* server that client, and not its process.
FailedSendIsSurvived == up

\* A handler that has been accepted is served or refused.
JoinResolves ==
    \A c \in Conns : pc[c] = "claim" ~> (pc[c] \in {"serve", "update", "done"} \/ ~up)

\* The slot of a client that has gone is given back.
GoneIsCleanedUp ==
    \A c \in Conns : link[c] \in {"fin", "rst", "epipe"}
                        ~> (pc[c] = "done" \/ ~up \/ removed)

=============================================================================
