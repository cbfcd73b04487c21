------------------------- MODULE PlayerSlots_proofs -------------------------
(***************************************************************************)
(* Proofs about PlayerSlots, for any number of slots, connections and      *)
(* descriptors.                                                            *)
(***************************************************************************)
EXTENDS PlayerSlots, TLAPS

\* Where a handler is says which of its locals are set.
PcLocals ==
    \A c \in Conns :
        /\ pc[c] \in Connected <=> client_socket[c] # UNUSED_SOCKET_ID
        /\ pc[c] \in Holding <=> client_id[c] # INVALID_PLAYER_ID
        /\ pc[c] = "announce_send" => target[c] # UNUSED_SOCKET_ID

\* players_mutex is held by the handler that registers its client.
MutexHeld == \A c \in Conns : pc[c] \in Registering <=> players_mutex = c

\* The converse of DescriptorHeld.
OwnerHolds ==
    ~removed => \A f \in Fds : owner[f] # Nobody => client_socket[owner[f]] = f

\* A handler in its slot: its id, its socket and its client's idea of its id.
HolderSound ==
    Sound => \A c \in Conns :
        /\ pc[c] \in Holding =>
              /\ players_id[client_id[c]] = client_id[c]
              /\ assigned[c] \in {NotAssigned, client_id[c]}
        /\ pc[c] \in Holding \ {"clean_player"} =>
              client_sockets[client_id[c]] = client_socket[c]
        /\ pc[c] \in Registering => player_data_id[client_id[c]] = client_id[c]
        /\ pc[c] = "update" => update_id[c] = client_id[c]
        /\ pc[c] \in {"absent", "claim"} => assigned[c] = NotAssigned

\* A registered socket is that of a handler in the slot that is still to clean up.
SocketHeld ==
    Sound => \A s \in Slots : client_sockets[s] # UNUSED_SOCKET_ID =>
                \E c \in Conns : /\ pc[c] \in Holding \ {"clean_player"}
                                 /\ client_id[c] = s
                                 /\ client_socket[c] = client_sockets[s]

\* NoLeakedSlot and SlotExclusive, told by client_id alone.
HeldSlot ==
    \A s \in Slots : players_id[s] # INVALID_PLAYER_ID =>
                        \E c \in Conns : client_id[c] = s

DistinctSlots ==
    Sound => \A c, d \in Conns :
                client_id[c] # INVALID_PLAYER_ID /\ client_id[c] = client_id[d] => c = d

IInv ==
    /\ TypeOK
    /\ PcLocals
    /\ MutexHeld
    /\ DescriptorHeld
    /\ OwnerHolds
    /\ HeldSlot
    /\ HolderSound
    /\ SocketHeld
    /\ DistinctSlots

-----------------------------------------------------------------------------
(* What a send does, and the turn of a loop.                               *)

LEMMA SendToType ==
    ASSUME TypeOK, NEW fds, NEW id \in Ids, SendTo(fds, id)
    PROVE  /\ up' \in BOOLEAN
           /\ misled' \in BOOLEAN
           /\ link' \in [Conns -> {"none", "open", "fin", "rst", "epipe"}]
           /\ assigned' \in [Conns -> Ids \cup {NotAssigned}]
BY DEF TypeOK, SendTo

LEMMA SendToSound ==
    ASSUME TypeOK, NEW fds, NEW id, SendTo(fds, id), ~misled'
    PROVE  /\ ~misled
           /\ \A c \in Conns : \/ assigned'[c] = assigned[c]
                               \/ client_id[c] \in Slots /\ assigned'[c] = client_id[c]
BY DEF TypeOK, SendTo

LEMMA TellType ==
    ASSUME TypeOK, NEW f, NEW id \in Ids, Tell(f, id)
    PROVE  told' \in [Conns -> SUBSET Ids]
BY DEF TypeOK, Tell

LEMMA NextSlotType ==
    ASSUME TypeOK, NEW c \in Conns, NEW loop, NEW after, NextSlot(c, loop, after)
    PROVE  /\ idx' \in [Conns -> Slots]
           /\ pc' = [pc EXCEPT ![c] = loop] \/ pc' = [pc EXCEPT ![c] = after]
<1>1. idx \in [Conns -> Slots] /\ 0 \in Slots
  BY SlotsAssumption DEF TypeOK, Slots
<1>2. CASE idx[c] + 1 \in Slots
  BY <1>1, <1>2 DEF NextSlot, Goto
<1>3. CASE idx[c] + 1 \notin Slots
  BY <1>1, <1>3 DEF NextSlot, Goto
<1>. QED BY <1>2, <1>3

-----------------------------------------------------------------------------
(* Each part of the invariant is kept by every step.                       *)

LEMMA TypeStep == IInv /\ [Next]_vars => TypeOK'
<1>. SUFFICES ASSUME IInv, [Next]_vars PROVE TypeOK'
  OBVIOUS
<1>. USE SlotsAssumption DEF IInv, Slots, Ids, INVALID_PLAYER_ID, UNUSED_SOCKET_ID, NotAssigned
<1>. USE DEF Connected, Holding, Greeted, Registering, Goto, globals, locals, sockets
<1>1. ASSUME NEW c \in Conns, Accept(c) PROVE TypeOK'
  BY <1>1 DEF TypeOK, Accept, FreeFds
<1>2. ASSUME NEW c \in Conns, Leave(c) PROVE TypeOK'
  BY <1>2 DEF TypeOK, Leave
<1>3. ASSUME NEW c \in Conns, Claim(c) PROVE TypeOK'
  BY <1>3 DEF TypeOK, Claim, Scans, FreeSlots
<1>4. ASSUME NEW c \in Conns, Pass(c) PROVE TypeOK'
  <2>1. pc[c] = "claim" /\ (pc' = [pc EXCEPT ![c] = "claim"] \/ pc' = [pc EXCEPT ![c] = "close"])
    BY <1>4, NextSlotType DEF Pass, Scans
  <2>2. idx' \in [Conns -> Slots]
    BY <1>4, NextSlotType DEF Pass
  <2>. QED BY <1>4, <2>1, <2>2 DEF TypeOK, Pass
<1>5. ASSUME NEW c \in Conns, Hello(c) PROVE TypeOK'
  <2>1. players_id[client_id[c]] \in Ids
    BY <1>5 DEF TypeOK, PcLocals, Hello
  <2>. QED BY <1>5, <2>1, SendToType DEF TypeOK, Hello, Send
<1>6. ASSUME NEW c \in Conns, Register(c) PROVE TypeOK'
  BY <1>6 DEF TypeOK, Register, PcLocals
<1>7. ASSUME NEW c \in Conns, SendExisting(c) PROVE TypeOK'
  <2>1. /\ idx' \in [Conns -> Slots]
        /\ pc' \in [Conns -> Connected \cup {"absent", "done"}]
    <3>1. pc' = [pc EXCEPT ![c] = "existing"] \/ pc' = [pc EXCEPT ![c] = "announce"]
      BY <1>7, NextSlotType DEF SendExisting
    <3>2. idx' \in [Conns -> Slots]
      BY <1>7, NextSlotType DEF SendExisting
    <3>. QED BY <3>1, <3>2 DEF TypeOK
  <2>2. /\ up' \in BOOLEAN
        /\ misled' \in BOOLEAN
        /\ link' \in [Conns -> {"none", "open", "fin", "rst", "epipe"}]
        /\ assigned' \in [Conns -> Ids \cup {NotAssigned}]
        /\ told' \in [Conns -> SUBSET Ids]
    BY <1>7, SendToType, TellType DEF TypeOK, SendExisting, Send
  <2>. QED BY <1>7, <2>1, <2>2 DEF TypeOK, SendExisting
<1>8. ASSUME NEW c \in Conns, AnnounceRead(c) PROVE TypeOK'
  BY <1>8 DEF TypeOK, AnnounceRead
<1>9. ASSUME NEW c \in Conns, AnnounceSkip(c) PROVE TypeOK'
  <2>1. /\ idx' \in [Conns -> Slots]
        /\ pc' \in [Conns -> Connected \cup {"absent", "done"}]
    <3>1. pc' = [pc EXCEPT ![c] = "announce"] \/ pc' = [pc EXCEPT ![c] = "registered"]
      BY <1>9, NextSlotType DEF AnnounceSkip
    <3>2. idx' \in [Conns -> Slots]
      BY <1>9, NextSlotType DEF AnnounceSkip
    <3>. QED BY <3>1, <3>2 DEF TypeOK
  <2>. QED BY <1>9, <2>1 DEF TypeOK, AnnounceSkip
<1>10. ASSUME NEW c \in Conns, AnnounceSend(c) PROVE TypeOK'
  <2>1. /\ idx' \in [Conns -> Slots]
        /\ pc' \in [Conns -> Connected \cup {"absent", "done"}]
    <3>1. pc' = [pc EXCEPT ![c] = "announce"] \/ pc' = [pc EXCEPT ![c] = "registered"]
      BY <1>10, NextSlotType DEF AnnounceSend
    <3>2. idx' \in [Conns -> Slots]
      BY <1>10, NextSlotType DEF AnnounceSend
    <3>. QED BY <3>1, <3>2 DEF TypeOK
  <2>2. player_data_id[client_id[c]] \in Ids
    BY <1>10 DEF TypeOK, PcLocals, AnnounceSend
  <2>3. /\ up' \in BOOLEAN
        /\ misled' \in BOOLEAN
        /\ link' \in [Conns -> {"none", "open", "fin", "rst", "epipe"}]
        /\ assigned' \in [Conns -> Ids \cup {NotAssigned}]
        /\ told' \in [Conns -> SUBSET Ids]
    BY <1>10, <2>2, SendToType, TellType DEF AnnounceSend, Send
  <2>. QED BY <1>10, <2>1, <2>3 DEF TypeOK, AnnounceSend
<1>11. ASSUME NEW c \in Conns, Registered(c) PROVE TypeOK'
  BY <1>11 DEF TypeOK, Registered
<1>12. ASSUME NEW c \in Conns, RecvUpdate(c) PROVE TypeOK'
  BY <1>12 DEF TypeOK, RecvUpdate
<1>13. ASSUME NEW c \in Conns, WriteBack(c) PROVE TypeOK'
  BY <1>13 DEF TypeOK, WriteBack
<1>14. ASSUME NEW c \in Conns, RecvEnd(c) PROVE TypeOK'
  BY <1>14 DEF TypeOK, RecvEnd
<1>15. ASSUME NEW c \in Conns, CleanSocket(c) PROVE TypeOK'
  BY <1>15 DEF TypeOK, CleanSocket
<1>16. ASSUME NEW c \in Conns, CleanPlayer(c) PROVE TypeOK'
  BY <1>16 DEF TypeOK, CleanPlayer
<1>17. ASSUME NEW c \in Conns, CloseSocket(c) PROVE TypeOK'
  BY <1>17 DEF TypeOK, CloseSocket
<1>18. ASSUME BroadcastBullets PROVE TypeOK'
  BY <1>18, SendToType DEF TypeOK, BroadcastBullets
<1>19. ASSUME BulletsWithheld PROVE TypeOK'
  BY <1>19 DEF TypeOK, BulletsWithheld
<1>20. ASSUME CheckCollisions PROVE TypeOK'
  BY <1>20 DEF TypeOK, CheckCollisions
<1>21. ASSUME BroadcastPlayers PROVE TypeOK'
  <2>1. players_id[0] \in Ids
    BY DEF TypeOK
  <2>. QED BY <1>21, <2>1, SendToType DEF TypeOK, BroadcastPlayers
<1>22. CASE UNCHANGED vars
  BY <1>22 DEF TypeOK, vars
<1>. QED BY <1>1, <1>2, <1>3, <1>4, <1>5, <1>6, <1>7, <1>8, <1>9, <1>10, <1>11, <1>12, <1>13, <1>14, <1>15, <1>16, <1>17, <1>18, <1>19, <1>20, <1>21, <1>22 DEF Next, Handler, BroadcastLoop

LEMMA PcLocalsStep == IInv /\ [Next]_vars => PcLocals'
<1>. SUFFICES ASSUME IInv, [Next]_vars PROVE PcLocals'
  OBVIOUS
<1>0. TypeOK /\ TypeOK'
  BY TypeStep DEF IInv
<1>. USE SlotsAssumption DEF Goto, globals, locals, sockets, Slots, Ids, INVALID_PLAYER_ID, UNUSED_SOCKET_ID, Connected, Holding, Greeted, Registering
<1>1. ASSUME NEW c \in Conns, Accept(c) PROVE PcLocals'
  BY <1>0, <1>1 DEF IInv, TypeOK, PcLocals, Accept, FreeFds
<1>2. ASSUME NEW c \in Conns, Leave(c) PROVE PcLocals'
  BY <1>0, <1>2 DEF IInv, TypeOK, PcLocals, Leave
<1>3. ASSUME NEW c \in Conns, Claim(c) PROVE PcLocals'
  BY <1>0, <1>3 DEF IInv, TypeOK, PcLocals, Claim, Scans, FreeSlots
<1>4. ASSUME NEW c \in Conns, Pass(c) PROVE PcLocals'
  <2>1. pc[c] = "claim" /\ (pc' = [pc EXCEPT ![c] = "claim"] \/ pc' = [pc EXCEPT ![c] = "close"])
    BY <1>0, <1>4, NextSlotType DEF Pass, Scans
  <2>. QED BY <1>0, <1>4, <2>1 DEF IInv, TypeOK, PcLocals, Pass
<1>5. ASSUME NEW c \in Conns, Hello(c) PROVE PcLocals'
  BY <1>0, <1>5 DEF IInv, TypeOK, PcLocals, Hello
<1>6. ASSUME NEW c \in Conns, Register(c) PROVE PcLocals'
  BY <1>0, <1>6 DEF IInv, TypeOK, PcLocals, Register
<1>7. ASSUME NEW c \in Conns, SendExisting(c) PROVE PcLocals'
  <2>1. pc' = [pc EXCEPT ![c] = "existing"] \/ pc' = [pc EXCEPT ![c] = "announce"]
    BY <1>0, <1>7, NextSlotType DEF SendExisting
  <2>. QED BY <1>0, <1>7, <2>1 DEF IInv, TypeOK, PcLocals, SendExisting
<1>8. ASSUME NEW c \in Conns, AnnounceRead(c) PROVE PcLocals'
  BY <1>0, <1>8 DEF IInv, TypeOK, PcLocals, AnnounceRead
<1>9. ASSUME NEW c \in Conns, AnnounceSkip(c) PROVE PcLocals'
  <2>1. pc' = [pc EXCEPT ![c] = "announce"] \/ pc' = [pc EXCEPT ![c] = "registered"]
    BY <1>0, <1>9, NextSlotType DEF AnnounceSkip
  <2>. QED BY <1>0, <1>9, <2>1 DEF IInv, TypeOK, PcLocals, AnnounceSkip
<1>10. ASSUME NEW c \in Conns, AnnounceSend(c) PROVE PcLocals'
  <2>1. pc' = [pc EXCEPT ![c] = "announce"] \/ pc' = [pc EXCEPT ![c] = "registered"]
    BY <1>0, <1>10, NextSlotType DEF AnnounceSend
  <2>. QED BY <1>0, <1>10, <2>1 DEF IInv, TypeOK, PcLocals, AnnounceSend
<1>11. ASSUME NEW c \in Conns, Registered(c) PROVE PcLocals'
  BY <1>0, <1>11 DEF IInv, TypeOK, PcLocals, Registered
<1>12. ASSUME NEW c \in Conns, RecvUpdate(c) PROVE PcLocals'
  BY <1>0, <1>12 DEF IInv, TypeOK, PcLocals, RecvUpdate
<1>13. ASSUME NEW c \in Conns, WriteBack(c) PROVE PcLocals'
  BY <1>0, <1>13 DEF IInv, TypeOK, PcLocals, WriteBack
<1>14. ASSUME NEW c \in Conns, RecvEnd(c) PROVE PcLocals'
  BY <1>0, <1>14 DEF IInv, TypeOK, PcLocals, RecvEnd
<1>15. ASSUME NEW c \in Conns, CleanSocket(c) PROVE PcLocals'
  BY <1>0, <1>15 DEF IInv, TypeOK, PcLocals, CleanSocket
<1>16. ASSUME NEW c \in Conns, CleanPlayer(c) PROVE PcLocals'
  BY <1>0, <1>16 DEF IInv, TypeOK, PcLocals, CleanPlayer
<1>17. ASSUME NEW c \in Conns, CloseSocket(c) PROVE PcLocals'
  BY <1>0, <1>17 DEF IInv, TypeOK, PcLocals, CloseSocket
<1>18. ASSUME BroadcastBullets PROVE PcLocals'
  BY <1>0, <1>18 DEF IInv, TypeOK, PcLocals, BroadcastBullets
<1>19. ASSUME BulletsWithheld PROVE PcLocals'
  BY <1>0, <1>19 DEF IInv, TypeOK, PcLocals, BulletsWithheld
<1>20. ASSUME CheckCollisions PROVE PcLocals'
  BY <1>0, <1>20 DEF IInv, TypeOK, PcLocals, CheckCollisions
<1>21. ASSUME BroadcastPlayers PROVE PcLocals'
  BY <1>0, <1>21 DEF IInv, TypeOK, PcLocals, BroadcastPlayers
<1>22. CASE UNCHANGED vars
  BY <1>0, <1>22 DEF IInv, TypeOK, PcLocals, vars
<1>. QED BY <1>1, <1>2, <1>3, <1>4, <1>5, <1>6, <1>7, <1>8, <1>9, <1>10, <1>11, <1>12, <1>13, <1>14, <1>15, <1>16, <1>17, <1>18, <1>19, <1>20, <1>21, <1>22 DEF Next, Handler, BroadcastLoop

LEMMA MutexStep == IInv /\ [Next]_vars => MutexHeld'
<1>. SUFFICES ASSUME IInv, [Next]_vars PROVE MutexHeld'
  OBVIOUS
<1>0. TypeOK /\ TypeOK'
  BY TypeStep DEF IInv
<1>. USE SlotsAssumption DEF Goto, globals, locals, sockets, Connected, Holding, Greeted, Registering
<1>1. ASSUME NEW c \in Conns, Accept(c) PROVE MutexHeld'
  BY <1>0, <1>1 DEF IInv, TypeOK, MutexHeld, Accept
<1>2. ASSUME NEW c \in Conns, Leave(c) PROVE MutexHeld'
  BY <1>0, <1>2 DEF IInv, TypeOK, MutexHeld, Leave
<1>3. ASSUME NEW c \in Conns, Claim(c) PROVE MutexHeld'
  BY <1>0, <1>3 DEF IInv, TypeOK, MutexHeld, Claim, Scans
<1>4. ASSUME NEW c \in Conns, Pass(c) PROVE MutexHeld'
  <2>1. pc[c] = "claim" /\ (pc' = [pc EXCEPT ![c] = "claim"] \/ pc' = [pc EXCEPT ![c] = "close"])
    BY <1>0, <1>4, NextSlotType DEF Pass, Scans
  <2>. QED BY <1>0, <1>4, <2>1 DEF IInv, TypeOK, MutexHeld, Pass
<1>5. ASSUME NEW c \in Conns, Hello(c) PROVE MutexHeld'
  BY <1>0, <1>5 DEF IInv, TypeOK, MutexHeld, Hello
<1>6. ASSUME NEW c \in Conns, Register(c) PROVE MutexHeld'
  BY <1>0, <1>6 DEF IInv, TypeOK, MutexHeld, Register
<1>7. ASSUME NEW c \in Conns, SendExisting(c) PROVE MutexHeld'
  <2>1. pc' = [pc EXCEPT ![c] = "existing"] \/ pc' = [pc EXCEPT ![c] = "announce"]
    BY <1>0, <1>7, NextSlotType DEF SendExisting
  <2>. QED BY <1>0, <1>7, <2>1 DEF IInv, TypeOK, MutexHeld, SendExisting
<1>8. ASSUME NEW c \in Conns, AnnounceRead(c) PROVE MutexHeld'
  BY <1>0, <1>8 DEF IInv, TypeOK, MutexHeld, AnnounceRead
<1>9. ASSUME NEW c \in Conns, AnnounceSkip(c) PROVE MutexHeld'
  <2>1. pc' = [pc EXCEPT ![c] = "announce"] \/ pc' = [pc EXCEPT ![c] = "registered"]
    BY <1>0, <1>9, NextSlotType DEF AnnounceSkip
  <2>. QED BY <1>0, <1>9, <2>1 DEF IInv, TypeOK, MutexHeld, AnnounceSkip
<1>10. ASSUME NEW c \in Conns, AnnounceSend(c) PROVE MutexHeld'
  <2>1. pc' = [pc EXCEPT ![c] = "announce"] \/ pc' = [pc EXCEPT ![c] = "registered"]
    BY <1>0, <1>10, NextSlotType DEF AnnounceSend
  <2>. QED BY <1>0, <1>10, <2>1 DEF IInv, TypeOK, MutexHeld, AnnounceSend
<1>11. ASSUME NEW c \in Conns, Registered(c) PROVE MutexHeld'
  BY <1>0, <1>11 DEF IInv, TypeOK, MutexHeld, Registered
<1>12. ASSUME NEW c \in Conns, RecvUpdate(c) PROVE MutexHeld'
  BY <1>0, <1>12 DEF IInv, TypeOK, MutexHeld, RecvUpdate
<1>13. ASSUME NEW c \in Conns, WriteBack(c) PROVE MutexHeld'
  BY <1>0, <1>13 DEF IInv, TypeOK, MutexHeld, WriteBack
<1>14. ASSUME NEW c \in Conns, RecvEnd(c) PROVE MutexHeld'
  BY <1>0, <1>14 DEF IInv, TypeOK, MutexHeld, RecvEnd
<1>15. ASSUME NEW c \in Conns, CleanSocket(c) PROVE MutexHeld'
  BY <1>0, <1>15 DEF IInv, TypeOK, MutexHeld, CleanSocket
<1>16. ASSUME NEW c \in Conns, CleanPlayer(c) PROVE MutexHeld'
  BY <1>0, <1>16 DEF IInv, TypeOK, MutexHeld, CleanPlayer
<1>17. ASSUME NEW c \in Conns, CloseSocket(c) PROVE MutexHeld'
  BY <1>0, <1>17 DEF IInv, TypeOK, MutexHeld, CloseSocket
<1>18. ASSUME BroadcastBullets PROVE MutexHeld'
  BY <1>0, <1>18 DEF IInv, TypeOK, MutexHeld, BroadcastBullets
<1>19. ASSUME BulletsWithheld PROVE MutexHeld'
  BY <1>0, <1>19 DEF IInv, TypeOK, MutexHeld, BulletsWithheld
<1>20. ASSUME CheckCollisions PROVE MutexHeld'
  BY <1>0, <1>20 DEF IInv, TypeOK, MutexHeld, CheckCollisions
<1>21. ASSUME BroadcastPlayers PROVE MutexHeld'
  BY <1>0, <1>21 DEF IInv, TypeOK, MutexHeld, BroadcastPlayers
<1>22. CASE UNCHANGED vars
  BY <1>0, <1>22 DEF IInv, TypeOK, MutexHeld, vars
<1>. QED BY <1>1, <1>2, <1>3, <1>4, <1>5, <1>6, <1>7, <1>8, <1>9, <1>10, <1>11, <1>12, <1>13, <1>14, <1>15, <1>16, <1>17, <1>18, <1>19, <1>20, <1>21, <1>22 DEF Next, Handler, BroadcastLoop

LEMMA DescriptorStep == IInv /\ [Next]_vars => (DescriptorHeld /\ OwnerHolds)'
<1>. SUFFICES ASSUME IInv, [Next]_vars PROVE (DescriptorHeld /\ OwnerHolds)'
  OBVIOUS
<1>0. TypeOK /\ TypeOK'
  BY TypeStep DEF IInv
<1>. USE SlotsAssumption DEF Goto, globals, locals, sockets, UNUSED_SOCKET_ID, Connected, Holding, Greeted, Registering
<1>1. ASSUME NEW c \in Conns, Accept(c) PROVE (DescriptorHeld /\ OwnerHolds)'
  BY <1>0, <1>1 DEF IInv, TypeOK, PcLocals, DescriptorHeld, OwnerHolds, Accept, FreeFds
<1>2. ASSUME NEW c \in Conns, Leave(c) PROVE (DescriptorHeld /\ OwnerHolds)'
  BY <1>0, <1>2 DEF IInv, TypeOK, PcLocals, DescriptorHeld, OwnerHolds, Leave
<1>3. ASSUME NEW c \in Conns, Claim(c) PROVE (DescriptorHeld /\ OwnerHolds)'
  BY <1>0, <1>3 DEF IInv, TypeOK, PcLocals, DescriptorHeld, OwnerHolds, Claim, Scans
<1>4. ASSUME NEW c \in Conns, Pass(c) PROVE (DescriptorHeld /\ OwnerHolds)'
  <2>1. pc[c] = "claim" /\ (pc' = [pc EXCEPT ![c] = "claim"] \/ pc' = [pc EXCEPT ![c] = "close"])
    BY <1>0, <1>4, NextSlotType DEF Pass, Scans
  <2>. QED BY <1>0, <1>4, <2>1 DEF IInv, TypeOK, PcLocals, DescriptorHeld, OwnerHolds, Pass
<1>5. ASSUME NEW c \in Conns, Hello(c) PROVE (DescriptorHeld /\ OwnerHolds)'
  BY <1>0, <1>5 DEF IInv, TypeOK, PcLocals, DescriptorHeld, OwnerHolds, Hello
<1>6. ASSUME NEW c \in Conns, Register(c) PROVE (DescriptorHeld /\ OwnerHolds)'
  BY <1>0, <1>6 DEF IInv, TypeOK, PcLocals, DescriptorHeld, OwnerHolds, Register
<1>7. ASSUME NEW c \in Conns, SendExisting(c) PROVE (DescriptorHeld /\ OwnerHolds)'
  <2>1. pc' = [pc EXCEPT ![c] = "existing"] \/ pc' = [pc EXCEPT ![c] = "announce"]
    BY <1>0, <1>7, NextSlotType DEF SendExisting
  <2>. QED BY <1>0, <1>7, <2>1 DEF IInv, TypeOK, PcLocals, DescriptorHeld, OwnerHolds, SendExisting
<1>8. ASSUME NEW c \in Conns, AnnounceRead(c) PROVE (DescriptorHeld /\ OwnerHolds)'
  BY <1>0, <1>8 DEF IInv, TypeOK, PcLocals, DescriptorHeld, OwnerHolds, AnnounceRead
<1>9. ASSUME NEW c \in Conns, AnnounceSkip(c) PROVE (DescriptorHeld /\ OwnerHolds)'
  <2>1. pc' = [pc EXCEPT ![c] = "announce"] \/ pc' = [pc EXCEPT ![c] = "registered"]
    BY <1>0, <1>9, NextSlotType DEF AnnounceSkip
  <2>. QED BY <1>0, <1>9, <2>1 DEF IInv, TypeOK, PcLocals, DescriptorHeld, OwnerHolds, AnnounceSkip
<1>10. ASSUME NEW c \in Conns, AnnounceSend(c) PROVE (DescriptorHeld /\ OwnerHolds)'
  <2>1. pc' = [pc EXCEPT ![c] = "announce"] \/ pc' = [pc EXCEPT ![c] = "registered"]
    BY <1>0, <1>10, NextSlotType DEF AnnounceSend
  <2>. QED BY <1>0, <1>10, <2>1 DEF IInv, TypeOK, PcLocals, DescriptorHeld, OwnerHolds, AnnounceSend
<1>11. ASSUME NEW c \in Conns, Registered(c) PROVE (DescriptorHeld /\ OwnerHolds)'
  BY <1>0, <1>11 DEF IInv, TypeOK, PcLocals, DescriptorHeld, OwnerHolds, Registered
<1>12. ASSUME NEW c \in Conns, RecvUpdate(c) PROVE (DescriptorHeld /\ OwnerHolds)'
  BY <1>0, <1>12 DEF IInv, TypeOK, PcLocals, DescriptorHeld, OwnerHolds, RecvUpdate
<1>13. ASSUME NEW c \in Conns, WriteBack(c) PROVE (DescriptorHeld /\ OwnerHolds)'
  BY <1>0, <1>13 DEF IInv, TypeOK, PcLocals, DescriptorHeld, OwnerHolds, WriteBack
<1>14. ASSUME NEW c \in Conns, RecvEnd(c) PROVE (DescriptorHeld /\ OwnerHolds)'
  BY <1>0, <1>14 DEF IInv, TypeOK, PcLocals, DescriptorHeld, OwnerHolds, RecvEnd
<1>15. ASSUME NEW c \in Conns, CleanSocket(c) PROVE (DescriptorHeld /\ OwnerHolds)'
  BY <1>0, <1>15 DEF IInv, TypeOK, PcLocals, DescriptorHeld, OwnerHolds, CleanSocket
<1>16. ASSUME NEW c \in Conns, CleanPlayer(c) PROVE (DescriptorHeld /\ OwnerHolds)'
  BY <1>0, <1>16 DEF IInv, TypeOK, PcLocals, DescriptorHeld, OwnerHolds, CleanPlayer
<1>17. ASSUME NEW c \in Conns, CloseSocket(c) PROVE (DescriptorHeld /\ OwnerHolds)'
  BY <1>0, <1>17 DEF IInv, TypeOK, PcLocals, DescriptorHeld, OwnerHolds, CloseSocket
<1>18. ASSUME BroadcastBullets PROVE (DescriptorHeld /\ OwnerHolds)'
  BY <1>0, <1>18 DEF IInv, TypeOK, PcLocals, DescriptorHeld, OwnerHolds, BroadcastBullets
<1>19. ASSUME BulletsWithheld PROVE (DescriptorHeld /\ OwnerHolds)'
  BY <1>0, <1>19 DEF IInv, TypeOK, PcLocals, DescriptorHeld, OwnerHolds, BulletsWithheld
<1>20. ASSUME CheckCollisions PROVE (DescriptorHeld /\ OwnerHolds)'
  BY <1>0, <1>20 DEF IInv, TypeOK, PcLocals, DescriptorHeld, OwnerHolds, CheckCollisions
<1>21. ASSUME BroadcastPlayers PROVE (DescriptorHeld /\ OwnerHolds)'
  <2>1. CASE removed'
    BY <2>1 DEF DescriptorHeld, OwnerHolds
  <2>2. CASE ~removed'
    <3>1. ~removed /\ owner' = owner
      BY <1>0, <1>21, <2>2 DEF TypeOK, BroadcastPlayers
    <3>. QED BY <1>21, <3>1 DEF IInv, DescriptorHeld, OwnerHolds, BroadcastPlayers
  <2>. QED BY <2>1, <2>2
<1>22. CASE UNCHANGED vars
  BY <1>0, <1>22 DEF IInv, TypeOK, PcLocals, DescriptorHeld, OwnerHolds, vars
<1>. QED BY <1>1, <1>2, <1>3, <1>4, <1>5, <1>6, <1>7, <1>8, <1>9, <1>10, <1>11, <1>12, <1>13, <1>14, <1>15, <1>16, <1>17, <1>18, <1>19, <1>20, <1>21, <1>22 DEF Next, Handler, BroadcastLoop

LEMMA HeldSlotStep == IInv /\ [Next]_vars => HeldSlot'
<1>. SUFFICES ASSUME IInv, [Next]_vars PROVE HeldSlot'
  OBVIOUS
<1>0. TypeOK /\ TypeOK'
  BY TypeStep DEF IInv
<1>. USE SlotsAssumption DEF Goto, globals, locals, sockets, Slots, Ids, INVALID_PLAYER_ID, NotAssigned
<1>1. ASSUME NEW c \in Conns, Accept(c) PROVE HeldSlot'
  BY <1>1 DEF IInv, HeldSlot, Accept
<1>2. ASSUME NEW c \in Conns, Leave(c) PROVE HeldSlot'
  BY <1>2 DEF IInv, HeldSlot, Leave
<1>3. ASSUME NEW c \in Conns, Claim(c) PROVE HeldSlot'
  <2>1. PICK s \in FreeSlots : /\ client_id' = [client_id EXCEPT ![c] = s]
                              /\ players_id' = [players_id EXCEPT ![s] = s]
    BY <1>3 DEF Claim, Scans
  <2>2. client_id[c] = INVALID_PLAYER_ID
    BY <1>0, <1>3 DEF TypeOK, IInv, PcLocals, Claim, Scans, Holding, Greeted, Registering
  <2>3. ASSUME NEW t \in Slots, players_id'[t] # INVALID_PLAYER_ID
        PROVE  \E d \in Conns : client_id'[d] = t
    <3>1. CASE t = s
      BY <1>0, <2>1, <3>1 DEF TypeOK
    <3>2. CASE t # s
      <4>1. PICK d \in Conns : client_id[d] = t
        BY <1>0, <2>1, <2>3, <3>2 DEF TypeOK, IInv, HeldSlot, FreeSlots
      <4>. QED BY <1>0, <2>1, <2>2, <4>1 DEF TypeOK
    <3>. QED BY <3>1, <3>2
  <2>. QED BY <2>3 DEF HeldSlot
<1>4. ASSUME NEW c \in Conns, Pass(c) PROVE HeldSlot'
  <2>1. pc[c] = "claim" /\ (pc' = [pc EXCEPT ![c] = "claim"] \/ pc' = [pc EXCEPT ![c] = "close"])
    BY <1>0, <1>4, NextSlotType DEF Pass, Scans
  <2>. QED BY <1>0, <1>4, <2>1 DEF IInv, HeldSlot, Pass
<1>5. ASSUME NEW c \in Conns, Hello(c) PROVE HeldSlot'
  BY <1>5 DEF IInv, HeldSlot, Hello
<1>6. ASSUME NEW c \in Conns, Register(c) PROVE HeldSlot'
  BY <1>6 DEF IInv, HeldSlot, Register
<1>7. ASSUME NEW c \in Conns, SendExisting(c) PROVE HeldSlot'
  BY <1>7 DEF IInv, HeldSlot, SendExisting
<1>8. ASSUME NEW c \in Conns, AnnounceRead(c) PROVE HeldSlot'
  BY <1>8 DEF IInv, HeldSlot, AnnounceRead
<1>9. ASSUME NEW c \in Conns, AnnounceSkip(c) PROVE HeldSlot'
  BY <1>9 DEF IInv, HeldSlot, AnnounceSkip
<1>10. ASSUME NEW c \in Conns, AnnounceSend(c) PROVE HeldSlot'
  BY <1>10 DEF IInv, HeldSlot, AnnounceSend
<1>11. ASSUME NEW c \in Conns, Registered(c) PROVE HeldSlot'
  BY <1>11 DEF IInv, HeldSlot, Registered
<1>12. ASSUME NEW c \in Conns, RecvUpdate(c) PROVE HeldSlot'
  BY <1>12 DEF IInv, HeldSlot, RecvUpdate
<1>13. ASSUME NEW c \in Conns, WriteBack(c) PROVE HeldSlot'
  BY <1>0, <1>13 DEF TypeOK, IInv, HeldSlot, PcLocals, WriteBack, Holding, Greeted
<1>14. ASSUME NEW c \in Conns, RecvEnd(c) PROVE HeldSlot'
  BY <1>14 DEF IInv, HeldSlot, RecvEnd
<1>15. ASSUME NEW c \in Conns, CleanSocket(c) PROVE HeldSlot'
  BY <1>15 DEF IInv, HeldSlot, CleanSocket
<1>16. ASSUME NEW c \in Conns, CleanPlayer(c) PROVE HeldSlot'
  BY <1>0, <1>16 DEF TypeOK, IInv, HeldSlot, PcLocals, CleanPlayer, Holding
<1>17. ASSUME NEW c \in Conns, CloseSocket(c) PROVE HeldSlot'
  BY <1>17 DEF IInv, HeldSlot, CloseSocket
<1>18. ASSUME BroadcastBullets PROVE HeldSlot'
  BY <1>18 DEF IInv, HeldSlot, BroadcastBullets
<1>19. ASSUME BulletsWithheld PROVE HeldSlot'
  BY <1>19 DEF IInv, HeldSlot, BulletsWithheld
<1>20. ASSUME CheckCollisions PROVE HeldSlot'
  BY <1>20 DEF IInv, HeldSlot, CheckCollisions
<1>21. ASSUME BroadcastPlayers PROVE HeldSlot'
  BY <1>21 DEF IInv, HeldSlot, BroadcastPlayers
<1>22. CASE UNCHANGED vars
  BY <1>0, <1>22 DEF IInv, TypeOK, HeldSlot, vars
<1>. QED BY <1>1, <1>2, <1>3, <1>4, <1>5, <1>6, <1>7, <1>8, <1>9, <1>10, <1>11, <1>12, <1>13, <1>14, <1>15, <1>16, <1>17, <1>18, <1>19, <1>20, <1>21, <1>22 DEF Next, Handler, BroadcastLoop

LEMMA DistinctStep == IInv /\ [Next]_vars => DistinctSlots'
<1>. SUFFICES ASSUME IInv, [Next]_vars PROVE DistinctSlots'
  OBVIOUS
<1>0. TypeOK /\ TypeOK'
  BY TypeStep DEF IInv
<1>. USE SlotsAssumption DEF Goto, globals, locals, sockets, Slots, Ids, INVALID_PLAYER_ID, NotAssigned
<1>1. ASSUME NEW c \in Conns, Accept(c) PROVE DistinctSlots'
  BY <1>1 DEF IInv, DistinctSlots, Sound, Accept
<1>2. ASSUME NEW c \in Conns, Leave(c) PROVE DistinctSlots'
  BY <1>2 DEF IInv, DistinctSlots, Sound, Leave
<1>3. ASSUME NEW c \in Conns, Claim(c) PROVE DistinctSlots'
  <2>. SUFFICES ASSUME Sound' PROVE \A d \in Conns : client_id[d] # client_id'[c] \/ d = c
    BY <1>0, <1>3 DEF TypeOK, IInv, DistinctSlots, Sound, Claim, Scans, FreeSlots
  <2>1. PICK s \in FreeSlots : client_id' = [client_id EXCEPT ![c] = s]
    BY <1>3 DEF Claim, Scans
  <2>2. \A d \in Conns : client_id[d] # s
    BY <1>3, <2>1 DEF IInv, PcLocals, HolderSound, Sound, FreeSlots, Claim, Scans
  <2>. QED BY <1>0, <2>1, <2>2 DEF TypeOK
<1>4. ASSUME NEW c \in Conns, Pass(c) PROVE DistinctSlots'
  <2>1. pc[c] = "claim" /\ (pc' = [pc EXCEPT ![c] = "claim"] \/ pc' = [pc EXCEPT ![c] = "close"])
    BY <1>0, <1>4, NextSlotType DEF Pass, Scans
  <2>. QED BY <1>0, <1>4, <2>1 DEF IInv, DistinctSlots, Sound, Pass
<1>5. ASSUME NEW c \in Conns, Hello(c) PROVE DistinctSlots'
  BY <1>0, <1>5, SendToSound DEF IInv, DistinctSlots, Sound, Hello, Send
<1>6. ASSUME NEW c \in Conns, Register(c) PROVE DistinctSlots'
  BY <1>6 DEF IInv, DistinctSlots, Sound, Register
<1>7. ASSUME NEW c \in Conns, SendExisting(c) PROVE DistinctSlots'
  BY <1>0, <1>7, SendToSound DEF IInv, DistinctSlots, Sound, SendExisting, Send
<1>8. ASSUME NEW c \in Conns, AnnounceRead(c) PROVE DistinctSlots'
  BY <1>8 DEF IInv, DistinctSlots, Sound, AnnounceRead
<1>9. ASSUME NEW c \in Conns, AnnounceSkip(c) PROVE DistinctSlots'
  BY <1>9 DEF IInv, DistinctSlots, Sound, AnnounceSkip
<1>10. ASSUME NEW c \in Conns, AnnounceSend(c) PROVE DistinctSlots'
  BY <1>0, <1>10, SendToSound DEF IInv, DistinctSlots, Sound, AnnounceSend, Send
<1>11. ASSUME NEW c \in Conns, Registered(c) PROVE DistinctSlots'
  BY <1>11 DEF IInv, DistinctSlots, Sound, Registered
<1>12. ASSUME NEW c \in Conns, RecvUpdate(c) PROVE DistinctSlots'
  BY <1>12 DEF IInv, DistinctSlots, Sound, RecvUpdate
<1>13. ASSUME NEW c \in Conns, WriteBack(c) PROVE DistinctSlots'
  BY <1>13 DEF IInv, DistinctSlots, Sound, WriteBack
<1>14. ASSUME NEW c \in Conns, RecvEnd(c) PROVE DistinctSlots'
  BY <1>14 DEF IInv, DistinctSlots, Sound, RecvEnd
<1>15. ASSUME NEW c \in Conns, CleanSocket(c) PROVE DistinctSlots'
  BY <1>15 DEF IInv, DistinctSlots, Sound, CleanSocket
<1>16. ASSUME NEW c \in Conns, CleanPlayer(c) PROVE DistinctSlots'
  BY <1>0, <1>16 DEF TypeOK, IInv, DistinctSlots, Sound, CleanPlayer
<1>17. ASSUME NEW c \in Conns, CloseSocket(c) PROVE DistinctSlots'
  BY <1>17 DEF IInv, DistinctSlots, Sound, CloseSocket
<1>18. ASSUME BroadcastBullets PROVE DistinctSlots'
  BY <1>0, <1>18, SendToSound DEF IInv, DistinctSlots, Sound, BroadcastBullets
<1>19. ASSUME BulletsWithheld PROVE DistinctSlots'
  BY <1>19 DEF IInv, DistinctSlots, Sound, BulletsWithheld
<1>20. ASSUME CheckCollisions PROVE DistinctSlots'
  BY <1>20 DEF IInv, DistinctSlots, Sound, CheckCollisions
<1>21. ASSUME BroadcastPlayers PROVE DistinctSlots'
  <2>1. client_id' = client_id /\ (~misled' => ~misled) /\ (~removed' => ~removed)
    BY <1>0, <1>21, SendToSound DEF TypeOK, BroadcastPlayers
  <2>. QED BY <2>1 DEF IInv, DistinctSlots, Sound
<1>22. CASE UNCHANGED vars
  BY <1>0, <1>22 DEF IInv, TypeOK, DistinctSlots, Sound, vars
<1>. QED BY <1>1, <1>2, <1>3, <1>4, <1>5, <1>6, <1>7, <1>8, <1>9, <1>10, <1>11, <1>12, <1>13, <1>14, <1>15, <1>16, <1>17, <1>18, <1>19, <1>20, <1>21, <1>22 DEF Next, Handler, BroadcastLoop

LEMMA HolderStep == IInv /\ [Next]_vars => HolderSound'
<1>. SUFFICES ASSUME IInv, [Next]_vars PROVE HolderSound'
  OBVIOUS
<1>0. TypeOK /\ TypeOK'
  BY TypeStep DEF IInv
<1>. USE SlotsAssumption DEF Goto, globals, locals, sockets, Slots, Ids, INVALID_PLAYER_ID, NotAssigned, UNUSED_SOCKET_ID, Connected, Holding, Greeted, Registering
<1>1. ASSUME NEW c \in Conns, Accept(c) PROVE HolderSound'
  BY <1>0, <1>1 DEF IInv, TypeOK, Sound, PcLocals, HolderSound, Accept, FreeFds
<1>2. ASSUME NEW c \in Conns, Leave(c) PROVE HolderSound'
  BY <1>0, <1>2 DEF IInv, TypeOK, Sound, PcLocals, HolderSound, Leave
<1>3. ASSUME NEW c \in Conns, Claim(c) PROVE HolderSound'
  BY <1>0, <1>3 DEF IInv, TypeOK, Sound, PcLocals, HolderSound, Claim, Scans, FreeSlots
<1>4. ASSUME NEW c \in Conns, Pass(c) PROVE HolderSound'
  <2>1. pc[c] = "claim" /\ (pc' = [pc EXCEPT ![c] = "claim"] \/ pc' = [pc EXCEPT ![c] = "close"])
    BY <1>0, <1>4, NextSlotType DEF Pass, Scans
  <2>. QED BY <1>0, <1>4, <2>1 DEF IInv, TypeOK, Sound, PcLocals, HolderSound, Pass
<1>5. ASSUME NEW c \in Conns, Hello(c) PROVE HolderSound'
  BY <1>0, <1>5, SendToSound DEF IInv, TypeOK, Sound, PcLocals, HolderSound, Hello, Send
<1>6. ASSUME NEW c \in Conns, Register(c) PROVE HolderSound'
  BY <1>0, <1>6 DEF IInv, TypeOK, Sound, PcLocals, HolderSound, Register, MutexHeld, DistinctSlots
<1>7. ASSUME NEW c \in Conns, SendExisting(c) PROVE HolderSound'
  <2>1. pc' = [pc EXCEPT ![c] = "existing"] \/ pc' = [pc EXCEPT ![c] = "announce"]
    BY <1>0, <1>7, NextSlotType DEF SendExisting
  <2>2. ~misled' => /\ ~misled
                    /\ \A d \in Conns : \/ assigned'[d] = assigned[d]
                                        \/ client_id[d] \in Slots /\ assigned'[d] = client_id[d]
    <3>1. CASE UNCHANGED <<link, up, assigned, told, misled>>
      BY <3>1
    <3>2. CASE Send(client_socket[c], player_data_id[idx[c]])
      BY <1>0, <3>2, SendToSound DEF Send
    <3>. QED BY <1>7, <3>1, <3>2 DEF SendExisting
  <2>3. removed' = removed /\ UNCHANGED <<players_id, player_data_id, client_sockets, client_socket, client_id, update_id>>
    BY <1>7 DEF SendExisting
  <2>4. pc[c] = "existing"
    BY <1>7 DEF SendExisting
  <2>. QED BY <1>0, <2>1, <2>2, <2>3, <2>4 DEF IInv, TypeOK, Sound, PcLocals, HolderSound
<1>8. ASSUME NEW c \in Conns, AnnounceRead(c) PROVE HolderSound'
  BY <1>0, <1>8 DEF IInv, TypeOK, Sound, PcLocals, HolderSound, AnnounceRead
<1>9. ASSUME NEW c \in Conns, AnnounceSkip(c) PROVE HolderSound'
  <2>1. pc' = [pc EXCEPT ![c] = "announce"] \/ pc' = [pc EXCEPT ![c] = "registered"]
    BY <1>0, <1>9, NextSlotType DEF AnnounceSkip
  <2>2. pc[c] = "announce" /\ UNCHANGED <<globals, client_socket, client_id, update_id, assigned, misled, removed>>
    BY <1>9 DEF AnnounceSkip
  <2>. QED BY <1>0, <2>1, <2>2 DEF IInv, TypeOK, Sound, PcLocals, HolderSound
<1>10. ASSUME NEW c \in Conns, AnnounceSend(c) PROVE HolderSound'
  <2>1. pc' = [pc EXCEPT ![c] = "announce"] \/ pc' = [pc EXCEPT ![c] = "registered"]
    BY <1>0, <1>10, NextSlotType DEF AnnounceSend
  <2>2. pc[c] = "announce_send" /\ UNCHANGED <<globals, client_socket, client_id, update_id, removed>>
    BY <1>10 DEF AnnounceSend
  <2>3. ~misled' => /\ ~misled
                    /\ \A d \in Conns : \/ assigned'[d] = assigned[d]
                                        \/ client_id[d] \in Slots /\ assigned'[d] = client_id[d]
    BY <1>0, <1>10, SendToSound DEF AnnounceSend, Send
  <2>. QED BY <1>0, <2>1, <2>2, <2>3 DEF IInv, TypeOK, Sound, PcLocals, HolderSound
<1>11. ASSUME NEW c \in Conns, Registered(c) PROVE HolderSound'
  BY <1>0, <1>11 DEF IInv, TypeOK, Sound, PcLocals, HolderSound, Registered
<1>12. ASSUME NEW c \in Conns, RecvUpdate(c) PROVE HolderSound'
  BY <1>0, <1>12 DEF IInv, TypeOK, Sound, PcLocals, HolderSound, RecvUpdate, DescriptorHeld
<1>13. ASSUME NEW c \in Conns, WriteBack(c) PROVE HolderSound'
  BY <1>0, <1>13 DEF IInv, TypeOK, Sound, PcLocals, HolderSound, WriteBack, MutexHeld, DistinctSlots
<1>14. ASSUME NEW c \in Conns, RecvEnd(c) PROVE HolderSound'
  BY <1>0, <1>14 DEF IInv, TypeOK, Sound, PcLocals, HolderSound, RecvEnd
<1>15. ASSUME NEW c \in Conns, CleanSocket(c) PROVE HolderSound'
  BY <1>0, <1>15 DEF IInv, TypeOK, Sound, PcLocals, HolderSound, CleanSocket, DistinctSlots
<1>16. ASSUME NEW c \in Conns, CleanPlayer(c) PROVE HolderSound'
  BY <1>0, <1>16 DEF IInv, TypeOK, Sound, PcLocals, HolderSound, CleanPlayer, DistinctSlots
<1>17. ASSUME NEW c \in Conns, CloseSocket(c) PROVE HolderSound'
  BY <1>0, <1>17 DEF IInv, TypeOK, Sound, PcLocals, HolderSound, CloseSocket, DescriptorHeld, OwnerHolds
<1>18. ASSUME BroadcastBullets PROVE HolderSound'
  BY <1>0, <1>18, SendToSound DEF IInv, TypeOK, Sound, PcLocals, HolderSound, BroadcastBullets
<1>19. ASSUME BulletsWithheld PROVE HolderSound'
  BY <1>0, <1>19 DEF IInv, TypeOK, Sound, PcLocals, HolderSound, BulletsWithheld
<1>20. ASSUME CheckCollisions PROVE HolderSound'
  BY <1>0, <1>20 DEF IInv, TypeOK, Sound, PcLocals, HolderSound, CheckCollisions
<1>21. ASSUME BroadcastPlayers PROVE HolderSound'
  <2>. SUFFICES ASSUME Sound' PROVE HolderSound'
    BY DEF HolderSound
  <2>1. ~removed /\ client_sockets' = client_sockets
    BY <1>0, <1>21 DEF TypeOK, BroadcastPlayers, Sound
  <2>2. ~misled /\ \A d \in Conns : \/ assigned'[d] = assigned[d]
                                    \/ client_id[d] \in Slots /\ assigned'[d] = client_id[d]
    BY <1>0, <1>21, SendToSound DEF BroadcastPlayers, Sound
  <2>3. UNCHANGED <<pc, players_id, player_data_id, client_socket, client_id, update_id>>
    BY <1>21 DEF BroadcastPlayers
  <2>. QED BY <1>0, <2>1, <2>2, <2>3 DEF IInv, TypeOK, Sound, PcLocals, HolderSound
<1>22. CASE UNCHANGED vars
  BY <1>0, <1>22 DEF IInv, TypeOK, Sound, PcLocals, HolderSound, vars
<1>. QED BY <1>1, <1>2, <1>3, <1>4, <1>5, <1>6, <1>7, <1>8, <1>9, <1>10, <1>11, <1>12, <1>13, <1>14, <1>15, <1>16, <1>17, <1>18, <1>19, <1>20, <1>21, <1>22 DEF Next, Handler, BroadcastLoop

\* A step keeps SocketHeld if it registers nothing and no registered handler
\* changes its locals or gets to its cleanup.
LEMMA SocketStable ==
    ASSUME IInv, Sound' => Sound, client_sockets' = client_sockets,
           \A d \in Conns : pc[d] \in Holding \ {"clean_player"} =>
               /\ pc'[d] \in Holding \ {"clean_player"}
               /\ client_id'[d] = client_id[d]
               /\ client_socket'[d] = client_socket[d]
    PROVE  SocketHeld'
BY DEF IInv, SocketHeld

LEMMA SocketStep == IInv /\ [Next]_vars => SocketHeld'
<1>. SUFFICES ASSUME IInv, [Next]_vars PROVE SocketHeld'
  OBVIOUS
<1>0. TypeOK /\ TypeOK'
  BY TypeStep DEF IInv
<1>. USE SlotsAssumption DEF Goto, globals, locals, sockets, Slots, Ids, INVALID_PLAYER_ID, NotAssigned, UNUSED_SOCKET_ID, Connected, Holding, Greeted, Registering
<1>1. ASSUME NEW c \in Conns, Accept(c) PROVE SocketHeld'
  BY <1>0, <1>1, SocketStable DEF TypeOK, Sound, Accept
<1>2. ASSUME NEW c \in Conns, Leave(c) PROVE SocketHeld'
  BY <1>0, <1>2, SocketStable DEF TypeOK, Sound, Leave
<1>3. ASSUME NEW c \in Conns, Claim(c) PROVE SocketHeld'
  <2>. SUFFICES ASSUME Sound', NEW t \in Slots, client_sockets'[t] # UNUSED_SOCKET_ID
                PROVE  \E d \in Conns : /\ pc'[d] \in Holding \ {"clean_player"}
                                        /\ client_id'[d] = t
                                        /\ client_socket'[d] = client_sockets'[t]
    BY DEF SocketHeld
  <2>1. PICK s \in Slots : /\ client_id' = [client_id EXCEPT ![c] = s]
                           /\ client_sockets' = [client_sockets EXCEPT ![s] = client_socket[c]]
    BY <1>3 DEF Claim, Scans, FreeSlots
  <2>2. client_socket' = client_socket /\ pc' = [pc EXCEPT ![c] = "hello"] /\ Sound
    BY <1>3 DEF Claim, Scans, Sound
  <2>3. CASE t = s
    BY <1>0, <2>1, <2>2, <2>3 DEF TypeOK
  <2>4. CASE t # s
    <3>1. PICK d \in Conns : /\ pc[d] \in Holding \ {"clean_player"}
                             /\ client_id[d] = t
                             /\ client_socket[d] = client_sockets[t]
      BY <1>0, <2>1, <2>2, <2>4 DEF TypeOK, IInv, SocketHeld
    <3>2. d # c
      BY <1>3, <3>1 DEF Claim, Scans
    <3>. QED BY <1>0, <2>1, <2>2, <3>1, <3>2 DEF TypeOK
  <2>. QED BY <2>3, <2>4
<1>4. ASSUME NEW c \in Conns, Pass(c) PROVE SocketHeld'
  <2>1. pc[c] = "claim" /\ (pc' = [pc EXCEPT ![c] = "claim"] \/ pc' = [pc EXCEPT ![c] = "close"])
    BY <1>0, <1>4, NextSlotType DEF Pass, Scans
  <2>. QED BY <1>0, <1>4, <2>1, SocketStable DEF TypeOK, Sound, Pass
<1>5. ASSUME NEW c \in Conns, Hello(c) PROVE SocketHeld'
  BY <1>0, <1>5, SocketStable, SendToSound DEF TypeOK, Sound, Hello, Send
<1>6. ASSUME NEW c \in Conns, Register(c) PROVE SocketHeld'
  BY <1>0, <1>6, SocketStable DEF TypeOK, Sound, Register
<1>7. ASSUME NEW c \in Conns, SendExisting(c) PROVE SocketHeld'
  <2>1. pc' = [pc EXCEPT ![c] = "existing"] \/ pc' = [pc EXCEPT ![c] = "announce"]
    BY <1>0, <1>7, NextSlotType DEF SendExisting
  <2>2. Sound' => Sound
    <3>1. CASE UNCHANGED <<link, up, assigned, told, misled>>
      BY <1>7, <3>1 DEF SendExisting, Sound
    <3>2. CASE Send(client_socket[c], player_data_id[idx[c]])
      BY <1>0, <1>7, <3>2, SendToSound DEF SendExisting, Send, Sound
    <3>. QED BY <1>7, <3>1, <3>2 DEF SendExisting
  <2>3. UNCHANGED <<client_sockets, client_socket, client_id>>
    BY <1>7 DEF SendExisting
  <2>. QED BY <1>0, <1>7, <2>1, <2>2, <2>3, SocketStable DEF TypeOK, SendExisting
<1>8. ASSUME NEW c \in Conns, AnnounceRead(c) PROVE SocketHeld'
  BY <1>0, <1>8, SocketStable DEF TypeOK, Sound, AnnounceRead
<1>9. ASSUME NEW c \in Conns, AnnounceSkip(c) PROVE SocketHeld'
  <2>1. pc' = [pc EXCEPT ![c] = "announce"] \/ pc' = [pc EXCEPT ![c] = "registered"]
    BY <1>0, <1>9, NextSlotType DEF AnnounceSkip
  <2>2. Sound' => Sound
    BY <1>0, <1>9, SendToSound DEF AnnounceSkip, Send, Sound
  <2>3. UNCHANGED <<client_sockets, client_socket, client_id>>
    BY <1>9 DEF AnnounceSkip
  <2>. QED BY <1>0, <1>9, <2>1, <2>2, <2>3, SocketStable DEF TypeOK, AnnounceSkip
<1>10. ASSUME NEW c \in Conns, AnnounceSend(c) PROVE SocketHeld'
  <2>1. pc' = [pc EXCEPT ![c] = "announce"] \/ pc' = [pc EXCEPT ![c] = "registered"]
    BY <1>0, <1>10, NextSlotType DEF AnnounceSend
  <2>2. Sound' => Sound
    BY <1>0, <1>10, SendToSound DEF AnnounceSend, Send, Sound
  <2>3. UNCHANGED <<client_sockets, client_socket, client_id>>
    BY <1>10 DEF AnnounceSend
  <2>. QED BY <1>0, <1>10, <2>1, <2>2, <2>3, SocketStable DEF TypeOK, AnnounceSend
<1>11. ASSUME NEW c \in Conns, Registered(c) PROVE SocketHeld'
  BY <1>0, <1>11, SocketStable DEF TypeOK, Sound, Registered
<1>12. ASSUME NEW c \in Conns, RecvUpdate(c) PROVE SocketHeld'
  BY <1>0, <1>12, SocketStable DEF TypeOK, Sound, RecvUpdate
<1>13. ASSUME NEW c \in Conns, WriteBack(c) PROVE SocketHeld'
  BY <1>0, <1>13, SocketStable DEF TypeOK, Sound, WriteBack
<1>14. ASSUME NEW c \in Conns, RecvEnd(c) PROVE SocketHeld'
  BY <1>0, <1>14, SocketStable DEF TypeOK, Sound, RecvEnd
<1>15. ASSUME NEW c \in Conns, CleanSocket(c) PROVE SocketHeld'
  BY <1>0, <1>15 DEF IInv, TypeOK, Sound, PcLocals, SocketHeld, DistinctSlots, CleanSocket
<1>16. ASSUME NEW c \in Conns, CleanPlayer(c) PROVE SocketHeld'
  BY <1>0, <1>16, SocketStable DEF TypeOK, Sound, CleanPlayer
<1>17. ASSUME NEW c \in Conns, CloseSocket(c) PROVE SocketHeld'
  BY <1>0, <1>17, SocketStable DEF TypeOK, Sound, CloseSocket
<1>18. ASSUME BroadcastBullets PROVE SocketHeld'
  BY <1>0, <1>18, SocketStable, SendToSound DEF TypeOK, Sound, BroadcastBullets, Send
<1>19. ASSUME BulletsWithheld PROVE SocketHeld'
  BY <1>0, <1>19, SocketStable DEF TypeOK, Sound, BulletsWithheld
<1>20. ASSUME CheckCollisions PROVE SocketHeld'
  BY <1>0, <1>20, SocketStable DEF TypeOK, Sound, CheckCollisions
<1>21. ASSUME BroadcastPlayers PROVE SocketHeld'
  <2>. SUFFICES ASSUME Sound' PROVE SocketHeld'
    BY DEF SocketHeld
  <2>1. Sound /\ client_sockets' = client_sockets
    BY <1>0, <1>21, SendToSound DEF TypeOK, BroadcastPlayers, Sound
  <2>2. UNCHANGED <<pc, client_id, client_socket>>
    BY <1>21 DEF BroadcastPlayers
  <2>. QED BY <2>1, <2>2, SocketStable
<1>22. CASE UNCHANGED vars
  BY <1>0, <1>22 DEF IInv, TypeOK, Sound, PcLocals, SocketHeld, vars
<1>. QED BY <1>1, <1>2, <1>3, <1>4, <1>5, <1>6, <1>7, <1>8, <1>9, <1>10, <1>11, <1>12, <1>13, <1>14, <1>15, <1>16, <1>17, <1>18, <1>19, <1>20, <1>21, <1>22 DEF Next, Handler, BroadcastLoop

-----------------------------------------------------------------------------
(* The theorems.                                                           *)

LEMMA InitIInv == Init => IInv
<1>. USE SlotsAssumption
<1>1. Init => TypeOK
  <2>1. 0 \in Slots
    BY DEF Slots
  <2>2. Init => told \in [Conns -> SUBSET Ids]
    BY DEF Init
  <2>3. Init => /\ players_id \in [Slots -> Ids]
                /\ player_data_id \in [Slots -> Ids]
                /\ client_sockets \in [Slots -> Fds \cup {UNUSED_SOCKET_ID}]
    BY DEF Init, Ids
  <2>4. Init => /\ pc \in [Conns -> Connected \cup {"absent", "done"}]
                /\ client_socket \in [Conns -> Fds \cup {UNUSED_SOCKET_ID}]
                /\ client_id \in [Conns -> Ids]
                /\ update_id \in [Conns -> Ids]
                /\ idx \in [Conns -> Slots]
                /\ target \in [Conns -> Fds \cup {UNUSED_SOCKET_ID}]
                /\ assigned \in [Conns -> Ids \cup {NotAssigned}]
    BY <2>1 DEF Init, Ids
  <2>5. Init => /\ owner \in [Fds -> Conns \cup {Nobody}]
                /\ link \in [Conns -> {"none", "open", "fin", "rst", "epipe"}]
                /\ players_mutex \in Conns \cup {Nobody}
                /\ bpc \in {"bullets", "collisions", "players"}
                /\ up \in BOOLEAN /\ misled \in BOOLEAN /\ removed \in BOOLEAN
    BY DEF Init
  <2>. QED BY <2>2, <2>3, <2>4, <2>5 DEF TypeOK
<1>2. Init => PcLocals /\ MutexHeld
  BY DEF Init, PcLocals, MutexHeld, Connected, Holding, Greeted, Registering
<1>3. Init => DescriptorHeld /\ OwnerHolds /\ HeldSlot /\ HolderSound /\ SocketHeld /\ DistinctSlots
  BY DEF Init, DescriptorHeld, OwnerHolds, HeldSlot, HolderSound, SocketHeld, DistinctSlots,
         Connected, Holding, Greeted, Registering
<1>. QED BY <1>1, <1>2, <1>3 DEF IInv

\* Every step of every handler and of the broadcast thread keeps the parts of the
\* inductive invariant.
THEOREM Invariant == Spec => []IInv
<1>1. IInv /\ [Next]_vars => IInv'
  BY TypeStep, PcLocalsStep, MutexStep, DescriptorStep, HeldSlotStep, HolderStep, SocketStep,
     DistinctStep DEF IInv
<1>. QED BY InitIInv, <1>1, PTL DEF Spec

\* Every variable keeps its type: no id, descriptor or loop index leaves its range.
THEOREM TypeCorrect == Spec => []TypeOK
<1>1. IInv => TypeOK
  BY DEF IInv
<1>. QED BY Invariant, <1>1, PTL

\* No two handlers are in one slot and no handler is in a free one, for any
\* number of clients that come and go.
THEOREM SlotsAreExclusive == Spec => []SlotExclusive
<1>1. IInv => SlotExclusive
  BY DEF IInv, PcLocals, HolderSound, DistinctSlots, SlotExclusive
<1>. QED BY Invariant, <1>1, PTL

\* A slot that is taken has a handler that will give it back.
THEOREM NoSlotLeaks == Spec => []NoLeakedSlot
<1>1. IInv => NoLeakedSlot
  BY DEF IInv, TypeOK, PcLocals, HeldSlot, NoLeakedSlot, Slots, INVALID_PLAYER_ID
<1>. QED BY Invariant, <1>1, PTL

\* The broadcasts send to open descriptors of the connections in the slots.
THEOREM SocketTableIsSound == Spec => []SocketTableSound
<1>1. IInv => SocketTableSound
  BY DEF IInv, SocketHeld, DescriptorHeld, Sound, SocketTableSound, Connected
<1>. QED BY Invariant, <1>1, PTL

\* The two halves of the cleanup are under two mutexes, and a claim needs only
\* the first: it must not find the slot free while its old socket is registered.
FreeSlotUnregistered ==
    Sound => \A s \in Slots : players_id[s] = INVALID_PLAYER_ID =>
                client_sockets[s] = UNUSED_SOCKET_ID

\* A slot is never found free while its last client's socket is registered.
THEOREM FreeSlotsAreUnregistered == Spec => []FreeSlotUnregistered
<1>1. IInv => FreeSlotUnregistered
  BY DEF IInv, SocketHeld, HolderSound, PcLocals, FreeSlotUnregistered
<1>. QED BY Invariant, <1>1, PTL

\* Until broadcast_players closes one, no handler loses its descriptor.
THEOREM DescriptorsAreHeld == Spec => []DescriptorHeld
<1>1. IInv => DescriptorHeld
  BY DEF IInv
<1>. QED BY Invariant, <1>1, PTL
-----------------------------------------------------------------------------
(* The exchange of static data.                                            *)

Serving == {"serve", "update"}

\* A loop over the slots starts at the first.
LoopsFromStart ==
    \A c \in Conns : pc[c] \notin {"claim", "existing", "announce", "announce_send"} => idx[c] = 0

DataRegistered ==
    Sound => \A c \in Conns : pc[c] \in Serving => player_data_id[client_id[c]] = client_id[c]

\* A handler that registers its client has told it of itself and of the served
\* clients in the slots it has passed; after the first loop, of all of them.
NewcomerTold ==
    Sound => \A c, d \in Conns :
        /\ pc[c] \in Serving \/ c = d
        /\ \/ pc[d] = "existing" /\ client_id[c] < idx[d]
           \/ pc[d] \in Registering \ {"existing"}
        => client_id[c] \in told[d]

\* It has told the served clients in the slots its second loop has passed.
OthersTold ==
    Sound => \A c, d \in Conns :
        /\ pc[c] \in Serving
        /\ \/ pc[d] \in {"announce", "announce_send"} /\ client_id[c] < idx[d]
           \/ pc[d] = "registered"
        => client_id[d] \in told[c]

\* The descriptor that it has read without the lock is still that of the client
\* in the slot, if that client is served.
TargetHeld ==
    Sound => \A c, d \in Conns :
        pc[d] = "announce_send" /\ pc[c] \in Serving /\ client_id[c] = idx[d]
        => target[d] = client_socket[c]

Exchanged ==
    /\ LoopsFromStart
    /\ DataRegistered
    /\ NewcomerTold
    /\ OthersTold
    /\ TargetHeld
    /\ StaticExchange

\* A step that starts, moves and ends no registration and tells nobody anything,
\* such as a turn of the scan for a free slot, keeps the exchange.
LEMMA ExchangeStable ==
    ASSUME IInv, Exchanged, Sound' => Sound,
           \A c \in Conns : IF pc[c] = "claim" THEN pc'[c] = "claim" \/ idx'[c] = 0
                                              ELSE idx'[c] = idx[c],
           \A c \in Conns : /\ pc'[c] \in Serving => pc[c] \in Serving
                            /\ pc'[c] \in Registering => pc'[c] = pc[c]
                            /\ pc[c] \in Registering => pc'[c] = pc[c],
           \A c \in Conns : pc'[c] \in Serving \cup Registering =>
               /\ client_id'[c] = client_id[c]
               /\ client_socket'[c] = client_socket[c]
               /\ target'[c] = target[c]
               /\ Sound => told'[c] = told[c]
               /\ player_data_id'[client_id[c]] = player_data_id[client_id[c]]
    PROVE  Exchanged'
<1>. USE DEF Exchanged, Registering, Serving
<1>1. LoopsFromStart'
  BY DEF LoopsFromStart
<1>2. DataRegistered'
  BY DEF DataRegistered
<1>3. NewcomerTold'
  BY DEF NewcomerTold
<1>4. OthersTold'
  BY DEF OthersTold
<1>5. TargetHeld'
  BY DEF TargetHeld
<1>6. StaticExchange'
  BY DEF StaticExchange
<1>. QED BY <1>1, <1>2, <1>3, <1>4, <1>5, <1>6

\* While one handler registers its client no other does, and none is let through.
LEMMA OneRegistration ==
    ASSUME IInv, NEW c \in Conns, pc[c] \in Registering,
           NEW d \in Conns, pc[d] \in Registering
    PROVE  c = d
BY DEF IInv, MutexHeld

\* What a served client's slot and socket are.
LEMMA ServedClient ==
    ASSUME IInv, Sound, NEW c \in Conns, pc[c] \in Serving \cup Registering
    PROVE  /\ client_id[c] \in Slots
           /\ client_sockets[client_id[c]] = client_socket[c]
           /\ client_socket[c] \in Fds
           /\ client_socket[c] # UNUSED_SOCKET_ID
           /\ owner[client_socket[c]] = c
BY DEF IInv, TypeOK, PcLocals, HolderSound, DescriptorHeld, Sound, Serving, Registering,
       Greeted, Holding, Connected, Ids

\* Where the next turn of a loop leaves idx.
LEMMA NextSlotIdx ==
    ASSUME TypeOK, NEW c \in Conns, NEW loop, NEW after, NextSlot(c, loop, after)
    PROVE  \/ /\ pc' = [pc EXCEPT ![c] = loop]
              /\ idx' = [idx EXCEPT ![c] = idx[c] + 1]
           \/ /\ pc' = [pc EXCEPT ![c] = after]
              /\ idx' = [idx EXCEPT ![c] = 0]
              /\ \A s \in Slots : s <= idx[c]
<1>1. idx \in [Conns -> Slots] /\ 0 \in Slots
  BY SlotsAssumption DEF TypeOK, Slots
<1>2. CASE idx[c] + 1 \in Slots
  BY <1>1, <1>2 DEF NextSlot, Goto
<1>3. CASE idx[c] + 1 \notin Slots
  <2>1. \A s \in Slots : s <= idx[c]
    BY <1>1, <1>3, SlotsAssumption DEF Slots
  <2>. QED BY <1>1, <1>3, <2>1 DEF NextSlot, Goto
<1>. QED BY <1>2, <1>3

\* A turn of broadcast_new_player's loop keeps the exchange if the served client
\* in the slot it passes is told.
LEMMA AnnounceTurn ==
    ASSUME IInv, Exchanged, TypeOK', NEW c \in Conns, pc[c] \in {"announce", "announce_send"},
           NextSlot(c, "announce", "registered"),
           UNCHANGED <<client_id, client_socket, player_data_id>>, Sound' => Sound,
           \A d \in Conns : told[d] \subseteq told'[d],
           \A d \in Conns : Sound /\ pc[d] \in Serving /\ client_id[d] = idx[c]
                                => client_id[c] \in told'[d]
    PROVE  Exchanged'
<1>. USE DEF Registering, Serving
<1>1. TypeOK /\ idx[c] \in Slots
  BY DEF IInv, TypeOK
<1>2. \/ /\ pc' = [pc EXCEPT ![c] = "announce"]
         /\ idx' = [idx EXCEPT ![c] = idx[c] + 1]
      \/ /\ pc' = [pc EXCEPT ![c] = "registered"]
         /\ idx' = [idx EXCEPT ![c] = 0]
         /\ \A t \in Slots : t <= idx[c]
  BY <1>1, NextSlotIdx
<1>3. \A d \in Conns : /\ pc'[d] \in Serving <=> pc[d] \in Serving
                       /\ pc'[d] \in Registering => d = c
  BY <1>1, <1>2, OneRegistration DEF TypeOK
<1>4. LoopsFromStart'
  BY <1>1, <1>2 DEF TypeOK, Exchanged, LoopsFromStart
<1>5. DataRegistered' /\ StaticExchange'
  BY <1>3 DEF Exchanged, DataRegistered, StaticExchange
<1>6. NewcomerTold'
  BY <1>1, <1>2, <1>3 DEF TypeOK, Exchanged, NewcomerTold
<1>7. OthersTold'
  <2>. SUFFICES ASSUME Sound', NEW d \in Conns, pc[d] \in Serving,
                       pc'[c] = "announce" => client_id[d] < idx'[c]
                PROVE  client_id[c] \in told'[d]
    BY <1>1, <1>2, <1>3 DEF TypeOK, OthersTold
  <2>1. client_id[d] \in Slots
    BY ServedClient
  <2>2. client_id[d] <= idx[c]
    BY <1>1, <1>2, <2>1 DEF TypeOK, Slots
  <2>3. CASE client_id[d] < idx[c]
    BY <2>3 DEF Exchanged, OthersTold
  <2>. QED BY <1>1, <2>1, <2>2, <2>3 DEF Slots
<1>8. TargetHeld'
  BY <1>1, <1>2, <1>3 DEF TypeOK, TargetHeld
<1>. QED BY <1>4, <1>5, <1>6, <1>7, <1>8 DEF Exchanged

LEMMA ExchangeStep == IInv /\ Exchanged /\ [Next]_vars => Exchanged'
<1>. SUFFICES ASSUME IInv, Exchanged, [Next]_vars PROVE Exchanged'
  OBVIOUS
<1>0. TypeOK /\ TypeOK'
  BY TypeStep DEF IInv
<1>. USE DEF Goto, globals, locals, sockets, Serving, Registering
<1>1. ASSUME NEW c \in Conns, Accept(c) PROVE Exchanged'
  BY <1>0, <1>1, ExchangeStable DEF TypeOK, Sound, Accept
<1>2. ASSUME NEW c \in Conns, Leave(c) PROVE Exchanged'
  BY <1>0, <1>2, ExchangeStable DEF TypeOK, Sound, Leave
<1>3. ASSUME NEW c \in Conns, Claim(c) PROVE Exchanged'
  <2>1. /\ pc[c] = "claim" /\ pc' = [pc EXCEPT ![c] = "hello"]
        /\ idx' = [idx EXCEPT ![c] = 0]
    BY <1>3 DEF Claim, Scans
  <2>2. UNCHANGED <<player_data_id, client_socket, target, told, misled, removed>>
    BY <1>3 DEF Claim
  <2>3. \A d \in Conns : d # c => client_id'[d] = client_id[d]
    BY <1>0, <1>3 DEF TypeOK, Claim
  <2>. QED BY <1>0, <2>1, <2>2, <2>3, ExchangeStable DEF TypeOK, Sound
<1>4. ASSUME NEW c \in Conns, Pass(c) PROVE Exchanged'
  <2>1. pc[c] = "claim" /\ (pc' = [pc EXCEPT ![c] = "claim"] \/ pc' = [pc EXCEPT ![c] = "close"])
    BY <1>0, <1>4, NextSlotType DEF Pass, Scans
  <2>2. \/ pc' = [pc EXCEPT ![c] = "claim"]
        \/ pc' = [pc EXCEPT ![c] = "close"] /\ idx' = [idx EXCEPT ![c] = 0]
    BY <1>0, <1>4, NextSlotIdx DEF Pass
  <2>3. \A d \in Conns : d # c => idx'[d] = idx[d]
    BY <1>0, <1>4, NextSlotIdx DEF Pass, TypeOK
  <2>4. UNCHANGED <<globals, client_socket, client_id, target, told, misled, removed>>
    BY <1>4 DEF Pass
  <2>. QED BY <1>0, <2>1, <2>2, <2>3, <2>4, ExchangeStable DEF TypeOK, Sound
<1>5. ASSUME NEW c \in Conns, Hello(c) PROVE Exchanged'
  <2>1. Sound' => Sound
    BY <1>0, <1>5, SendToSound DEF Hello, Send, Sound
  <2>. QED BY <1>0, <1>5, <2>1, ExchangeStable DEF TypeOK, Hello
<1>6. ASSUME NEW c \in Conns, Register(c) PROVE Exchanged'
  <2>1. /\ pc[c] = "register" /\ idx[c] = 0
        /\ pc' = [pc EXCEPT ![c] = "existing"]
        /\ UNCHANGED <<client_id, client_socket, idx, target, told, misled, removed>>
    BY <1>6 DEF Register, Exchanged, LoopsFromStart
  <2>2. \A d \in Conns : ~(pc[d] \in Registering)
    BY <1>6, SlotsAssumption DEF Register, IInv, MutexHeld
  <2>3. Sound => \A d \in Conns : player_data_id'[client_id[d]] =
                     IF client_id[d] = client_id[c] THEN client_id[c]
                                                    ELSE player_data_id[client_id[d]]
    BY <1>0, <1>6 DEF Register, IInv, PcLocals, HolderSound, TypeOK, Holding, Greeted, Ids
  <2>4. \A d \in Conns : pc[d] \in Serving => d # c
    BY <2>1
  <2>5. LoopsFromStart'
    BY <1>0, <2>1 DEF TypeOK, Exchanged, LoopsFromStart
  <2>6. DataRegistered'
    BY <1>0, <2>1, <2>3 DEF TypeOK, Exchanged, DataRegistered, Sound
  <2>7. NewcomerTold'
    BY <1>0, <2>1, <2>2 DEF TypeOK, Slots, IInv, PcLocals, Exchanged, NewcomerTold,
       Holding, Greeted, Ids
  <2>8. OthersTold' /\ TargetHeld' /\ StaticExchange'
    BY <1>0, <2>1, <2>2 DEF TypeOK, Sound, Exchanged, OthersTold, TargetHeld, StaticExchange
  <2>. QED BY <2>5, <2>6, <2>7, <2>8 DEF Exchanged
<1>7. ASSUME NEW c \in Conns, SendExisting(c) PROVE Exchanged'
  <2>. DEFINE s == idx[c]
  <2>1. /\ pc[c] = "existing" /\ s \in Slots
        /\ UNCHANGED <<globals, client_id, client_socket, target, removed>>
    BY <1>0, <1>7 DEF SendExisting, TypeOK
  <2>2. \A d \in Conns : pc[d] \in Registering => d = c
    BY <2>1, OneRegistration
  <2>3. /\ Sound' => Sound
        /\ \A d \in Conns : told[d] \subseteq told'[d]
    <3>1. CASE UNCHANGED <<told, misled>>
      BY <1>7, <3>1 DEF SendExisting, Sound
    <3>2. CASE /\ Send(client_socket[c], player_data_id[s])
               /\ Tell(client_socket[c], player_data_id[s])
      BY <1>0, <2>1, <3>2, SendToSound DEF Send, Tell, Sound, TypeOK
    <3>. QED BY <1>7, <3>1, <3>2 DEF SendExisting
  <2>4. ASSUME Sound, NEW d \in Conns, pc[d] \in Serving \/ d = c, client_id[d] = s
        PROVE  client_id[d] \in told'[c]
    <3>1. player_data_id[s] = s
      BY <2>1, <2>4 DEF Exchanged, DataRegistered, IInv, HolderSound
    <3>2. client_sockets[s] # UNUSED_SOCKET_ID /\ owner[client_socket[c]] = c
      BY <2>1, <2>4, ServedClient
    <3>3. Tell(client_socket[c], s)
      BY <1>7, <2>1, <3>1, <3>2 DEF SendExisting, Slots, INVALID_PLAYER_ID
    <3>. QED BY <1>0, <2>4, <3>2, <3>3 DEF Tell
  <2>5. \/ /\ pc' = [pc EXCEPT ![c] = "existing"]
           /\ idx' = [idx EXCEPT ![c] = s + 1]
        \/ /\ pc' = [pc EXCEPT ![c] = "announce"]
           /\ idx' = [idx EXCEPT ![c] = 0]
           /\ \A t \in Slots : t <= s
    BY <1>0, <1>7, NextSlotIdx DEF SendExisting
  <2>6. \A d \in Conns : pc'[d] \in Serving <=> pc[d] \in Serving
    BY <1>0, <2>1, <2>5 DEF TypeOK
  <2>7. LoopsFromStart'
    BY <1>0, <2>1, <2>5 DEF TypeOK, Exchanged, LoopsFromStart
  <2>8. DataRegistered'
    BY <2>1, <2>3, <2>6 DEF Exchanged, DataRegistered
  <2>9. NewcomerTold'
    <3>. SUFFICES ASSUME Sound', NEW d \in Conns, pc'[d] \in Serving \/ d = c,
                         pc'[c] = "existing" => client_id[d] < idx'[c]
                  PROVE  client_id[d] \in told'[c]
      BY <1>0, <2>1, <2>2, <2>5 DEF TypeOK, NewcomerTold
    <3>1. Sound /\ (pc[d] \in Serving \/ d = c)
      BY <2>3, <2>6
    <3>2. client_id[d] \in Slots
      BY <2>1, <3>1, ServedClient
    <3>3. client_id[d] <= s
      BY <1>0, <2>1, <2>5, <3>2 DEF TypeOK, Slots
    <3>4. CASE client_id[d] = s
      BY <2>4, <3>1, <3>4
    <3>5. CASE client_id[d] < s
      BY <2>1, <2>3, <3>1, <3>5 DEF Exchanged, NewcomerTold
    <3>. QED BY <2>1, <3>2, <3>3, <3>4, <3>5 DEF Slots
  <2>10. OthersTold'
    <3>1. ASSUME NEW d \in Conns, pc'[d] \in Registering PROVE d = c
      BY <1>0, <2>2, <2>5, <3>1 DEF TypeOK
    <3>. SUFFICES ASSUME Sound', NEW d \in Conns, pc'[d] \in Serving, client_id[d] < 0
                  PROVE  FALSE
      BY <1>0, <2>1, <2>5, <3>1 DEF TypeOK, OthersTold
    <3>. QED BY <2>3, <2>6, ServedClient DEF Slots
  <2>11. TargetHeld'
    BY <1>0, <2>1, <2>2, <2>5 DEF TypeOK, TargetHeld
  <2>12. StaticExchange'
    BY <2>1, <2>3, <2>6 DEF Exchanged, StaticExchange
  <2>. QED BY <2>7, <2>8, <2>9, <2>10, <2>11, <2>12 DEF Exchanged
<1>8. ASSUME NEW c \in Conns, AnnounceRead(c) PROVE Exchanged'
  <2>1. /\ pc[c] = "announce"
        /\ pc' = [pc EXCEPT ![c] = "announce_send"]
        /\ target' = [target EXCEPT ![c] = client_sockets[idx[c]]]
        /\ UNCHANGED <<globals, client_id, client_socket, idx, told, misled, removed>>
    BY <1>8 DEF AnnounceRead
  <2>2. \A d \in Conns : pc[d] \in Registering => d = c
    BY <2>1, OneRegistration
  <2>3. \A d \in Conns : pc'[d] \in Serving <=> pc[d] \in Serving
    BY <1>0, <2>1 DEF TypeOK
  <2>4. LoopsFromStart' /\ DataRegistered' /\ NewcomerTold' /\ OthersTold' /\ StaticExchange'
    BY <1>0, <2>1, <2>3
       DEF TypeOK, Sound, Exchanged, LoopsFromStart, DataRegistered, NewcomerTold, OthersTold,
           StaticExchange
  <2>5. TargetHeld'
    <3>. SUFFICES ASSUME Sound, NEW d \in Conns, pc[d] \in Serving, client_id[d] = idx[c]
                  PROVE  client_sockets[idx[c]] = client_socket[d]
      BY <1>0, <2>1, <2>2, <2>3 DEF TypeOK, TargetHeld, Sound
    <3>. QED BY ServedClient
  <2>. QED BY <2>4, <2>5 DEF Exchanged
<1>9. ASSUME NEW c \in Conns, AnnounceSkip(c) PROVE Exchanged'
  <2>1. /\ pc[c] = "announce"
        /\ client_sockets[idx[c]] = UNUSED_SOCKET_ID \/ idx[c] = client_id[c]
        /\ UNCHANGED <<client_id, client_socket, player_data_id, told, misled, removed>>
    BY <1>9 DEF AnnounceSkip
  <2>2. ASSUME Sound, NEW d \in Conns, pc[d] \in Serving PROVE client_id[d] # idx[c]
    BY <2>1, <2>2, ServedClient DEF IInv, DistinctSlots, Slots, INVALID_PLAYER_ID
  <2>. QED BY <1>0, <1>9, <2>1, <2>2, AnnounceTurn DEF AnnounceSkip, Sound
<1>10. ASSUME NEW c \in Conns, AnnounceSend(c) PROVE Exchanged'
  <2>1. /\ pc[c] = "announce_send"
        /\ Send(target[c], player_data_id[client_id[c]])
        /\ Tell(target[c], player_data_id[client_id[c]])
        /\ UNCHANGED <<client_id, client_socket, player_data_id, removed>>
    BY <1>10 DEF AnnounceSend
  <2>2. Sound' => Sound
    BY <1>0, <2>1, SendToSound DEF Send, Sound
  <2>3. \A d \in Conns : told[d] \subseteq told'[d]
    BY <1>0, <2>1 DEF Tell, TypeOK
  <2>4. ASSUME Sound, NEW d \in Conns, pc[d] \in Serving, client_id[d] = idx[c]
        PROVE  client_id[c] \in told'[d]
    <3>1. owner[target[c]] = d
      BY <2>1, <2>4, ServedClient DEF Exchanged, TargetHeld
    <3>2. player_data_id[client_id[c]] = client_id[c]
      BY <2>1, <2>4 DEF IInv, HolderSound
    <3>. QED BY <1>0, <2>1, <3>1, <3>2 DEF Tell
  <2>. QED BY <1>0, <1>10, <2>1, <2>2, <2>3, <2>4, AnnounceTurn DEF AnnounceSend
<1>11. ASSUME NEW c \in Conns, Registered(c) PROVE Exchanged'
  <2>1. /\ pc[c] = "registered"
        /\ pc' = [pc EXCEPT ![c] = "serve"]
        /\ UNCHANGED <<player_data_id, locals, told, misled, removed>>
    BY <1>11 DEF Registered
  <2>2. \A d \in Conns : pc'[d] \notin Registering
    BY <1>0, <2>1, OneRegistration DEF TypeOK
  <2>3. LoopsFromStart'
    BY <1>0, <2>1 DEF TypeOK, Exchanged, LoopsFromStart
  <2>4. DataRegistered'
    BY <1>0, <2>1 DEF TypeOK, IInv, HolderSound, Exchanged, DataRegistered, Sound
  <2>5. NewcomerTold' /\ OthersTold' /\ TargetHeld'
    BY <2>2 DEF NewcomerTold, OthersTold, TargetHeld
  <2>6. StaticExchange'
    BY <1>0, <2>1 DEF TypeOK, Exchanged, NewcomerTold, OthersTold, StaticExchange, Sound
  <2>. QED BY <2>3, <2>4, <2>5, <2>6 DEF Exchanged
<1>12. ASSUME NEW c \in Conns, RecvUpdate(c) PROVE Exchanged'
  BY <1>0, <1>12, ExchangeStable DEF TypeOK, Sound, RecvUpdate
<1>13. ASSUME NEW c \in Conns, WriteBack(c) PROVE Exchanged'
  BY <1>0, <1>13, ExchangeStable DEF TypeOK, Sound, WriteBack
<1>14. ASSUME NEW c \in Conns, RecvEnd(c) PROVE Exchanged'
  BY <1>0, <1>14, ExchangeStable DEF TypeOK, Sound, RecvEnd
<1>15. ASSUME NEW c \in Conns, CleanSocket(c) PROVE Exchanged'
  BY <1>0, <1>15, ExchangeStable DEF TypeOK, Sound, CleanSocket
<1>16. ASSUME NEW c \in Conns, CleanPlayer(c) PROVE Exchanged'
  BY <1>0, <1>16, ExchangeStable DEF TypeOK, Sound, CleanPlayer
<1>17. ASSUME NEW c \in Conns, CloseSocket(c) PROVE Exchanged'
  <2>1. ASSUME Sound PROVE \A d \in Conns : d # c => told'[d] = told[d]
    BY <1>0, <1>17, <2>1 DEF CloseSocket, TypeOK, IInv, DescriptorHeld, Sound, Connected
  <2>. QED BY <1>0, <1>17, <2>1, ExchangeStable DEF TypeOK, Sound, CloseSocket
<1>18. ASSUME BroadcastBullets PROVE Exchanged'
  <2>1. Sound' => Sound
    BY <1>0, <1>18, SendToSound DEF BroadcastBullets, Sound
  <2>. QED BY <1>0, <1>18, <2>1, ExchangeStable DEF TypeOK, BroadcastBullets
<1>19. ASSUME BulletsWithheld PROVE Exchanged'
  BY <1>0, <1>19, ExchangeStable DEF TypeOK, Sound, BulletsWithheld
<1>20. ASSUME CheckCollisions PROVE Exchanged'
  BY <1>0, <1>20, ExchangeStable DEF TypeOK, Sound, CheckCollisions
<1>21. ASSUME BroadcastPlayers PROVE Exchanged'
  <2>1. Sound' => Sound
    BY <1>0, <1>21, SendToSound DEF BroadcastPlayers, Sound
  <2>. QED BY <1>0, <1>21, <2>1, ExchangeStable DEF TypeOK, BroadcastPlayers
<1>22. CASE UNCHANGED vars
  BY <1>0, <1>22, ExchangeStable DEF TypeOK, Sound, vars
<1>. QED BY <1>1, <1>2, <1>3, <1>4, <1>5, <1>6, <1>7, <1>8, <1>9, <1>10, <1>11, <1>12, <1>13, <1>14, <1>15, <1>16, <1>17, <1>18, <1>19, <1>20, <1>21, <1>22 DEF Next, Handler, BroadcastLoop

\* Clients that are both served have been sent each other's static data, whatever
\* registered, left or took over a slot in between.
THEOREM StaticIsExchanged == Spec => []StaticExchange
<1>1. Init => Exchanged
  BY DEF Init, Exchanged, LoopsFromStart, DataRegistered, NewcomerTold, OthersTold, TargetHeld,
         StaticExchange, Serving, Registering
<1>2. Exchanged => StaticExchange
  BY DEF Exchanged
<1>3. Exchanged /\ (IInv /\ [Next]_vars) => Exchanged'
  BY ExchangeStep
<1>. QED BY Invariant, <1>1, <1>2, <1>3, PTL DEF Spec

=============================================================================
