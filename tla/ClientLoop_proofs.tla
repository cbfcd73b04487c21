------------------------- MODULE ClientLoop_proofs -------------------------
(***************************************************************************)
(* Proofs about ClientLoop, for cooldowns, frames and connections of any   *)
(* length: the two threads and the server in every order.                  *)
(***************************************************************************)
EXTENDS ClientLoop, TLAPS

\* Where the threads are at the start, and what the render thread carries between
\* two of its steps.
Beginning ==
    /\ npc = "hello" => /\ ~is_player_initialized /\ up = <<>> /\ down = <<>>
                        /\ action = "none" /\ Unspoiled
    /\ ~is_player_initialized => rpc = "init"
    /\ rpc = "init" => ~is_dead
    /\ rpc # "act" <=> wish = "none"

-----------------------------------------------------------------------------
(* The cooldown of the shots.                                              *)

\* A timer that has been lowered by what has been counted, or less.
Covers(timer) == counted > SHOOT_COOLDOWN \/ timer + counted >= SHOOT_COOLDOWN

Cooling ==
    ~raced => /\ Covers(shoot_timer)
              /\ rpc = "store" => Covers(timer_read)
              /\ wish = "shoot" => counted > SHOOT_COOLDOWN
              /\ action = "shoot" /\ npc \notin {"check_respawn", "reset"}
                    => counted > SHOOT_COOLDOWN

-----------------------------------------------------------------------------
(* A death, from the server to the render thread and back.                 *)

\* What is on the way behind the k-th message says dead, and so does the server.
DeadBehind(k) ==
    /\ ~server_alive
    /\ \A m \in DOMAIN down : m > k => down[m] # "alive"

\* What the render thread takes the player for, or has just read.
TakenForAlive == ~is_dead \/ (rpc = "dead" /\ alive_read)
Unseen        == ~alive /\ (rpc = "dead" => ~alive_read)

Asked   == \E k \in DOMAIN up : up[k] = "respawn"
Sending == npc \in {"check_shoot", "check_respawn"} /\ action = "respawn"

\* From the client to the server the player is dead, then alive, then dead: who is
\* found dead behind having been found alive is dead all the way.
DiesOnce ==
    \A k \in DOMAIN down :
        /\ down[k] = "dead"
        /\ TakenForAlive \/ alive \/ \E j \in DOMAIN down : j < k /\ down[j] = "alive"
        => DeadBehind(k)

DeathOnItsWay ==
    /\ TakenForAlive /\ ~alive => DeadBehind(0)
    /\ rpc = "dead" /\ ~alive_read /\ ~is_dead => ~alive

\* Among the dead the player is dead all the way, until the respawn is sent.
DeadAllTheWay ==
    is_dead /\ place = "dead" => Unseen /\ (~Sending => DeadBehind(0) /\ ~Asked)

\* One respawn at most is on its way to the server, and nothing has been heard of it.
AskedOnce ==
    Asked => /\ is_dead /\ Unseen /\ DeadBehind(0)
             /\ \A j, k \in DOMAIN up : up[j] = "respawn" /\ up[k] = "respawn" => j = k

\* A respawn is to be sent from among the dead, or has been sent and is cleared next.
ToBeSent ==
    /\ action = "respawn" => is_dead /\ Unseen /\ (place = "sea" => npc = "reset")
    /\ wish = "respawn" => is_dead
    /\ is_dead => wish # "shoot"

Waiting == is_dead => waited > RESPAWN_COOLDOWN \/ respawn_timer + waited >= RESPAWN_COOLDOWN

DInv ==
    /\ AliveIsAtSea /\ RespawnIsForThisDeath
    /\ Unspoiled => /\ DiesOnce /\ DeathOnItsWay /\ DeadAllTheWay
                    /\ AskedOnce /\ ToBeSent /\ Waiting

IInv == TypeOK /\ Beginning /\ Cooling

-----------------------------------------------------------------------------
(* Each step keeps the types.                                              *)

LEMMA TypeStep ==
    ASSUME TypeOK, Beginning, [Next]_vars
    PROVE  TypeOK'
<1>. USE ClientAssumption DEF player, timers, frame, server
<1>1. CASE Hello
  BY <1>1 DEF Hello, TypeOK, Actions
<1>2. CASE Refused
  BY <1>2 DEF Refused, TypeOK
<1>3. CASE Receive
  <2>1. PICK n \in 1 .. Len(down) : down' = SubSeq(down, n + 1, Len(down))
    BY <1>3 DEF Receive
  <2>2. down \in Seq(Messages) /\ Len(down) \in Nat /\ Len(down) <= MaxDown
    BY DEF TypeOK
  <2>3. down' \in Seq(Messages) /\ Len(down') = Len(down) - n
    BY <2>1, <2>2
  <2>4. down' \in Seq(Messages) /\ Len(down') <= MaxDown
    BY <2>2, <2>3
  <2>5. alive' \in BOOLEAN
    BY <1>3 DEF Receive, TypeOK
  <2>. QED BY <1>3, <2>4, <2>5 DEF Receive, TypeOK
<1>4. CASE Send
  BY <1>4 DEF Send, TypeOK
<1>5. CASE Disconnected
  BY <1>5 DEF Disconnected, TypeOK
<1>6. CASE CheckShoot
  <2>1. raced' \in BOOLEAN
    BY <1>6 DEF CheckShoot, TypeOK
  <2>2. shoot_timer' \in -1 .. SHOOT_COOLDOWN /\ counted' \in 0 .. SHOOT_COOLDOWN + 1
    BY <1>6 DEF CheckShoot, TypeOK
  <2>. QED BY <1>6, <2>1, <2>2 DEF CheckShoot, TypeOK
<1>7. CASE CheckRespawn
  BY <1>7 DEF CheckRespawn, TypeOK
<1>8. CASE Reset
  BY <1>8 DEF Reset, TypeOK, Actions
<1>9. CASE StartRendering
  BY <1>9 DEF StartRendering, TypeOK
<1>10. CASE LoadTimer
  BY <1>10 DEF LoadTimer, TypeOK
<1>11. CASE StoreTimers
  BY <1>11 DEF StoreTimers, TypeOK, Lower, CountOn
<1>12. CASE SkipFrame
  BY <1>12 DEF SkipFrame, TypeOK
<1>13. CASE LoadHp
  BY <1>13 DEF LoadHp, TypeOK
<1>14. CASE UpdateDeathState
  BY <1>14 DEF UpdateDeathState, TypeOK
<1>15. CASE Keys
  BY <1>15 DEF Keys, TypeOK, Actions
<1>16. CASE Act
  BY <1>16 DEF Act, TypeOK, Actions
<1>17. CASE ServerUpdate
  BY <1>17 DEF ServerUpdate, TypeOK
<1>18. CASE Damage
  <2>1. /\ server_alive' \in BOOLEAN
        /\ UNCHANGED <<player, timers, is_dead, is_player_initialized, npc, frame,
                       up, down, counted, waited, spoiled, raced>>
    BY <1>18 DEF Damage
  <2>. QED BY <2>1 DEF TypeOK
<1>19. CASE Broadcast
  <2>1. PICK m \in {Hp(server_alive), "other"} : down' = Append(down, m)
    BY <1>19 DEF Broadcast
  <2>2. m \in Messages
    BY DEF Hp, Messages
  <2>3. down \in Seq(Messages) /\ Len(down) < MaxDown
    BY <1>19 DEF Broadcast, TypeOK
  <2>4. down' \in Seq(Messages) /\ Len(down') <= MaxDown
    BY <2>1, <2>2, <2>3
  <2>. QED BY <1>19, <2>4 DEF Broadcast, TypeOK
<1>20. CASE UNCHANGED vars
  BY <1>20 DEF vars, TypeOK
<1>. QED BY <1>1, <1>2, <1>3, <1>4, <1>5, <1>6, <1>7, <1>8, <1>9, <1>10, <1>11,
     <1>12, <1>13, <1>14, <1>15, <1>16, <1>17, <1>18, <1>19, <1>20 DEF Next,
     Network, Render, Server

-----------------------------------------------------------------------------
(* Where the threads are, and the history.                                 *)

LEMMA BeginningStep ==
    ASSUME TypeOK, Beginning, [Next]_vars
    PROVE  Beginning'
<1>. USE DEF player, timers, frame, server
<1>1. CASE Hello
  BY <1>1 DEF Hello, Beginning
<1>2. CASE Refused
  BY <1>2 DEF Refused, Beginning
<1>3. CASE Receive
  BY <1>3 DEF Receive, Beginning
<1>4. CASE Send
  BY <1>4 DEF Send, Beginning
<1>5. CASE Disconnected
  BY <1>5 DEF Disconnected, Beginning
<1>6. CASE CheckShoot
  BY <1>6 DEF CheckShoot, Beginning
<1>7. CASE CheckRespawn
  BY <1>7 DEF CheckRespawn, Beginning
<1>8. CASE Reset
  BY <1>8 DEF Reset, Beginning
<1>9. CASE StartRendering
  BY <1>9 DEF StartRendering, Beginning
<1>10. CASE LoadTimer
  BY <1>10 DEF LoadTimer, Beginning
<1>11. CASE StoreTimers
  BY <1>11 DEF StoreTimers, Beginning
<1>12. CASE SkipFrame
  BY <1>12 DEF SkipFrame, Beginning
<1>13. CASE LoadHp
  BY <1>13 DEF LoadHp, Beginning
<1>14. CASE UpdateDeathState
  BY <1>14 DEF UpdateDeathState, Beginning
<1>15. CASE Keys
  BY <1>15 DEF Keys, Beginning
<1>16. CASE Act
  BY <1>16 DEF Act, Beginning
<1>17. CASE ServerUpdate
  BY <1>17 DEF ServerUpdate, Beginning
<1>18. CASE Damage
  BY <1>18 DEF Damage, Beginning
<1>19. CASE Broadcast
  BY <1>19 DEF Broadcast, Beginning
<1>20. CASE UNCHANGED vars
  BY <1>20 DEF vars, Beginning, Unspoiled
<1>. QED BY <1>1, <1>2, <1>3, <1>4, <1>5, <1>6, <1>7, <1>8, <1>9, <1>10, <1>11,
     <1>12, <1>13, <1>14, <1>15, <1>16, <1>17, <1>18, <1>19, <1>20 DEF Next,
     Network, Render, Server

-----------------------------------------------------------------------------
(* The cooldown of the shots.                                              *)

LEMMA CoolingStep ==
    ASSUME TypeOK, Beginning, Cooling, [Next]_vars
    PROVE  Cooling'
<1>. USE ClientAssumption DEF player, timers, frame, server
<1>1. CASE Hello
  BY <1>1 DEF Hello, Cooling, Covers
<1>2. CASE Refused
  BY <1>2 DEF Refused, Cooling, Covers
<1>3. CASE Receive
  BY <1>3 DEF Receive, Cooling, Covers
<1>4. CASE Send
  BY <1>4 DEF Send, Cooling, Covers
<1>5. CASE Disconnected
  BY <1>5 DEF Disconnected, Cooling, Covers
<1>6. CASE CheckShoot
  BY <1>6 DEF CheckShoot, TypeOK, Beginning, Cooling, Covers
<1>7. CASE CheckRespawn
  BY <1>7 DEF CheckRespawn, Cooling, Covers
<1>8. CASE Reset
  BY <1>8 DEF Reset, Cooling, Covers
<1>9. CASE StartRendering
  BY <1>9 DEF StartRendering, Cooling, Covers
<1>10. CASE LoadTimer
  BY <1>10 DEF LoadTimer, Cooling, Covers
<1>11. CASE StoreTimers
  BY <1>11 DEF StoreTimers, TypeOK, Cooling, Covers, Lower, CountOn
<1>12. CASE SkipFrame
  BY <1>12 DEF SkipFrame, Cooling, Covers
<1>13. CASE LoadHp
  BY <1>13 DEF LoadHp, Cooling, Covers
<1>14. CASE UpdateDeathState
  BY <1>14 DEF UpdateDeathState, Cooling, Covers
<1>15. CASE Keys
  BY <1>15 DEF Keys, TypeOK, Cooling, Covers
<1>16. CASE Act
  BY <1>16 DEF Act, Cooling, Covers
<1>17. CASE ServerUpdate
  BY <1>17 DEF ServerUpdate, Cooling, Covers
<1>18. CASE Damage
  BY <1>18 DEF Damage, Cooling, Covers
<1>19. CASE Broadcast
  BY <1>19 DEF Broadcast, Cooling, Covers
<1>20. CASE UNCHANGED vars
  BY <1>20 DEF vars, Cooling, Covers
<1>. QED BY <1>1, <1>2, <1>3, <1>4, <1>5, <1>6, <1>7, <1>8, <1>9, <1>10, <1>11,
     <1>12, <1>13, <1>14, <1>15, <1>16, <1>17, <1>18, <1>19, <1>20 DEF Next,
     Network, Render, Server

\* What has been spoiled stays so.
LEMMA SpoiledStays ==
    ASSUME TypeOK, Beginning, [Next]_vars, Unspoiled'
    PROVE  Unspoiled
<1>. USE DEF player, timers, frame, server
<1>1. CASE Hello
  BY <1>1 DEF Hello, Beginning
<1>2. CASE Refused
  BY <1>2 DEF Refused, Unspoiled
<1>3. CASE Receive
  BY <1>3 DEF Receive, Unspoiled
<1>4. CASE Send
  BY <1>4 DEF Send, Unspoiled
<1>5. CASE Disconnected
  BY <1>5 DEF Disconnected, Unspoiled
<1>6. CASE CheckShoot
  BY <1>6 DEF CheckShoot, Unspoiled
<1>7. CASE CheckRespawn
  BY <1>7 DEF CheckRespawn, Unspoiled
<1>8. CASE Reset
  BY <1>8 DEF Reset, Unspoiled
<1>9. CASE StartRendering
  BY <1>9 DEF StartRendering, Unspoiled
<1>10. CASE LoadTimer
  BY <1>10 DEF LoadTimer, Unspoiled
<1>11. CASE StoreTimers
  BY <1>11 DEF StoreTimers, Unspoiled
<1>12. CASE SkipFrame
  BY <1>12 DEF SkipFrame, Unspoiled
<1>13. CASE LoadHp
  BY <1>13 DEF LoadHp, Unspoiled
<1>14. CASE UpdateDeathState
  BY <1>14 DEF UpdateDeathState, Unspoiled
<1>15. CASE Keys
  BY <1>15 DEF Keys, Unspoiled
<1>16. CASE Act
  BY <1>16 DEF Act, Unspoiled
<1>17. CASE ServerUpdate
  BY <1>17 DEF ServerUpdate, Unspoiled
<1>18. CASE Damage
  BY <1>18 DEF Damage, Unspoiled
<1>19. CASE Broadcast
  BY <1>19 DEF Broadcast, Unspoiled
<1>20. CASE UNCHANGED vars
  BY <1>20 DEF vars, Unspoiled
<1>. QED BY <1>1, <1>2, <1>3, <1>4, <1>5, <1>6, <1>7, <1>8, <1>9, <1>10, <1>11,
     <1>12, <1>13, <1>14, <1>15, <1>16, <1>17, <1>18, <1>19, <1>20 DEF Next,
     Network, Render, Server

-----------------------------------------------------------------------------
(* A death, conjunct by conjunct.                                          *)

LEMMA AliveIsAtSeaStep ==
    ASSUME TypeOK, Beginning, DInv, Unspoiled, Unspoiled', [Next]_vars
    PROVE  AliveIsAtSea'
<1>. USE DEF player, timers, frame, server
<1>1. CASE Hello
  BY <1>1 DEF Hello, Unspoiled, AliveIsAtSea
<1>2. CASE Refused
  BY <1>2 DEF Refused, DInv, AliveIsAtSea
<1>3. CASE Receive
  BY <1>3 DEF Receive, DInv, AliveIsAtSea
<1>4. CASE Send
  BY <1>4 DEF Send, DInv, AliveIsAtSea
<1>5. CASE Disconnected
  BY <1>5 DEF Disconnected, DInv, AliveIsAtSea
<1>6. CASE CheckShoot
  BY <1>6 DEF CheckShoot, DInv, AliveIsAtSea
<1>7. CASE CheckRespawn
  BY <1>7 DEF CheckRespawn, DInv, AliveIsAtSea
<1>8. CASE Reset
  BY <1>8 DEF Reset, DInv, AliveIsAtSea
<1>9. CASE StartRendering
  BY <1>9 DEF StartRendering, DInv, AliveIsAtSea
<1>10. CASE LoadTimer
  BY <1>10 DEF LoadTimer, DInv, AliveIsAtSea
<1>11. CASE StoreTimers
  BY <1>11 DEF StoreTimers, DInv, AliveIsAtSea
<1>12. CASE SkipFrame
  BY <1>12 DEF SkipFrame, DInv, AliveIsAtSea
<1>13. CASE LoadHp
  BY <1>13 DEF LoadHp, DInv, AliveIsAtSea
<1>14. CASE UpdateDeathState
  BY <1>14 DEF UpdateDeathState, TypeOK, DInv, AliveIsAtSea, Unseen, DeadAllTheWay
<1>15. CASE Keys
  BY <1>15 DEF Keys, DInv, AliveIsAtSea
<1>16. CASE Act
  BY <1>16 DEF Act, DInv, AliveIsAtSea
<1>17. CASE ServerUpdate
  BY <1>17 DEF ServerUpdate, DInv, AliveIsAtSea
<1>18. CASE Damage
  BY <1>18 DEF Damage, DInv, AliveIsAtSea
<1>19. CASE Broadcast
  BY <1>19 DEF Broadcast, DInv, AliveIsAtSea
<1>20. CASE UNCHANGED vars
  BY <1>20 DEF vars, DInv, AliveIsAtSea
<1>. QED BY <1>1, <1>2, <1>3, <1>4, <1>5, <1>6, <1>7, <1>8, <1>9, <1>10, <1>11,
     <1>12, <1>13, <1>14, <1>15, <1>16, <1>17, <1>18, <1>19, <1>20 DEF Next,
     Network, Render, Server

LEMMA RespawnIsForThisDeathStep ==
    ASSUME TypeOK, Beginning, DInv, Unspoiled, Unspoiled', [Next]_vars
    PROVE  RespawnIsForThisDeath'
<1>. USE ClientAssumption DEF player, timers, frame, server
<1>1. CASE Hello
  BY <1>1 DEF Hello, DInv, RespawnIsForThisDeath
<1>2. CASE Refused
  BY <1>2 DEF Refused, DInv, RespawnIsForThisDeath
<1>3. CASE Receive
  BY <1>3 DEF Receive, DInv, RespawnIsForThisDeath
<1>4. CASE Send
  BY <1>4 DEF Send, DInv, RespawnIsForThisDeath
<1>5. CASE Disconnected
  BY <1>5 DEF Disconnected, DInv, RespawnIsForThisDeath
<1>6. CASE CheckShoot
  BY <1>6 DEF CheckShoot, DInv, RespawnIsForThisDeath
<1>7. CASE CheckRespawn
  BY <1>7 DEF CheckRespawn, DInv, RespawnIsForThisDeath
<1>8. CASE Reset
  BY <1>8 DEF Reset, DInv, RespawnIsForThisDeath
<1>9. CASE StartRendering
  BY <1>9 DEF StartRendering, DInv, RespawnIsForThisDeath
<1>10. CASE LoadTimer
  BY <1>10 DEF LoadTimer, DInv, RespawnIsForThisDeath
<1>11. CASE StoreTimers
  BY <1>11 DEF StoreTimers, TypeOK, DInv, CountOn, RespawnIsForThisDeath
<1>12. CASE SkipFrame
  BY <1>12 DEF SkipFrame, DInv, RespawnIsForThisDeath
<1>13. CASE LoadHp
  BY <1>13 DEF LoadHp, DInv, RespawnIsForThisDeath
<1>14. CASE UpdateDeathState
  BY <1>14 DEF UpdateDeathState, DInv, RespawnIsForThisDeath, ToBeSent
<1>15. CASE Keys
  BY <1>15 DEF Keys, TypeOK, DInv, RespawnIsForThisDeath, Waiting
<1>16. CASE Act
  BY <1>16 DEF Act, DInv, RespawnIsForThisDeath
<1>17. CASE ServerUpdate
  BY <1>17 DEF ServerUpdate, DInv, RespawnIsForThisDeath
<1>18. CASE Damage
  BY <1>18 DEF Damage, DInv, RespawnIsForThisDeath
<1>19. CASE Broadcast
  BY <1>19 DEF Broadcast, DInv, RespawnIsForThisDeath
<1>20. CASE UNCHANGED vars
  BY <1>20 DEF vars, DInv, RespawnIsForThisDeath
<1>. QED BY <1>1, <1>2, <1>3, <1>4, <1>5, <1>6, <1>7, <1>8, <1>9, <1>10, <1>11,
     <1>12, <1>13, <1>14, <1>15, <1>16, <1>17, <1>18, <1>19, <1>20 DEF Next,
     Network, Render, Server

\* Receive is the step to look at: the messages move up in the stream, and what
\* the first of them says takes the place of what the client had.
LEMMA DiesOnceStep ==
    ASSUME TypeOK, Beginning, DInv, Unspoiled, Unspoiled', [Next]_vars
    PROVE  DiesOnce'
<1>. USE DEF player, timers, frame, server
<1>1. CASE Hello
  BY <1>1 DEF Hello, Beginning, DiesOnce
<1>2. CASE Refused
  BY <1>2 DEF Refused, DInv, TakenForAlive, DeadBehind, DiesOnce
<1>3. CASE Receive
  <2>1. PICK n \in 1 .. Len(down) : down' = SubSeq(down, n + 1, Len(down))
    BY <1>3 DEF Receive
  <2>2. /\ Len(down) \in Nat /\ DOMAIN down = 1 .. Len(down)
        /\ DOMAIN down' = 1 .. Len(down) - n
        /\ \A k \in 1 .. Len(down) - n : down'[k] = down[k + n]
    BY <2>1 DEF TypeOK
  <2>3. /\ alive' = IF down[1] = "other" THEN alive ELSE down[1] = "alive"
        /\ UNCHANGED <<is_dead, rpc, alive_read, server_alive>>
    BY <1>3 DEF Receive
  <2>. SUFFICES ASSUME NEW k \in DOMAIN down', down'[k] = "dead",
                       TakenForAlive' \/ alive' \/ \E j \in DOMAIN down' : j < k /\ down'[j] = "alive"
                PROVE  DeadBehind(k)'
    BY DEF DiesOnce
  <2>4. k + n \in DOMAIN down /\ down[k + n] = "dead" /\ 1 \in DOMAIN down /\ 1 < k + n
    BY <2>2
  <2>5. TakenForAlive' = TakenForAlive
    BY <2>3 DEF TakenForAlive
  <2>6. TakenForAlive \/ alive \/ \E j \in DOMAIN down : j < k + n /\ down[j] = "alive"
    <3>1. CASE TakenForAlive
      BY <3>1
    <3>2. CASE alive'
      BY <2>3, <2>4, <3>2
    <3>3. ASSUME NEW j \in DOMAIN down', j < k, down'[j] = "alive"
          PROVE  \E m \in DOMAIN down : m < k + n /\ down[m] = "alive"
      <4>1. j + n \in DOMAIN down /\ down[j + n] = "alive" /\ j + n < k + n
        BY <2>2, <3>3
      <4>. QED BY <4>1
    <3>. QED BY <2>5, <3>1, <3>2, <3>3
  <2>7. DeadBehind(k + n)
    BY <2>4, <2>6 DEF DInv, DiesOnce
  <2>8. \A m \in DOMAIN down' : m > k => down'[m] # "alive"
    <3>. SUFFICES ASSUME NEW m \in DOMAIN down', m > k PROVE down'[m] # "alive"
      OBVIOUS
    <3>1. m + n \in DOMAIN down /\ m + n > k + n /\ down'[m] = down[m + n]
      BY <2>2
    <3>. QED BY <2>7, <3>1 DEF DeadBehind
  <2>. QED BY <2>3, <2>7, <2>8 DEF DeadBehind
<1>4. CASE Send
  BY <1>4 DEF Send, DInv, TakenForAlive, DeadBehind, DiesOnce
<1>5. CASE Disconnected
  BY <1>5 DEF Disconnected, DInv, TakenForAlive, DeadBehind, DiesOnce
<1>6. CASE CheckShoot
  BY <1>6 DEF CheckShoot, DInv, TakenForAlive, DeadBehind, DiesOnce
<1>7. CASE CheckRespawn
  BY <1>7 DEF CheckRespawn, DInv, TakenForAlive, DeadBehind, DiesOnce
<1>8. CASE Reset
  BY <1>8 DEF Reset, DInv, TakenForAlive, DeadBehind, DiesOnce
<1>9. CASE StartRendering
  BY <1>9 DEF StartRendering, DInv, TakenForAlive, DeadBehind, DiesOnce
<1>10. CASE LoadTimer
  BY <1>10 DEF LoadTimer, DInv, TakenForAlive, DeadBehind, DiesOnce
<1>11. CASE StoreTimers
  BY <1>11 DEF StoreTimers, DInv, TakenForAlive, DeadBehind, DiesOnce
<1>12. CASE SkipFrame
  BY <1>12 DEF SkipFrame, DInv, TakenForAlive, DeadBehind, DiesOnce
<1>13. CASE LoadHp
  BY <1>13 DEF LoadHp, DInv, TakenForAlive, DeadBehind, DiesOnce
<1>14. CASE UpdateDeathState
  BY <1>14 DEF UpdateDeathState, TypeOK, DInv, TakenForAlive, DeadBehind, DiesOnce
<1>15. CASE Keys
  BY <1>15 DEF Keys, DInv, TakenForAlive, DeadBehind, DiesOnce
<1>16. CASE Act
  BY <1>16 DEF Act, DInv, TakenForAlive, DeadBehind, DiesOnce
<1>17. CASE ServerUpdate
  BY <1>17 DEF ServerUpdate, TypeOK, DInv, TakenForAlive, Unseen, Asked, DeadBehind,
     DiesOnce, AskedOnce
<1>18. CASE Damage
  BY <1>18 DEF Damage, DInv, TakenForAlive, DeadBehind, DiesOnce
<1>19. CASE Broadcast
  BY <1>19 DEF Broadcast, DInv, TakenForAlive, DeadBehind, Hp, DiesOnce
<1>20. CASE UNCHANGED vars
  BY <1>20 DEF vars, DInv, TakenForAlive, DeadBehind, DiesOnce
<1>. QED BY <1>1, <1>2, <1>3, <1>4, <1>5, <1>6, <1>7, <1>8, <1>9, <1>10, <1>11,
     <1>12, <1>13, <1>14, <1>15, <1>16, <1>17, <1>18, <1>19, <1>20 DEF Next,
     Network, Render, Server

LEMMA DeathOnItsWayStep ==
    ASSUME TypeOK, Beginning, DInv, Unspoiled, Unspoiled', [Next]_vars
    PROVE  DeathOnItsWay'
<1>. USE DEF player, timers, frame, server
<1>1. CASE Hello
  BY <1>1 DEF Hello, Beginning, DeathOnItsWay
<1>2. CASE Refused
  BY <1>2 DEF Refused, DInv, TakenForAlive, DeadBehind, DeathOnItsWay
<1>3. CASE Receive
  BY <1>3 DEF Receive, TypeOK, DInv, TakenForAlive, DeadBehind, Messages,
     DeathOnItsWay, DiesOnce
<1>4. CASE Send
  BY <1>4 DEF Send, DInv, TakenForAlive, DeadBehind, DeathOnItsWay
<1>5. CASE Disconnected
  BY <1>5 DEF Disconnected, DInv, TakenForAlive, DeadBehind, DeathOnItsWay
<1>6. CASE CheckShoot
  BY <1>6 DEF CheckShoot, DInv, TakenForAlive, DeadBehind, DeathOnItsWay
<1>7. CASE CheckRespawn
  BY <1>7 DEF CheckRespawn, DInv, TakenForAlive, DeadBehind, DeathOnItsWay
<1>8. CASE Reset
  BY <1>8 DEF Reset, DInv, TakenForAlive, DeadBehind, DeathOnItsWay
<1>9. CASE StartRendering
  BY <1>9 DEF StartRendering, DInv, TakenForAlive, DeadBehind, DeathOnItsWay
<1>10. CASE LoadTimer
  BY <1>10 DEF LoadTimer, DInv, TakenForAlive, DeadBehind, DeathOnItsWay
<1>11. CASE StoreTimers
  BY <1>11 DEF StoreTimers, DInv, TakenForAlive, DeadBehind, DeathOnItsWay
<1>12. CASE SkipFrame
  BY <1>12 DEF SkipFrame, DInv, TakenForAlive, DeadBehind, DeathOnItsWay
<1>13. CASE LoadHp
  BY <1>13 DEF LoadHp, DInv, TakenForAlive, DeadBehind, DeathOnItsWay
<1>14. CASE UpdateDeathState
  BY <1>14 DEF UpdateDeathState, DInv, TakenForAlive, DeadBehind, DeathOnItsWay
<1>15. CASE Keys
  BY <1>15 DEF Keys, DInv, TakenForAlive, DeadBehind, DeathOnItsWay
<1>16. CASE Act
  BY <1>16 DEF Act, DInv, TakenForAlive, DeadBehind, DeathOnItsWay
<1>17. CASE ServerUpdate
  BY <1>17 DEF ServerUpdate, TypeOK, DInv, TakenForAlive, Unseen, Asked, DeadBehind,
     DeathOnItsWay, AskedOnce
<1>18. CASE Damage
  BY <1>18 DEF Damage, DInv, TakenForAlive, DeadBehind, DeathOnItsWay
<1>19. CASE Broadcast
  BY <1>19 DEF Broadcast, DInv, TakenForAlive, DeadBehind, Hp, DeathOnItsWay
<1>20. CASE UNCHANGED vars
  BY <1>20 DEF vars, DInv, TakenForAlive, DeadBehind, DeathOnItsWay
<1>. QED BY <1>1, <1>2, <1>3, <1>4, <1>5, <1>6, <1>7, <1>8, <1>9, <1>10, <1>11,
     <1>12, <1>13, <1>14, <1>15, <1>16, <1>17, <1>18, <1>19, <1>20 DEF Next,
     Network, Render, Server

LEMMA DeadAllTheWayStep ==
    ASSUME TypeOK, Beginning, DInv, Unspoiled, Unspoiled', [Next]_vars
    PROVE  DeadAllTheWay'
<1>. USE DEF player, timers, frame, server
<1>1. CASE Hello
  BY <1>1 DEF Hello, Unspoiled, DeadAllTheWay
<1>2. CASE Refused
  BY <1>2 DEF Refused, DInv, Unseen, Asked, Sending, DeadBehind, DeadAllTheWay
<1>3. CASE Receive
  BY <1>3 DEF Receive, TypeOK, DInv, Unseen, Asked, Sending, DeadBehind,
     DeadAllTheWay
<1>4. CASE Send
  BY <1>4 DEF Send, DInv, Unseen, Asked, Sending, DeadBehind, DeadAllTheWay
<1>5. CASE Disconnected
  BY <1>5 DEF Disconnected, DInv, Unseen, Asked, Sending, DeadBehind, DeadAllTheWay
<1>6. CASE CheckShoot
  BY <1>6 DEF CheckShoot, DInv, Unseen, Asked, Sending, DeadBehind, DeadAllTheWay
<1>7. CASE CheckRespawn
  BY <1>7 DEF CheckRespawn, DInv, Unseen, Asked, Sending, DeadBehind, DeadAllTheWay
<1>8. CASE Reset
  BY <1>8 DEF Reset, DInv, Unseen, Asked, Sending, DeadBehind, DeadAllTheWay
<1>9. CASE StartRendering
  BY <1>9 DEF StartRendering, DInv, Unseen, Asked, Sending, DeadBehind,
     DeadAllTheWay
<1>10. CASE LoadTimer
  BY <1>10 DEF LoadTimer, DInv, Unseen, Asked, Sending, DeadBehind, DeadAllTheWay
<1>11. CASE StoreTimers
  BY <1>11 DEF StoreTimers, DInv, Unseen, Asked, Sending, DeadBehind, DeadAllTheWay
<1>12. CASE SkipFrame
  BY <1>12 DEF SkipFrame, DInv, Unseen, Asked, Sending, DeadBehind, DeadAllTheWay
<1>13. CASE LoadHp
  BY <1>13 DEF LoadHp, DInv, Unseen, Asked, Sending, DeadBehind, DeadAllTheWay
<1>14. CASE UpdateDeathState
  BY <1>14 DEF UpdateDeathState, DInv, TakenForAlive, Unseen, Asked, Sending,
     DeadBehind, DeadAllTheWay, DeathOnItsWay, AskedOnce
<1>15. CASE Keys
  BY <1>15 DEF Keys, DInv, Unseen, Asked, Sending, DeadBehind, DeadAllTheWay
<1>16. CASE Act
  BY <1>16 DEF Act, TypeOK, Beginning, DInv, Unseen, Asked, Sending, DeadBehind,
     Actions, DeadAllTheWay, ToBeSent
<1>17. CASE ServerUpdate
  BY <1>17 DEF ServerUpdate, TypeOK, DInv, Unseen, Asked, Sending, DeadBehind,
     DeadAllTheWay
<1>18. CASE Damage
  BY <1>18 DEF Damage, DInv, Unseen, Asked, Sending, DeadBehind, DeadAllTheWay
<1>19. CASE Broadcast
  BY <1>19 DEF Broadcast, DInv, Unseen, Asked, Sending, DeadBehind, Hp,
     DeadAllTheWay
<1>20. CASE UNCHANGED vars
  BY <1>20 DEF vars, DInv, Unseen, Asked, Sending, DeadBehind, DeadAllTheWay
<1>. QED BY <1>1, <1>2, <1>3, <1>4, <1>5, <1>6, <1>7, <1>8, <1>9, <1>10, <1>11,
     <1>12, <1>13, <1>14, <1>15, <1>16, <1>17, <1>18, <1>19, <1>20 DEF Next,
     Network, Render, Server

LEMMA AskedOnceStep ==
    ASSUME TypeOK, Beginning, DInv, Unspoiled, Unspoiled', [Next]_vars
    PROVE  AskedOnce'
<1>. USE DEF player, timers, frame, server
<1>1. CASE Hello
  BY <1>1 DEF Hello, Beginning, Asked, AskedOnce
<1>2. CASE Refused
  BY <1>2 DEF Refused, DInv, Unseen, Asked, DeadBehind, AskedOnce
<1>3. CASE Receive
  BY <1>3 DEF Receive, TypeOK, DInv, Unseen, Asked, DeadBehind, AskedOnce
<1>4. CASE Send
  BY <1>4 DEF Send, TypeOK, DInv, Unseen, Asked, Sending, DeadBehind, AskedOnce,
     ToBeSent, DeadAllTheWay
<1>5. CASE Disconnected
  BY <1>5 DEF Disconnected, DInv, Unseen, Asked, DeadBehind, AskedOnce
<1>6. CASE CheckShoot
  BY <1>6 DEF CheckShoot, DInv, Unseen, Asked, DeadBehind, AskedOnce
<1>7. CASE CheckRespawn
  BY <1>7 DEF CheckRespawn, DInv, Unseen, Asked, DeadBehind, AskedOnce
<1>8. CASE Reset
  BY <1>8 DEF Reset, DInv, Unseen, Asked, DeadBehind, AskedOnce
<1>9. CASE StartRendering
  BY <1>9 DEF StartRendering, DInv, Unseen, Asked, DeadBehind, AskedOnce
<1>10. CASE LoadTimer
  BY <1>10 DEF LoadTimer, DInv, Unseen, Asked, DeadBehind, AskedOnce
<1>11. CASE StoreTimers
  BY <1>11 DEF StoreTimers, DInv, Unseen, Asked, DeadBehind, AskedOnce
<1>12. CASE SkipFrame
  BY <1>12 DEF SkipFrame, DInv, Unseen, Asked, DeadBehind, AskedOnce
<1>13. CASE LoadHp
  BY <1>13 DEF LoadHp, DInv, Unseen, Asked, DeadBehind, AskedOnce
<1>14. CASE UpdateDeathState
  BY <1>14 DEF UpdateDeathState, DInv, Unseen, Asked, DeadBehind, AskedOnce
<1>15. CASE Keys
  BY <1>15 DEF Keys, DInv, Unseen, Asked, DeadBehind, AskedOnce
<1>16. CASE Act
  BY <1>16 DEF Act, DInv, Unseen, Asked, DeadBehind, AskedOnce
<1>17. CASE ServerUpdate
  BY <1>17 DEF ServerUpdate, TypeOK, DInv, Unseen, Asked, DeadBehind, AskedOnce,
     ToBeSent
<1>18. CASE Damage
  BY <1>18 DEF Damage, DInv, Unseen, Asked, DeadBehind, AskedOnce
<1>19. CASE Broadcast
  BY <1>19 DEF Broadcast, DInv, Unseen, Asked, DeadBehind, Hp, AskedOnce
<1>20. CASE UNCHANGED vars
  BY <1>20 DEF vars, DInv, Unseen, Asked, DeadBehind, AskedOnce
<1>. QED BY <1>1, <1>2, <1>3, <1>4, <1>5, <1>6, <1>7, <1>8, <1>9, <1>10, <1>11,
     <1>12, <1>13, <1>14, <1>15, <1>16, <1>17, <1>18, <1>19, <1>20 DEF Next,
     Network, Render, Server

LEMMA ToBeSentStep ==
    ASSUME TypeOK, Beginning, DInv, Unspoiled, Unspoiled', [Next]_vars
    PROVE  ToBeSent'
<1>. USE DEF player, timers, frame, server
<1>1. CASE Hello
  BY <1>1 DEF Hello, DInv, ToBeSent
<1>2. CASE Refused
  BY <1>2 DEF Refused, DInv, Unseen, ToBeSent
<1>3. CASE Receive
  BY <1>3 DEF Receive, TypeOK, DInv, Unseen, Sending, DeadBehind, ToBeSent,
     DeadAllTheWay
<1>4. CASE Send
  BY <1>4 DEF Send, DInv, Unseen, ToBeSent
<1>5. CASE Disconnected
  BY <1>5 DEF Disconnected, DInv, Unseen, ToBeSent
<1>6. CASE CheckShoot
  BY <1>6 DEF CheckShoot, DInv, Unseen, ToBeSent
<1>7. CASE CheckRespawn
  BY <1>7 DEF CheckRespawn, DInv, Unseen, ToBeSent
<1>8. CASE Reset
  BY <1>8 DEF Reset, DInv, ToBeSent
<1>9. CASE StartRendering
  BY <1>9 DEF StartRendering, DInv, Unseen, ToBeSent
<1>10. CASE LoadTimer
  BY <1>10 DEF LoadTimer, DInv, Unseen, ToBeSent
<1>11. CASE StoreTimers
  BY <1>11 DEF StoreTimers, DInv, Unseen, ToBeSent
<1>12. CASE SkipFrame
  BY <1>12 DEF SkipFrame, DInv, Unseen, ToBeSent
<1>13. CASE LoadHp
  BY <1>13 DEF LoadHp, DInv, Unseen, ToBeSent
<1>14. CASE UpdateDeathState
  BY <1>14 DEF UpdateDeathState, Beginning, DInv, Unseen, ToBeSent
<1>15. CASE Keys
  BY <1>15 DEF Keys, DInv, Unseen, ToBeSent
<1>16. CASE Act
  BY <1>16 DEF Act, TypeOK, DInv, Unspoiled, Unseen, ToBeSent, DeadAllTheWay
<1>17. CASE ServerUpdate
  BY <1>17 DEF ServerUpdate, DInv, Unseen, ToBeSent
<1>18. CASE Damage
  BY <1>18 DEF Damage, DInv, Unseen, ToBeSent
<1>19. CASE Broadcast
  BY <1>19 DEF Broadcast, DInv, Unseen, ToBeSent
<1>20. CASE UNCHANGED vars
  BY <1>20 DEF vars, DInv, Unseen, ToBeSent
<1>. QED BY <1>1, <1>2, <1>3, <1>4, <1>5, <1>6, <1>7, <1>8, <1>9, <1>10, <1>11,
     <1>12, <1>13, <1>14, <1>15, <1>16, <1>17, <1>18, <1>19, <1>20 DEF Next,
     Network, Render, Server

LEMMA WaitingStep ==
    ASSUME TypeOK, Beginning, DInv, Unspoiled, Unspoiled', [Next]_vars
    PROVE  Waiting'
<1>. USE ClientAssumption DEF player, timers, frame, server
<1>1. CASE Hello
  BY <1>1 DEF Hello, DInv, Waiting
<1>2. CASE Refused
  BY <1>2 DEF Refused, DInv, Waiting
<1>3. CASE Receive
  BY <1>3 DEF Receive, DInv, Waiting
<1>4. CASE Send
  BY <1>4 DEF Send, DInv, Waiting
<1>5. CASE Disconnected
  BY <1>5 DEF Disconnected, DInv, Waiting
<1>6. CASE CheckShoot
  BY <1>6 DEF CheckShoot, DInv, Waiting
<1>7. CASE CheckRespawn
  BY <1>7 DEF CheckRespawn, DInv, Waiting
<1>8. CASE Reset
  BY <1>8 DEF Reset, DInv, Waiting
<1>9. CASE StartRendering
  BY <1>9 DEF StartRendering, DInv, Waiting
<1>10. CASE LoadTimer
  BY <1>10 DEF LoadTimer, DInv, Waiting
<1>11. CASE StoreTimers
  BY <1>11 DEF StoreTimers, TypeOK, DInv, Lower, CountOn, Waiting
<1>12. CASE SkipFrame
  BY <1>12 DEF SkipFrame, DInv, Waiting
<1>13. CASE LoadHp
  BY <1>13 DEF LoadHp, DInv, Waiting
<1>14. CASE UpdateDeathState
  BY <1>14 DEF UpdateDeathState, TypeOK, DInv, Waiting
<1>15. CASE Keys
  BY <1>15 DEF Keys, DInv, Waiting
<1>16. CASE Act
  BY <1>16 DEF Act, DInv, Waiting
<1>17. CASE ServerUpdate
  BY <1>17 DEF ServerUpdate, DInv, Waiting
<1>18. CASE Damage
  BY <1>18 DEF Damage, DInv, Waiting
<1>19. CASE Broadcast
  BY <1>19 DEF Broadcast, DInv, Waiting
<1>20. CASE UNCHANGED vars
  BY <1>20 DEF vars, DInv, Waiting
<1>. QED BY <1>1, <1>2, <1>3, <1>4, <1>5, <1>6, <1>7, <1>8, <1>9, <1>10, <1>11,
     <1>12, <1>13, <1>14, <1>15, <1>16, <1>17, <1>18, <1>19, <1>20 DEF Next,
     Network, Render, Server

-----------------------------------------------------------------------------
(* The theorems.                                                           *)

LEMMA Start == Init => IInv /\ DInv
<1>. SUFFICES ASSUME Init PROVE IInv /\ DInv
  OBVIOUS
<1>1. TypeOK
  <2>1. /\ up \in Seq(Actions) /\ Len(up) <= MaxUp
        /\ down \in Seq(Messages) /\ Len(down) <= MaxDown
    BY ClientAssumption DEF Init
  <2>2. /\ counted \in 0 .. SHOOT_COOLDOWN + 1 /\ waited \in 0 .. RESPAWN_COOLDOWN + 1
        /\ shoot_timer \in -1 .. SHOOT_COOLDOWN /\ timer_read \in -1 .. SHOOT_COOLDOWN
        /\ respawn_timer \in -1 .. RESPAWN_COOLDOWN
    BY ClientAssumption DEF Init
  <2>. QED BY <2>1, <2>2 DEF Init, TypeOK, Actions
<1>2. Beginning
  BY DEF Init, Beginning, Unspoiled
<1>3. Cooling
  BY ClientAssumption DEF Init, Cooling, Covers
<1>4. DInv
  BY DEF Init, DInv, AliveIsAtSea, RespawnIsForThisDeath, DiesOnce, DeathOnItsWay, TakenForAlive,
         DeadAllTheWay, AskedOnce, Asked, ToBeSent, Waiting
<1>. QED BY <1>1, <1>2, <1>3, <1>4 DEF IInv

\* The types, where the threads are and what is covered of the cooldown are kept by
\* each step of the two threads and the server.
THEOREM Invariant == Spec => []IInv
<1>1. Init => IInv
  BY Start
<1>2. IInv /\ [Next]_vars => IInv'
  BY TypeStep, BeginningStep, CoolingStep DEF IInv
<1>. QED BY <1>1, <1>2, PTL DEF Spec

\* What is on its way of a death and of its answer, while the threads and the
\* streams go on in any order and lose what they lose.
THEOREM DeathInvariant == Spec => []DInv
<1>1. Init => DInv
  BY Start
<1>2. IInv /\ DInv /\ [Next]_vars => DInv'
  <2>. SUFFICES ASSUME TypeOK, Beginning, DInv, [Next]_vars
                PROVE  DInv'
    BY DEF IInv
  <2>1. CASE ~Unspoiled'
    BY <2>1 DEF DInv, AliveIsAtSea, RespawnIsForThisDeath
  <2>2. CASE Unspoiled'
    <3>1. Unspoiled
      BY <2>2, SpoiledStays
    <3>2. AliveIsAtSea'
      BY <2>2, <3>1, AliveIsAtSeaStep
    <3>3. RespawnIsForThisDeath'
      BY <2>2, <3>1, RespawnIsForThisDeathStep
    <3>4. DiesOnce'
      BY <2>2, <3>1, DiesOnceStep
    <3>5. DeathOnItsWay'
      BY <2>2, <3>1, DeathOnItsWayStep
    <3>6. DeadAllTheWay'
      BY <2>2, <3>1, DeadAllTheWayStep
    <3>7. AskedOnce'
      BY <2>2, <3>1, AskedOnceStep
    <3>8. ToBeSent'
      BY <2>2, <3>1, ToBeSentStep
    <3>9. Waiting'
      BY <2>2, <3>1, WaitingStep
    <3>. QED BY <3>2, <3>3, <3>4, <3>5, <3>6, <3>7, <3>8, <3>9 DEF DInv
  <2>. QED BY <2>1, <2>2
<1>. QED BY <1>1, <1>2, Invariant, PTL DEF Spec

\* Every variable keeps its type: no timer is ever set beyond its cooldown, and the
\* streams take no more than they have room for.
THEOREM TypeCorrect == Spec => []TypeOK
<1>1. IInv => TypeOK
  BY DEF IInv
<1>. QED BY Invariant, <1>1, PTL

\* However late the answers and whichever are lost, who is taken for alive has been
\* moved away from the dead before.
THEOREM AliveAreAtSea == Spec => []AliveIsAtSea
<1>1. DInv => AliveIsAtSea
  BY DEF DInv
<1>. QED BY DeathInvariant, <1>1, PTL

\* No respawn is left over from an earlier death, however long the cooldown.
THEOREM RespawnsAreForThisDeath == Spec => []RespawnIsForThisDeath
<1>1. DInv => RespawnIsForThisDeath
  BY DEF DInv
<1>. QED BY DeathInvariant, <1>1, PTL

\* The two races that raced records are the only ones in which a cooldown is lost.
THEOREM ShotsAreCooledDown == Spec => ShotsCooledDown
<1>1. IInv /\ [Next]_vars => [Send /\ action = "shoot" /\ ~raced => counted > SHOOT_COOLDOWN]_vars
  BY DEF IInv, Cooling, Send
<1>. QED BY Invariant, <1>1, PTL DEF Spec, ShotsCooledDown
=============================================================================
