------------------------- MODULE BulletList_proofs -------------------------
(***************************************************************************)
(* Proofs about BulletList, for a heap and a buffer of any size.           *)
(***************************************************************************)
EXTENDS BulletList, TLAPS

\* What the three reads of the count have seen, and how long the list is now.
Reads ==
    /\ bpc \in Building => /\ Len(bullets) = Len(before) + shots
                           /\ Uncounted <= late + shots
    /\ bpc \in Building \ {"size"} => /\ 0 <= array_size - 1
                                      /\ Len(before) - late <= array_size - 1
                                      /\ array_size - 1 <= bullets_count
    /\ bpc \in Built \cup {"copy"} => /\ array_size - 1 <= header_id
                                      /\ header_id <= bullets_count
                                      /\ Len(packet) <= array_size - 1
    /\ bpc \in {"size", "header"} => packet = <<>>

\* What the check has let pass has kept its size while bullets_mutex was awaited.
Fits ==
    bpc \in {"lock", "send"} => /\ array_size <= MAX_BULLETS_PER_BUFFER + 1
                               /\ header_id <= MAX_BULLETS_PER_BUFFER

\* The node to copy next has not been freed.
CurrentLive ==
    bpc \in {"size", "header", "copy"} => current \in Elements(bullets) \cup {NULL}

IInv == TypeOK /\ CountIsLength /\ Reads /\ CurrentLive /\ Fits

-----------------------------------------------------------------------------
(* The list operations.                                                    *)

LEMMA ConcatFacts ==
    ASSUME NEW a \in Seq(Nodes), NEW b \in Seq(Nodes)
    PROVE  a \o b \in Seq(Nodes) /\ Len(a \o b) = Len(a) + Len(b)
OBVIOUS

LEMMA InsertFacts ==
    ASSUME NEW s \in Seq(Nodes), NEW n \in Nodes
    PROVE  Insert(s, n) \in Seq(Nodes) /\ Len(Insert(s, n)) = Len(s) + 1
<1>1. CASE s = <<>>
  BY <1>1 DEF Insert
<1>2. CASE s # <<>>
  <2>1. Head(s) \in Nodes /\ Tail(s) \in Seq(Nodes) /\ Len(Tail(s)) = Len(s) - 1
    BY <1>2
  <2>2. <<Head(s), n>> \in Seq(Nodes) /\ Len(<<Head(s), n>>) = 2
    BY <2>1
  <2>3. Insert(s, n) = <<Head(s), n>> \o Tail(s)
    BY <1>2 DEF Insert
  <2>. QED BY <2>1, <2>2, <2>3
<1>. QED BY <1>1, <1>2

LEMMA RemoveFacts ==
    ASSUME NEW s \in Seq(Nodes), NEW n \in DOMAIN s
    PROVE  RemoveAt(s, n) \in Seq(Nodes) /\ Len(RemoveAt(s, n)) = Len(s) - 1
<1>1. n \in 1 .. Len(s)
  OBVIOUS
<1>2. SubSeq(s, 1, n - 1) \in Seq(Nodes) /\ Len(SubSeq(s, 1, n - 1)) = n - 1
  BY <1>1
<1>3. SubSeq(s, n + 1, Len(s)) \in Seq(Nodes) /\ Len(SubSeq(s, n + 1, Len(s))) = Len(s) - n
  BY <1>1
<1>4. PICK a \in Seq(Nodes) : a = SubSeq(s, 1, n - 1)
  BY <1>2
<1>5. PICK b \in Seq(Nodes) : b = SubSeq(s, n + 1, Len(s))
  BY <1>3
<1>6. a \o b \in Seq(Nodes) /\ Len(a \o b) = Len(a) + Len(b)
  BY ConcatFacts
<1>7. Len(a) + Len(b) = Len(s) - 1
  <2>1. Len(a) = n - 1 /\ Len(b) = Len(s) - n
    BY <1>2, <1>3, <1>4, <1>5
  <2>2. Len(s) \in Nat /\ n \in Nat
    BY <1>1
  <2>. QED BY ONLY <2>1, <2>2
<1>8. RemoveAt(s, n) = a \o b
  BY <1>4, <1>5 DEF RemoveAt
<1>. QED BY <1>6, <1>7, <1>8

LEMMA InsertElements ==
    ASSUME NEW s \in Seq(Nodes), NEW n \in Nodes
    PROVE  Elements(s) \subseteq Elements(Insert(s, n))
<1>. SUFFICES ASSUME NEW k \in DOMAIN s PROVE \E m \in DOMAIN Insert(s, n) : Insert(s, n)[m] = s[k]
  BY DEF Elements
<1>0. k \in 1 .. Len(s) /\ s # <<>>
  OBVIOUS
<1>1. Insert(s, n) = <<Head(s), n>> \o Tail(s)
  BY <1>0 DEF Insert
<1>2. Tail(s) \in Seq(Nodes) /\ Len(Tail(s)) = Len(s) - 1
  BY <1>0
<1>3. <<Head(s), n>> \in Seq(Nodes) /\ Len(<<Head(s), n>>) = 2
  BY <1>0
<1>4. DOMAIN Insert(s, n) = 1 .. Len(s) + 1
  BY <1>1, <1>2, <1>3, InsertFacts
<1>5. CASE k = 1
  <2>1. Insert(s, n)[1] = Head(s)
    BY <1>1, <1>2, <1>3
  <2>. QED BY <1>0, <1>4, <1>5, <2>1
<1>6. CASE k # 1
  <2>1. k + 1 \in 1 .. Len(s) + 1
    BY <1>0
  <2>2. Insert(s, n)[k + 1] = Tail(s)[k - 1]
    BY <1>0, <1>1, <1>2, <1>3, <1>6
  <2>3. Tail(s)[k - 1] = s[k]
    BY <1>0, <1>6
  <2>. QED BY <1>4, <2>1, <2>2, <2>3
<1>. QED BY <1>5, <1>6

LEMMA NextNodeType ==
    ASSUME TypeOK, NEW n \in Elements(bullets)
    PROVE  NextNode(n) \in Elements(bullets) \cup {NULL}
<1>. DEFINE p == CHOOSE q \in DOMAIN bullets : bullets[q] = n
<1>1. p \in DOMAIN bullets
  BY DEF Elements
<1>2. p \in 1 .. Len(bullets)
  BY <1>1 DEF TypeOK
<1>3. CASE p = Len(bullets) \/ (p = 2 /\ hpc = "link")
  BY <1>3 DEF NextNode
<1>4. CASE ~(p = Len(bullets) \/ (p = 2 /\ hpc = "link"))
  <2>1. p + 1 \in 1 .. Len(bullets)
    BY <1>2, <1>4 DEF TypeOK
  <2>2. NextNode(n) = bullets[p + 1]
    BY <1>4 DEF NextNode
  <2>3. p + 1 \in DOMAIN bullets
    BY <2>1 DEF TypeOK
  <2>. HIDE DEF p
  <2>. QED BY <2>2, <2>3 DEF Elements
<1>. QED BY <1>3, <1>4
-----------------------------------------------------------------------------
(* The invariant.                                                          *)

LEMMA AddFacts ==
    ASSUME TypeOK, CountIsLength, NEW n \in Nodes, add_bullet(n)
    PROVE  /\ bullets' \in Seq(Nodes)
           /\ bullets_count' \in Nat
           /\ bullets_count' = bullets_count + 1
           /\ Len(bullets') = Len(bullets) + 1
           /\ Elements(bullets) \subseteq Elements(bullets')
           /\ hpc' = hpc
BY InsertFacts, InsertElements DEF add_bullet, TypeOK

LEMMA Step == IInv /\ [Next]_vars => IInv'
<1>. SUFFICES ASSUME IInv, [Next]_vars PROVE IInv'
  OBVIOUS
<1>. USE BulletListAssumption DEF Building, Built, Uncounted, Locked, list, spawners, snapshot
<1>1. ASSUME Shoot PROVE IInv'
  <2>1. PICK m \in Nodes : bullets' = Insert(bullets, m)
    BY <1>1 DEF Shoot
  <2>2. /\ bullets' \in Seq(Nodes)
        /\ Len(bullets') = Len(bullets) + 1
        /\ Elements(bullets) \subseteq Elements(bullets')
    BY <2>1, InsertFacts, InsertElements DEF IInv, TypeOK
  <2>3. hpc = "idle" /\ hpc' \in {"link", "count"}
    BY <1>1 DEF Shoot
  <2>. QED BY <1>1, <2>2, <2>3 DEF Shoot, IInv, TypeOK, CountIsLength, Reads, CurrentLive, Fits
<1>2. ASSUME BeginMove PROVE IInv'
  BY <1>2 DEF BeginMove, IInv, TypeOK, CountIsLength, Reads, CurrentLive, Fits
<1>3. ASSUME BeginSpawn PROVE IInv'
  BY <1>3 DEF BeginSpawn, IInv, TypeOK, CountIsLength, Reads, CurrentLive, Fits
<1>4. ASSUME SpawnOne PROVE IInv'
  <2>1. CASE UNCHANGED list
    BY <1>4, <2>1 DEF SpawnOne, IInv, TypeOK, CountIsLength, Reads, CurrentLive, Fits
  <2>2. CASE \E m \in Nodes : add_bullet(m)
    <3>1. /\ bullets' \in Seq(Nodes)
          /\ bullets_count' \in Nat /\ bullets_count' = bullets_count + 1
          /\ Len(bullets') = Len(bullets) + 1 /\ hpc' = hpc
      BY <2>2, AddFacts DEF IInv
    <3>. QED BY <1>4, <3>1 DEF SpawnOne, IInv, TypeOK, CountIsLength, Reads, CurrentLive, Fits
  <2>. QED BY <1>4, <2>1, <2>2 DEF SpawnOne
<1>5. ASSUME SpawnDone PROVE IInv'
  BY <1>5 DEF SpawnDone, IInv, TypeOK, CountIsLength, Reads, CurrentLive, Fits
<1>6. ASSUME MoveAlive PROVE IInv'
  BY <1>6 DEF MoveAlive, IInv, TypeOK, CountIsLength, Reads, CurrentLive, Fits
<1>7. ASSUME MoveDead PROVE IInv'
  <2>1. bullets' \in Seq(Nodes) /\ Len(bullets') = Len(bullets) - 1 /\ Len(bullets) > 0
    BY <1>7, RemoveFacts DEF MoveDead, IInv, TypeOK
  <2>. QED BY <1>7, <2>1 DEF MoveDead, IInv, TypeOK, CountIsLength, Reads, CurrentLive, Fits
<1>8. ASSUME MoveDone PROVE IInv'
  BY <1>8 DEF MoveDone, IInv, TypeOK, CountIsLength, Reads, CurrentLive, Fits
<1>9. ASSUME ReadHead PROVE IInv'
  <2>1. current' \in Elements(bullets) \cup {NULL} /\ current' \in Nodes \cup {NULL}
    BY <1>9 DEF ReadHead, Elements, IInv, TypeOK
  <2>. QED BY <1>9, <2>1 DEF ReadHead, IInv, TypeOK, CountIsLength, Reads, CurrentLive, Fits
<1>10. ASSUME ReadSize PROVE IInv'
  BY <1>10 DEF ReadSize, IInv, TypeOK, CountIsLength, Reads, CurrentLive, Fits
<1>11. ASSUME ReadHeader PROVE IInv'
  BY <1>11 DEF ReadHeader, IInv, TypeOK, CountIsLength, Reads, CurrentLive, Fits
<1>12. ASSUME CopyNode PROVE IInv'
  <2>1. current \in Elements(bullets) /\ current \in Nodes
    BY <1>12 DEF CopyNode, IInv, TypeOK, CurrentLive
  <2>2. current' \in Elements(bullets) \cup {NULL} /\ current' \in Nodes \cup {NULL}
    <3>1. current' = NextNode(current)
      BY <1>12 DEF CopyNode
    <3>2. NextNode(current) \in Elements(bullets) \cup {NULL}
      BY <2>1, NextNodeType DEF IInv
    <3>3. Elements(bullets) \subseteq Nodes
      BY DEF IInv, TypeOK, Elements
    <3>. QED BY <3>1, <3>2, <3>3
  <2>3. packet' \in Seq(Nodes) /\ Len(packet') = Len(packet) + 1
    BY <1>12, <2>1 DEF CopyNode, IInv, TypeOK
  <2>. QED BY <1>12, <2>2, <2>3 DEF CopyNode, IInv, TypeOK, CountIsLength, Reads, CurrentLive, Fits
<1>13. ASSUME CopyOverrun PROVE IInv'
  BY <1>13 DEF CopyOverrun, IInv, TypeOK, CountIsLength, Reads, CurrentLive, Fits
<1>14. ASSUME CopyDone PROVE IInv'
  BY <1>14 DEF CopyDone, IInv, TypeOK, CountIsLength, Reads, CurrentLive, Fits
<1>15. ASSUME Withhold PROVE IInv'
  BY <1>15 DEF Withhold, IInv, TypeOK, CountIsLength, Reads, CurrentLive, Fits
<1>16. ASSUME BeginSend PROVE IInv'
  BY <1>16 DEF BeginSend, IInv, TypeOK, CountIsLength, Reads, CurrentLive, Fits
<1>17. ASSUME Sent PROVE IInv'
  BY <1>17 DEF Sent, IInv, TypeOK, CountIsLength, Reads, CurrentLive, Fits
<1>18. ASSUME Terminal PROVE IInv'
  <2>1. UNCHANGED <<list, bpc, i, snapshot, shots>>
    BY <1>18 DEF Terminal
  <2>2. spawn_vortex_bullets' \in BOOLEAN
    BY <1>18 DEF Terminal, chaos, nochaos, add_vortex, remove_vortex, IInv, TypeOK
  <2>3. spawner_count' \in 0 .. MAX_VORTEX_SPAWNERS
    BY <1>18 DEF Terminal, chaos, nochaos, add_vortex, remove_vortex, IInv, TypeOK
  <2>4. TypeOK'
    BY <2>1, <2>2, <2>3 DEF IInv, TypeOK
  <2>5. (CountIsLength /\ Reads /\ CurrentLive /\ Fits)'
    BY <2>1 DEF IInv, CountIsLength, Reads, CurrentLive, Fits
  <2>. QED BY <2>4, <2>5 DEF IInv
<1>19. ASSUME ShootLink PROVE IInv'
  BY <1>19 DEF ShootLink, IInv, TypeOK, CountIsLength, Reads, CurrentLive, Fits
<1>20. ASSUME ShootCount PROVE IInv'
  <2>1. bullets_count' = bullets_count + 1 /\ hpc # "idle" /\ hpc' = "idle"
    BY <1>20 DEF ShootCount
  <2>. QED BY <1>20, <2>1 DEF ShootCount, IInv, TypeOK, CountIsLength, Reads, CurrentLive, Fits
<1>21. ASSUME Checked PROVE IInv'
  BY <1>21 DEF Checked, IInv, TypeOK, CountIsLength, Reads, CurrentLive, Fits
<1>22. CASE UNCHANGED vars
  BY <1>22 DEF vars, IInv, TypeOK, CountIsLength, Reads, CurrentLive, Fits
<1>. QED BY <1>1, <1>2, <1>3, <1>4, <1>5, <1>6, <1>7, <1>8, <1>9, <1>10, <1>11, <1>12, <1>13, <1>14, <1>15, <1>16, <1>17, <1>18, <1>19, <1>20, <1>21, <1>22 DEF Next, Handler, BroadcastBullets

LEMMA Start == Init => IInv
<1>. SUFFICES ASSUME Init PROVE IInv
  OBVIOUS
<1>1. TypeOK
  <2>1. <<>> \in Seq(Nodes)
    OBVIOUS
  <2>2. 1 \in 0 .. MAX_VORTEX_SPAWNERS
    BY BulletListAssumption
  <2>. QED BY <2>1, <2>2 DEF Init, TypeOK
<1>2. CountIsLength
  BY DEF Init, CountIsLength, Uncounted, Locked
<1>3. Reads /\ CurrentLive /\ Fits
  BY DEF Init, Building, Built, Reads, CurrentLive, Fits
<1>. QED BY <1>1, <1>2, <1>3 DEF IInv

\* The types, the exact count and the order in which the count is read are kept by
\* every step of the three threads.
THEOREM Invariant == Spec => []IInv
<1>1. Init => IInv
  BY Start
<1>. QED BY <1>1, Step, PTL DEF Spec

\* Every variable keeps its type: there are never more spawners than spawn has
\* room for, however the terminal and the broadcast thread interleave.
THEOREM TypeCorrect == Spec => []TypeOK
<1>1. IInv => TypeOK
  BY DEF IInv
<1>. QED BY Invariant, <1>1, PTL

\* Under bullets_mutex, the count is the length of the list as soon as the handler
\* that holds it has counted its bullet, and until then it is one less: for ever.
THEOREM CountIsExact == Spec => []CountIsLength
<1>1. IInv => CountIsLength
  BY DEF IInv
<1>. QED BY Invariant, <1>1, PTL

\* A packet is never larger than the check that comes after it is sized allows.
THEOREM PacketsAreBounded == Spec => []SentPacketBounded
<1>1. IInv => SentPacketBounded
  BY DEF IInv, Fits, SentPacketBounded
<1>. QED BY Invariant, <1>1, PTL
-----------------------------------------------------------------------------
(* The packet as a part of the list.                                       *)

Distinct(s) == \A p, q \in DOMAIN s : s[p] = s[q] => p = q

\* The list is what it was when its head was read, and the shots behind the head.
Grown ==
    bpc \in Building =>
        /\ before # <<>> => bullets[1] = before[1]
        /\ \A k \in 2 .. Len(before) : bullets[k + shots] = before[k]

\* The copy has the head, and has come to the current node having missed d bullets;
\* it is at its end behind the last bullet, or behind one not yet linked on.
FollowsBy(d) ==
    /\ packet[1] = bullets[1]
    /\ \A k \in 2 .. Len(packet) : packet[k] = bullets[k + d]
    /\ Len(packet) + d <= Len(bullets)
    /\ current = NULL => \/ Len(packet) + d = Len(bullets)
                         \/ Len(packet) = 2 /\ shots + late > 0
    /\ current # NULL => /\ Len(packet) + d < Len(bullets)
                         /\ current = bullets[Len(packet) + d + 1]

Copied ==
    /\ bpc \in Building =>
          /\ before = <<>> => packet = <<>> /\ current = NULL
          /\ before # <<>> /\ packet = <<>> => current = bullets[1]
          /\ before # <<>> /\ packet # <<>> => \E d \in 0 .. shots : FollowsBy(d)
    /\ bpc \in Built => current = NULL
    /\ bpc = "undefined" => shots + late > 0

SInv == Distinct(bullets) /\ Grown /\ Copied

LEMMA InsertAt ==
    ASSUME NEW s \in Seq(Nodes), NEW n \in Nodes, s # <<>>
    PROVE  /\ Len(Insert(s, n)) = Len(s) + 1
           /\ DOMAIN Insert(s, n) = 1 .. Len(s) + 1
           /\ Insert(s, n)[1] = s[1]
           /\ Insert(s, n)[2] = n
           /\ \A k \in 2 .. Len(s) : Insert(s, n)[k + 1] = s[k]
<1>1. Insert(s, n) = <<Head(s), n>> \o Tail(s)
  BY DEF Insert
<1>2. Tail(s) \in Seq(Nodes) /\ Len(Tail(s)) = Len(s) - 1 /\ Len(s) \in Nat /\ Len(s) >= 1
  OBVIOUS
<1>3. <<Head(s), n>> \in Seq(Nodes) /\ Len(<<Head(s), n>>) = 2
  OBVIOUS
<1>4. Len(Insert(s, n)) = Len(s) + 1 /\ DOMAIN Insert(s, n) = 1 .. Len(s) + 1
  BY <1>1, <1>2, <1>3, InsertFacts
<1>5. Insert(s, n)[1] = s[1] /\ Insert(s, n)[2] = n
  BY <1>1, <1>2, <1>3
<1>6. ASSUME NEW k \in 2 .. Len(s) PROVE Insert(s, n)[k + 1] = s[k]
  <2>1. Insert(s, n)[k + 1] = Tail(s)[k - 1]
    BY <1>1, <1>2, <1>3
  <2>2. Tail(s)[k - 1] = s[k]
    BY <1>2
  <2>. QED BY <2>1, <2>2
<1>. QED BY <1>4, <1>5, <1>6

LEMMA InsertDistinct ==
    ASSUME NEW s \in Seq(Nodes), NEW n \in Nodes \ Elements(s), Distinct(s)
    PROVE  Distinct(Insert(s, n))
<1>1. CASE s = <<>>
  BY <1>1 DEF Insert, Distinct
<1>2. CASE s # <<>>
  <2>. DEFINE t == Insert(s, n)
  <2>0. Len(s) \in Nat /\ Len(s) >= 1 /\ DOMAIN s = 1 .. Len(s)
    BY <1>2
  <2>1. /\ DOMAIN t = 1 .. Len(s) + 1
        /\ t[1] = s[1] /\ t[2] = n
        /\ \A k \in 2 .. Len(s) : t[k + 1] = s[k]
    BY <1>2, InsertAt
  <2>2. \A k \in 1 .. Len(s) : s[k] # n
    BY <2>0 DEF Elements
  <2>. HIDE DEF t
  <2>3. \A k \in 3 .. Len(s) + 1 : k - 1 \in 2 .. Len(s) /\ t[k] = s[k - 1]
    <3>. SUFFICES ASSUME NEW k \in 3 .. Len(s) + 1 PROVE k - 1 \in 2 .. Len(s) /\ t[k] = s[k - 1]
      OBVIOUS
    <3>1. k - 1 \in 2 .. Len(s) /\ (k - 1) + 1 = k
      BY <2>0
    <3>. QED BY <2>1, <3>1
  <2>. SUFFICES ASSUME NEW p \in DOMAIN t, NEW q \in DOMAIN t, t[p] = t[q] PROVE p = q
    BY DEF Distinct, t
  <2>4. p \in 1 .. Len(s) + 1 /\ q \in 1 .. Len(s) + 1
    BY <2>1
  <2>5. \A k, m \in 1 .. Len(s) : s[k] = s[m] => k = m
    BY <2>0 DEF Distinct
  <2>6. CASE p \in {1, 2} \/ q \in {1, 2}
    BY <2>0, <2>1, <2>2, <2>3, <2>4, <2>5, <2>6
  <2>7. CASE p \notin {1, 2} /\ q \notin {1, 2}
    BY <2>0, <2>3, <2>4, <2>5, <2>7
  <2>. QED BY <2>6, <2>7
<1>. QED BY <1>1, <1>2

LEMMA RemoveDistinct ==
    ASSUME NEW s \in Seq(Nodes), NEW n \in DOMAIN s, Distinct(s)
    PROVE  Distinct(RemoveAt(s, n))
<1>. DEFINE a == SubSeq(s, 1, n - 1)
            b == SubSeq(s, n + 1, Len(s))
            t == RemoveAt(s, n)
<1>0. n \in 1 .. Len(s) /\ Len(s) \in Nat /\ DOMAIN s = 1 .. Len(s)
  OBVIOUS
<1>1. a \in Seq(Nodes) /\ Len(a) = n - 1 /\ \A k \in 1 .. n - 1 : a[k] = s[k]
  BY <1>0
<1>2. b \in Seq(Nodes) /\ Len(b) = Len(s) - n /\ \A k \in 1 .. Len(s) - n : b[k] = s[k + n]
  BY <1>0
<1>3. t = a \o b
  BY DEF RemoveAt
<1>. HIDE DEF a, b
<1>4. DOMAIN t = 1 .. Len(s) - 1
  BY <1>0, RemoveFacts
<1>. HIDE DEF t
<1>5. \A k \in 1 .. n - 1 : t[k] = s[k]
  BY <1>0, <1>1, <1>2, <1>3
<1>6. \A k \in n .. Len(s) - 1 : t[k] = s[k + 1]
  <2>. SUFFICES ASSUME NEW k \in n .. Len(s) - 1 PROVE t[k] = s[k + 1]
    OBVIOUS
  <2>1. t[k] = b[k - (n - 1)]
    BY <1>0, <1>1, <1>2, <1>3
  <2>2. k - (n - 1) \in 1 .. Len(s) - n /\ (k - (n - 1)) + n = k + 1
    BY <1>0
  <2>. QED BY <1>2, <2>1, <2>2
<1>7. \A k, m \in 1 .. Len(s) : s[k] = s[m] => k = m
  BY <1>0 DEF Distinct
<1>. SUFFICES ASSUME NEW p \in DOMAIN t, NEW q \in DOMAIN t, t[p] = t[q] PROVE p = q
  BY DEF Distinct, t
<1>. QED BY <1>0, <1>4, <1>5, <1>6, <1>7

LEMMA NodesAreNotNull ==
    ASSUME TypeOK, NEW p \in 1 .. Len(bullets)
    PROVE  bullets[p] # NULL
BY BulletListAssumption DEF TypeOK

\* In a list without a node twice, the next node is the one behind, or none yet.
LEMMA NextNodeIs ==
    ASSUME TypeOK, Distinct(bullets), NEW p \in 1 .. Len(bullets)
    PROVE  NextNode(bullets[p]) =
             IF p = Len(bullets) \/ (p = 2 /\ hpc = "link") THEN NULL ELSE bullets[p + 1]
<1>. DEFINE r == CHOOSE q \in DOMAIN bullets : bullets[q] = bullets[p]
<1>1. p \in DOMAIN bullets
  BY DEF TypeOK
<1>2. r \in DOMAIN bullets /\ bullets[r] = bullets[p]
  BY <1>1
<1>3. r = p
  BY <1>1, <1>2 DEF Distinct
<1>4. NextNode(bullets[p]) =
        IF r = Len(bullets) \/ (r = 2 /\ hpc = "link") THEN NULL ELSE bullets[r + 1]
  BY DEF NextNode
<1>. HIDE DEF r
<1>. QED BY <1>3, <1>4

LEMMA AddDistinct ==
    ASSUME TypeOK, Distinct(bullets), NEW n \in Nodes, add_bullet(n)
    PROVE  Distinct(bullets')
BY InsertDistinct DEF add_bullet, TypeOK

\* A shot puts the copy one bullet further behind.
LEMMA ShotFollows ==
    ASSUME TypeOK, bullets # <<>>, NEW n \in Nodes, bullets' = Insert(bullets, n),
           NEW d \in Nat, FollowsBy(d), Len(packet) > 0,
           UNCHANGED <<packet, current, late>>, shots' = shots + 1
    PROVE  FollowsBy(d + 1)'
<1>1. /\ Len(bullets') = Len(bullets) + 1
      /\ bullets'[1] = bullets[1]
      /\ \A k \in 2 .. Len(bullets) : bullets'[k + 1] = bullets[k]
  BY InsertAt DEF TypeOK
<1>2. Len(bullets) \in Nat /\ Len(packet) \in Nat
  BY DEF TypeOK
<1>3. ASSUME NEW k \in 2 .. Len(packet) PROVE packet[k] = bullets'[k + (d + 1)]
  <2>1. packet[k] = bullets[k + d] /\ k + d \in 2 .. Len(bullets)
    BY <1>2 DEF FollowsBy
  <2>2. (k + d) + 1 = k + (d + 1)
    BY <1>2
  <2>. QED BY <1>1, <2>1, <2>2
<1>4. ASSUME current # NULL
      PROVE  /\ Len(packet) + (d + 1) < Len(bullets')
             /\ current = bullets'[Len(packet) + (d + 1) + 1]
  <2>1. current = bullets[Len(packet) + d + 1] /\ Len(packet) + d + 1 \in 2 .. Len(bullets)
    BY <1>2, <1>4 DEF FollowsBy
  <2>2. (Len(packet) + d + 1) + 1 = Len(packet) + (d + 1) + 1
    BY <1>2
  <2>. QED BY <1>1, <1>2, <2>1, <2>2
<1>5. shots + late > 0 => (shots + late > 0)'
  BY DEF TypeOK
<1>6. Len(packet) + d = Len(bullets) => Len(packet) + (d + 1) = Len(bullets')
  BY <1>1, <1>2
<1>. QED BY <1>1, <1>2, <1>3, <1>4, <1>5, <1>6 DEF FollowsBy

\* The list grows behind its head.
LEMMA ShotGrows ==
    ASSUME TypeOK, Reads, SInv, Shoot
    PROVE  SInv'
<1>1. PICK n \in Nodes \ Elements(bullets) : bullets' = Insert(bullets, n)
  BY DEF Shoot
<1>2. bullets' = Insert(bullets, n) /\ Len(bullets) \in Nat /\ shots \in Nat /\ late \in Nat
  BY <1>1 DEF TypeOK
<1>3. Distinct(bullets')
  BY <1>1, InsertDistinct DEF SInv, TypeOK
<1>4. UNCHANGED <<bpc, current, packet, before, late>> /\ shots' = shots + 1
  BY DEF Shoot, snapshot
<1>5. CASE bpc \notin Building
  BY <1>3, <1>4, <1>5 DEF Building, Built, SInv, Grown, Copied, Shoot
<1>6. CASE bpc \in Building /\ before = <<>>
  BY <1>3, <1>4, <1>6 DEF Building, Built, SInv, Grown, Copied
<1>7. CASE bpc \in Building /\ before # <<>>
  <2>1. Len(before) \in Nat /\ Len(before) > 0 /\ Len(bullets) = Len(before) + shots /\ bullets # <<>>
    BY <1>2, <1>7 DEF Reads, TypeOK
  <2>2. /\ bullets'[1] = bullets[1]
        /\ \A k \in 2 .. Len(bullets) : bullets'[k + 1] = bullets[k]
    BY <1>2, <2>1, InsertAt DEF TypeOK
  <2>3. ASSUME NEW k \in 2 .. Len(before) PROVE bullets'[k + (shots + 1)] = before[k]
    <3>1. bullets[k + shots] = before[k] /\ k + shots \in 2 .. Len(bullets)
      BY <1>2, <1>7, <2>1 DEF SInv, Grown
    <3>2. (k + shots) + 1 = k + (shots + 1)
      BY <1>2
    <3>. QED BY <2>2, <3>1, <3>2
  <2>4. Grown'
    BY <1>4, <1>7, <2>2, <2>3 DEF SInv, Grown
  <2>5. CASE packet = <<>>
    BY <1>3, <1>4, <1>7, <2>2, <2>4, <2>5 DEF Building, Built, SInv, Copied
  <2>6. CASE packet # <<>>
    <3>1. PICK d \in 0 .. shots : FollowsBy(d)
      BY <1>7, <2>6 DEF SInv, Copied
    <3>2. Len(packet) > 0
      BY <2>6 DEF TypeOK
    <3>3. FollowsBy(d + 1)' /\ d + 1 \in 0 .. shots'
      BY <1>2, <1>4, <2>1, <3>1, <3>2, ShotFollows
    <3>4. \E e \in 0 .. shots' : FollowsBy(e)'
      BY <3>3
    <3>. QED BY <1>3, <1>4, <1>7, <2>4, <2>6, <3>4 DEF Building, Built, SInv, Copied
  <2>. QED BY <2>5, <2>6
<1>. QED BY <1>5, <1>6, <1>7

\* The copy goes on from node to node.
LEMMA CopyFollows ==
    ASSUME TypeOK, Reads, SInv, CopyNode
    PROVE  SInv'
<1>1. /\ bpc = "copy" /\ current # NULL
      /\ packet' = Append(packet, current) /\ current' = NextNode(current)
      /\ UNCHANGED <<bullets, bpc, before, late, shots>>
  BY DEF CopyNode, list
<1>2. before # <<>>
  BY <1>1 DEF SInv, Copied, Building, Built
<1>3. /\ Len(bullets) \in Nat /\ Len(packet) \in Nat /\ Len(before) \in Nat \ {0} /\ shots \in Nat
      /\ Len(bullets) = Len(before) + shots /\ late \in Nat
      /\ hpc = "link" => shots + late > 0
  BY <1>1, <1>2 DEF Reads, Uncounted, TypeOK, Building, Built
<1>4. /\ Len(packet') = Len(packet) + 1
      /\ packet'[Len(packet) + 1] = current
      /\ \A k \in 1 .. Len(packet) : packet'[k] = packet[k]
      /\ packet' # <<>>
  <2>1. packet \in Seq(Nodes) /\ current \in Nodes
    BY <1>1 DEF TypeOK
  <2>. QED BY <1>1, <2>1
<1>5. \E d \in 0 .. shots : FollowsBy(d)'
  <2>1. CASE packet = <<>>
    <3>1. current = bullets[1] /\ Len(packet) = 0
      BY <1>1, <1>2, <2>1 DEF SInv, Copied, Building, Built
    <3>2. current' = IF 1 = Len(bullets) THEN NULL ELSE bullets[1 + 1]
      BY <1>1, <1>3, <3>1, NextNodeIs DEF SInv
    <3>3. current' = NULL <=> 1 = Len(bullets)
      BY <1>3, <3>2, NodesAreNotNull
    <3>4. FollowsBy(0)'
      BY <1>1, <1>3, <1>4, <3>1, <3>2, <3>3 DEF FollowsBy
    <3>. QED BY <1>3, <3>4
  <2>2. CASE packet # <<>>
    <3>1. PICK d \in 0 .. shots : FollowsBy(d)
      BY <1>1, <1>2, <2>2 DEF SInv, Copied, Building, Built
    <3>2. Len(packet) > 0
      BY <2>2 DEF TypeOK
    <3>3. Len(packet) + d < Len(bullets) /\ current = bullets[Len(packet) + d + 1]
      BY <1>1, <1>3, <3>1 DEF FollowsBy
    <3>. DEFINE p == Len(packet) + d + 1
    <3>4. p \in 1 .. Len(bullets)
      BY <1>3, <3>3
    <3>5. current' = IF p = Len(bullets) \/ (p = 2 /\ hpc = "link") THEN NULL ELSE bullets[p + 1]
      BY <1>1, <3>3, <3>4, NextNodeIs DEF SInv
    <3>6. \A k \in 2 .. Len(packet') : packet'[k] = bullets[k + d]
      <4>. SUFFICES ASSUME NEW k \in 2 .. Len(packet') PROVE packet'[k] = bullets[k + d]
        OBVIOUS
      <4>1. CASE k = Len(packet) + 1
        <5>1. k + d = p
          BY <1>3, <4>1
        <5>. QED BY <1>4, <3>3, <4>1, <5>1
      <4>2. CASE k # Len(packet) + 1
        <5>1. k \in 2 .. Len(packet)
          BY <1>3, <1>4, <4>2
        <5>. QED BY <1>3, <1>4, <3>1, <5>1 DEF FollowsBy
      <4>. QED BY <4>1, <4>2
    <3>7. packet'[1] = bullets[1]
      BY <1>3, <1>4, <3>1, <3>2 DEF FollowsBy
    <3>8. Len(packet') + d = p /\ Len(packet') + d + 1 = p + 1
      BY <1>3, <1>4
    <3>9. current' = NULL => p = Len(bullets) \/ (p = 2 /\ shots + late > 0)
      BY <1>3, <3>4, <3>5, NodesAreNotNull
    <3>10. current' # NULL => p < Len(bullets) /\ current' = bullets[p + 1]
      BY <1>3, <3>4, <3>5
    <3>11. p = 2 => Len(packet') = 2
      BY <1>3, <1>4, <3>2
    <3>. HIDE DEF p
    <3>12. FollowsBy(d)'
      BY <1>1, <1>3, <1>4, <3>4, <3>6, <3>7, <3>8, <3>9, <3>10, <3>11 DEF FollowsBy
    <3>. QED BY <3>12
  <2>. QED BY <2>1, <2>2
<1>6. Copied'
  BY <1>1, <1>2, <1>4, <1>5 DEF Copied, Building, Built
<1>7. Distinct(bullets') /\ Grown'
  BY <1>1 DEF SInv, Grown
<1>. QED BY <1>6, <1>7 DEF SInv

LEMMA SnapshotStep == IInv /\ SInv /\ [Next]_vars => SInv'
<1>. SUFFICES ASSUME IInv, SInv, [Next]_vars PROVE SInv'
  OBVIOUS
<1>. USE DEF Building, Built, list, spawners, snapshot
<1>1. ASSUME Shoot PROVE SInv'
  BY <1>1, ShotGrows DEF IInv
<1>2. ASSUME SpawnOne PROVE SInv'
  <2>1. Distinct(bullets')
    BY <1>2, AddDistinct DEF SpawnOne, IInv, SInv
  <2>. QED BY <1>2, <2>1 DEF SpawnOne, SInv, Grown, Copied
<1>3. ASSUME MoveDead PROVE SInv'
  <2>1. Distinct(bullets')
    BY <1>3, RemoveDistinct DEF MoveDead, IInv, TypeOK, SInv
  <2>. QED BY <1>3, <2>1 DEF MoveDead, SInv, Grown, Copied
<1>4. ASSUME ReadHead PROVE SInv'
  <2>1. before' = bullets /\ bullets' = bullets /\ packet' = <<>> /\ shots' = 0 /\ bpc' = "size"
    BY <1>4 DEF ReadHead
  <2>2. current' = IF bullets = <<>> THEN NULL ELSE bullets[1]
    BY <1>4 DEF ReadHead, IInv, TypeOK
  <2>3. \A k \in 2 .. Len(bullets) : bullets[k + 0] = bullets[k]
    BY DEF IInv, TypeOK
  <2>. QED BY <2>1, <2>2, <2>3 DEF SInv, Grown, Copied
<1>5. ASSUME CopyNode PROVE SInv'
  BY <1>5, CopyFollows DEF IInv
<1>6. ASSUME CopyOverrun PROVE SInv'
  <2>1. /\ bpc = "copy" /\ current # NULL /\ Len(packet) + 1 >= array_size
        /\ UNCHANGED <<bullets, late, shots>> /\ bpc' = "undefined"
    BY <1>6 DEF CopyOverrun
  <2>2. before # <<>>
    BY <2>1 DEF SInv, Copied
  <2>3. /\ Len(before) \in Nat \ {0} /\ Len(packet) \in Nat /\ shots \in Nat /\ late \in Nat
        /\ array_size \in Nat /\ Len(bullets) = Len(before) + shots
        /\ Len(before) - late <= array_size - 1
    BY <2>1, <2>2 DEF IInv, Reads, TypeOK
  <2>4. shots + late > 0
    <3>1. CASE packet = <<>>
      BY <2>1, <2>3, <3>1
    <3>2. CASE packet # <<>>
      <4>1. PICK d \in 0 .. shots : FollowsBy(d)
        BY <2>1, <2>2, <3>2 DEF SInv, Copied
      <4>2. Len(packet) + d < Len(before) + shots
        BY <2>1, <2>3, <4>1 DEF FollowsBy
      <4>. QED BY <2>1, <2>3, <4>2
    <3>. QED BY <3>1, <3>2
  <2>. QED BY <2>1, <2>4 DEF SInv, Grown, Copied
<1>7. ASSUME BeginMove \/ BeginSpawn \/ SpawnDone \/ MoveAlive \/ MoveDone \/ Withhold \/ Sent PROVE SInv'
  BY <1>7 DEF BeginMove, BeginSpawn, SpawnDone, MoveAlive, MoveDone, Withhold, Sent, SInv, Grown, Copied
<1>8. ASSUME ReadSize \/ ReadHeader \/ CopyDone \/ Checked \/ BeginSend PROVE SInv'
  <2>1. /\ bpc \in Building /\ bpc' \in Building
        /\ UNCHANGED <<bullets, before, late, shots, packet, current>>
    BY <1>8 DEF ReadSize, ReadHeader, CopyDone, Checked, BeginSend
  <2>2. bpc' \in Built => current = NULL
    BY <1>8 DEF ReadSize, ReadHeader, CopyDone, Checked, BeginSend, SInv, Copied
  <2>3. Grown' /\ Distinct(bullets')
    BY <2>1 DEF SInv, Grown
  <2>4. ASSUME NEW d \in 0 .. shots, FollowsBy(d) PROVE FollowsBy(d)'
    BY <2>1, <2>4 DEF FollowsBy
  <2>5. before # <<>> /\ packet # <<>> => \E d \in 0 .. shots : FollowsBy(d)'
    BY <2>1, <2>4 DEF SInv, Copied
  <2>. QED BY <2>1, <2>2, <2>3, <2>5 DEF SInv, Copied
<1>9. ASSUME ShootLink \/ ShootCount \/ Terminal \/ UNCHANGED vars PROVE SInv'
  <2>1. UNCHANGED <<bullets, bpc, before, late, shots, packet, current>>
    BY <1>9 DEF ShootLink, ShootCount, Terminal, vars
  <2>2. Grown' /\ Distinct(bullets')
    BY <2>1 DEF SInv, Grown
  <2>3. ASSUME NEW d \in 0 .. shots, FollowsBy(d) PROVE FollowsBy(d)'
    BY <2>1, <2>3 DEF FollowsBy
  <2>4. Copied'
    BY <2>1, <2>3 DEF SInv, Copied
  <2>. QED BY <2>2, <2>4 DEF SInv
<1>. QED BY <1>1, <1>2, <1>3, <1>4, <1>5, <1>6, <1>7, <1>8, <1>9 DEF Next, Handler, BroadcastBullets

LEMMA SnapshotInvariant == Spec => []SInv
<1>1. Init => SInv
  BY DEF Init, SInv, Distinct, Grown, Copied, Building, Built
<1>. QED BY Invariant, <1>1, SnapshotStep, PTL DEF Spec

\* When the copy is done, it has come to the end of the list, or to a bullet behind
\* the head that was not linked on.
LEMMA CopyIsDone ==
    ASSUME IInv, SInv, bpc \in Built, before # <<>>
    PROVE  /\ packet # <<>>
           /\ \E d \in 0 .. shots :
                 /\ FollowsBy(d)
                 /\ Len(packet) + d = Len(bullets) \/ (Len(packet) = 2 /\ shots + late > 0)
<1>1. current = NULL /\ bpc \in Building
  BY DEF SInv, Copied, Building
<1>2. /\ Len(before) \in Nat \ {0} /\ Len(bullets) \in Nat /\ shots \in Nat
      /\ Len(bullets) = Len(before) + shots
  BY <1>1 DEF IInv, Reads, TypeOK
<1>3. packet # <<>>
  <2>. SUFFICES ASSUME packet = <<>> PROVE FALSE
    OBVIOUS
  <2>1. bullets[1] = NULL
    BY <1>1 DEF SInv, Copied
  <2>. QED BY <1>2, <2>1, NodesAreNotNull DEF IInv
<1>4. PICK d \in 0 .. shots : FollowsBy(d)
  BY <1>1, <1>3 DEF SInv, Copied
<1>. QED BY <1>1, <1>3, <1>4 DEF FollowsBy

LEMMA WholeSnapshot == IInv /\ SInv => SnapshotComplete
<1>. SUFFICES ASSUME IInv, SInv, bpc \in Built
              PROVE  /\ \/ Elements(before) \subseteq Elements(packet)
                        \/ Len(packet) = 2 /\ shots + late > 0
                     /\ Elements(packet) \subseteq Elements(bullets)
                     /\ \A m, n \in DOMAIN packet : m < n =>
                           \E p, q \in DOMAIN bullets :
                               p < q /\ bullets[p] = packet[m] /\ bullets[q] = packet[n]
  BY DEF SnapshotComplete
<1>1. CASE before = <<>>
  <2>1. packet = <<>>
    BY <1>1 DEF SInv, Copied, Building
  <2>. QED BY <1>1, <2>1 DEF Elements
<1>2. CASE before # <<>>
  <2>1. bpc \in Building
    BY DEF Building
  <2>2. /\ Len(before) \in Nat \ {0} /\ Len(packet) \in Nat /\ Len(bullets) \in Nat /\ shots \in Nat
        /\ Len(bullets) = Len(before) + shots
        /\ DOMAIN before = 1 .. Len(before) /\ DOMAIN packet = 1 .. Len(packet)
        /\ DOMAIN bullets = 1 .. Len(bullets)
    BY <1>2, <2>1 DEF IInv, Reads, TypeOK
  <2>3. packet # <<>>
    BY <1>2, CopyIsDone
  <2>4. PICK d \in 0 .. shots :
           /\ FollowsBy(d)
           /\ Len(packet) + d = Len(bullets) \/ (Len(packet) = 2 /\ shots + late > 0)
    BY <1>2, CopyIsDone
  <2>5. Len(packet) > 0
    BY <2>3 DEF IInv, TypeOK
  <2>6. /\ packet[1] = bullets[1] /\ \A k \in 2 .. Len(packet) : packet[k] = bullets[k + d]
        /\ Len(packet) + d <= Len(bullets)
    BY <2>4 DEF FollowsBy
  <2>7. bullets[1] = before[1] /\ \A k \in 2 .. Len(before) : bullets[k + shots] = before[k]
    BY <1>2, <2>1 DEF SInv, Grown
  <2>8. ASSUME Len(packet) + d = Len(bullets), NEW k \in 1 .. Len(before)
        PROVE  \E m \in 1 .. Len(packet) : packet[m] = before[k]
    <3>1. CASE k = 1
      BY <2>2, <2>5, <2>6, <2>7, <3>1
    <3>2. CASE k # 1
      <4>1. k + shots - d \in 2 .. Len(packet) /\ (k + shots - d) + d = k + shots /\ k \in 2 .. Len(before)
        BY <2>2, <2>8, <3>2
      <4>. QED BY <2>6, <2>7, <4>1
    <3>. QED BY <3>1, <3>2
  <2>. DEFINE At(m) == IF m = 1 THEN 1 ELSE m + d
  <2>9. ASSUME NEW m \in 1 .. Len(packet) PROVE At(m) \in 1 .. Len(bullets) /\ bullets[At(m)] = packet[m]
    BY <2>2, <2>6
  <2>10. ASSUME NEW m \in 1 .. Len(packet), NEW n \in 1 .. Len(packet), m < n PROVE At(m) < At(n)
    BY <2>2, <2>10
  <2>. HIDE DEF At
  <2>11. Len(packet) + d = Len(bullets) => Elements(before) \subseteq Elements(packet)
    BY <2>2, <2>8 DEF Elements
  <2>12. Elements(packet) \subseteq Elements(bullets)
    BY <2>2, <2>9 DEF Elements
  <2>13. ASSUME NEW m \in DOMAIN packet, NEW n \in DOMAIN packet, m < n
         PROVE  \E p, q \in DOMAIN bullets : p < q /\ bullets[p] = packet[m] /\ bullets[q] = packet[n]
    BY <2>2, <2>9, <2>10, <2>13
  <2>. QED BY <2>4, <2>11, <2>12, <2>13
<1>. QED BY <1>1, <1>2

LEMMA NoMoreSkew == IInv /\ SInv => SkewIsByShots
<1>. SUFFICES ASSUME IInv, SInv PROVE SkewIsByShots
  OBVIOUS
<1>1. bpc = "undefined" => shots + late > 0
  BY DEF SInv, Copied
<1>2. ASSUME bpc \in Built
      PROVE  /\ Len(before) - late <= array_size - 1
             /\ array_size - 1 <= header_id
             /\ header_id <= Len(before) + shots
             /\ Len(packet) <= array_size - 1
             /\ shots + late = 0 => Len(packet) = header_id
  <2>1. /\ Len(bullets) = Len(before) + shots /\ bullets_count <= Len(bullets)
        /\ Len(before) - late <= array_size - 1
        /\ Len(packet) <= array_size - 1
        /\ array_size - 1 <= header_id /\ header_id <= bullets_count
    BY <1>2 DEF IInv, Reads, CountIsLength, Uncounted, TypeOK, Building, Built
  <2>2. /\ Len(before) \in Nat /\ Len(packet) \in Nat /\ shots \in Nat /\ late \in Nat
        /\ bullets_count \in Nat /\ header_id \in Nat /\ array_size \in Nat
    BY DEF IInv, TypeOK
  <2>3. ASSUME shots + late = 0 PROVE Len(packet) = Len(before)
    <3>1. CASE before = <<>>
      BY <1>2, <3>1 DEF SInv, Copied, Building
    <3>2. CASE before # <<>>
      <4>1. PICK d \in 0 .. shots : Len(packet) + d = Len(bullets)
        BY <1>2, <2>2, <2>3, <3>2, CopyIsDone
      <4>. QED BY <2>1, <2>2, <2>3, <4>1
    <3>. QED BY <3>1, <3>2
  <2>. QED BY <2>1, <2>2, <2>3
<1>. QED BY <1>1, <1>2 DEF SkewIsByShots

\* What is sent is the list as it was when its head was read, with some of the
\* bullets shot since, in the order of the list, however many there are; unless the
\* copy met a bullet not yet linked on: then it is the head and that bullet.
THEOREM SnapshotsAreComplete == Spec => []SnapshotComplete
BY Invariant, SnapshotInvariant, WholeSnapshot, PTL

\* The sizes read at three times differ by no more than the shots that were under
\* way at the start or began since, and without any they are one.
THEOREM SkewsAreByShots == Spec => []SkewIsByShots
BY Invariant, SnapshotInvariant, NoMoreSkew, PTL
=============================================================================
