----------------------------- MODULE BulletList -----------------------------
(***************************************************************************)
(* The server's list of bullets (src/server/server.c and                   *)
(* bullet_hell_mode.c): handler threads add the bullets their clients      *)
(* shoot; the broadcast thread spawns, moves and removes bullets, and then *)
(* copies the list into a packet; the terminal thread switches the vortex  *)
(* spawners.                                                               *)
(*                                                                         *)
(* bullets_mutex is held while bullets are added, moved and sent, but not  *)
(* while the packet is built: the head, the count (three times) and the    *)
(* links are each read by a step of its own.  These may come between the   *)
(* stores of a handler that adds a bullet.  Stores are seen in the order   *)
(* of the program.  Where a bullet flies and what it hits is not in this   *)
(* module: any bullet may die in any tick.                                 *)
(***************************************************************************)
EXTENDS Integers, Sequences

CONSTANTS
    Nodes,                  \* what malloc can return for a BulletNode
    MAX_BULLETS_PER_BUFFER,
    Margin,                 \* the 256 of MAX_BULLETS_ALLOWED
    SizeModulus,            \* one more than the largest size_t
    MAX_VORTEX_SPAWNERS,
    NULL

ASSUME BulletListAssumption ==
    /\ MAX_BULLETS_PER_BUFFER \in Nat \ {0}
    /\ Margin \in Nat
    /\ SizeModulus \in Nat \ {0}
    /\ MAX_VORTEX_SPAWNERS \in Nat \ {0}
    /\ NULL \notin Nodes

VARIABLES
    bullets,        \* the nodes of the list, from head; but see NextNode
    bullets_count,
    hpc,            \* the handler that is in add_bullet, with bullets_mutex
    spawn_vortex_bullets,
    spawner_count,
    \* the broadcast thread
    bpc,
    i,              \* the spawner of spawn, or the node of update_bullets
    current,        \* the node broadcast_bullets is to copy next
    array_size,     \* of readyBullets
    header_id,      \* readyBullets[0].id: how many bullets the packet says follow
    packet,         \* the nodes copied so far, from readyBullets[1]
    \* history
    before,         \* the list when broadcast_bullets read its head
    late,           \* 1 if its newest bullet had not been counted by then
    shots           \* the bullets linked since

list      == <<bullets, bullets_count, hpc>>
spawners  == <<spawn_vortex_bullets, spawner_count>>
snapshot  == <<current, array_size, header_id, packet, before, late>>
vars      == <<list, spawners, bpc, i, snapshot, shots>>

Elements(s) == {s[n] : n \in DOMAIN s}

\* MAX_BULLETS_PER_BUFFER - 256 is computed as a size_t.
MAX_BULLETS_ALLOWED == (MAX_BULLETS_PER_BUFFER - Margin) % SizeModulus

-----------------------------------------------------------------------------
(* add_bullet, by a handler or by spawn.                                   *)

\* Mutation: the new node is not linked to the rest of the list.
InsertUnlinked(s, n) == IF s = <<>> THEN <<n>> ELSE <<Head(s), n>>

\* A new node goes in behind the head.
Insert(s, n) == IF s = <<>> THEN <<n>> ELSE <<Head(s), n>> \o Tail(s)

CanAdd == bullets_count <= MAX_BULLETS_ALLOWED /\ Elements(bullets) # Nodes

\* The broadcast thread holds bullets_mutex.
Locked == bpc \in {"spawn", "move", "send"}

\* By spawn, all at once: whoever reads the list without the mutex is this thread.
add_bullet(n) ==
    /\ CanAdd
    /\ n \in Nodes \ Elements(bullets)
    /\ bullets' = Insert(bullets, n)
    /\ bullets_count' = bullets_count + 1
    /\ UNCHANGED hpc

\* A client shoots: head->next = new_node, or head = new_node.
Shoot ==
    /\ bpc # "undefined" /\ ~Locked
    /\ hpc = "idle"
    /\ CanAdd
    /\ \E n \in Nodes \ Elements(bullets) : bullets' = Insert(bullets, n)
    /\ hpc' = IF bullets = <<>> THEN "count" ELSE "link"
    /\ shots' = shots + 1
    /\ UNCHANGED <<bullets_count, spawners, bpc, i, snapshot>>

\* new_node->next = next
ShootLink ==
    /\ bpc # "undefined"
    /\ hpc = "link"
    /\ hpc' = "count"
    /\ UNCHANGED <<bullets, bullets_count, spawners, bpc, i, snapshot, shots>>

\* bullets_count += 1, and the mutex is free.
ShootCount ==
    /\ bpc # "undefined"
    /\ hpc = "count"
    /\ bullets_count' = bullets_count + 1
    /\ hpc' = "idle"
    /\ UNCHANGED <<bullets, spawners, bpc, i, snapshot, shots>>

-----------------------------------------------------------------------------
(* update_bullets, under bullets_mutex.                                    *)

\* update_bullet_vortex finds the spawners off, or its delay not yet over.
BeginMove ==
    /\ bpc = "update"
    /\ hpc = "idle"
    /\ bpc' = "move" /\ i' = 1
    /\ UNCHANGED <<list, spawners, snapshot, shots>>

BeginSpawn ==
    /\ bpc = "update"
    /\ hpc = "idle"
    /\ spawn_vortex_bullets
    /\ bpc' = "spawn" /\ i' = 0
    /\ UNCHANGED <<list, spawners, snapshot, shots>>

\* spawn: a bullet from each spawner, as far as add_bullet takes them.
SpawnOne ==
    /\ bpc = "spawn"
    /\ i < spawner_count
    /\ \/ \E n \in Nodes : add_bullet(n)
       \/ ~CanAdd /\ UNCHANGED list
    /\ i' = i + 1
    /\ UNCHANGED <<spawners, bpc, snapshot, shots>>

SpawnDone ==
    /\ bpc = "spawn"
    /\ i >= spawner_count
    /\ bpc' = "move" /\ i' = 1
    /\ UNCHANGED <<list, spawners, snapshot, shots>>

MoveAlive ==
    /\ bpc = "move"
    /\ i \in DOMAIN bullets
    /\ i' = i + 1
    /\ UNCHANGED <<list, spawners, bpc, snapshot, shots>>

RemoveAt(s, n) == SubSeq(s, 1, n - 1) \o SubSeq(s, n + 1, Len(s))

\* Mutation: the count is not lowered.
MoveDeadUncounted ==
    /\ bpc = "move"
    /\ i \in DOMAIN bullets
    /\ bullets' = RemoveAt(bullets, i)
    /\ UNCHANGED <<bullets_count, hpc, spawners, bpc, i, snapshot, shots>>

MoveDead ==
    /\ bpc = "move"
    /\ i \in DOMAIN bullets
    /\ bullets' = RemoveAt(bullets, i)
    /\ bullets_count' = bullets_count - 1
    /\ UNCHANGED <<hpc, spawners, bpc, i, snapshot, shots>>

MoveDone ==
    /\ bpc = "move"
    /\ i \notin DOMAIN bullets
    /\ bpc' = "head"
    /\ UNCHANGED <<list, spawners, i, snapshot, shots>>

-----------------------------------------------------------------------------
(* broadcast_bullets, without bullets_mutex until it sends.                *)

ReadHead ==
    /\ bpc = "head"
    /\ current' = IF bullets = <<>> THEN NULL ELSE Head(bullets)
    /\ before' = bullets
    /\ late' = IF hpc = "idle" THEN 0 ELSE 1
    /\ shots' = 0
    /\ packet' = <<>>
    /\ bpc' = "size"
    /\ UNCHANGED <<list, spawners, i, array_size, header_id>>

ReadSize ==
    /\ bpc = "size"
    /\ array_size' = bullets_count + 1
    /\ bpc' = "header"
    /\ UNCHANGED <<list, spawners, i, current, header_id, packet, before, late, shots>>

ReadHeader ==
    /\ bpc = "header"
    /\ header_id' = bullets_count
    /\ bpc' = "copy"
    /\ UNCHANGED <<list, spawners, i, current, array_size, packet, before, late, shots>>

\* current->next: the node behind the head has no next one until it is linked on.
NextNode(n) ==
    LET p == CHOOSE q \in DOMAIN bullets : bullets[q] = n
    IN  IF p = Len(bullets) \/ (p = 2 /\ hpc = "link") THEN NULL ELSE bullets[p + 1]

\* Mutation: the loop stops at the last node.
CopyNodeButLast ==
    /\ bpc = "copy"
    /\ current # NULL
    /\ current' = NextNode(current)
    /\ packet' = IF NextNode(current) = NULL THEN packet ELSE Append(packet, current)
    /\ UNCHANGED <<list, spawners, bpc, i, array_size, header_id, before, late, shots>>

CopyNode ==
    /\ bpc = "copy"
    /\ current # NULL
    /\ Len(packet) + 1 < array_size
    /\ packet' = Append(packet, current)
    /\ current' = NextNode(current)
    /\ UNCHANGED <<list, spawners, bpc, i, array_size, header_id, before, late, shots>>

\* A copy behind the end of the array: nothing is known of the process from here.
CopyOverrun ==
    /\ bpc = "copy"
    /\ current # NULL
    /\ Len(packet) + 1 >= array_size
    /\ bpc' = "undefined"
    /\ UNCHANGED <<list, spawners, i, snapshot, shots>>

CopyDone ==
    /\ bpc = "copy"
    /\ current = NULL
    /\ bpc' = "check"
    /\ UNCHANGED <<list, spawners, i, snapshot, shots>>

\* "bullets can overflow the buffer, how did we get there?"
Withhold ==
    /\ bpc = "check"
    /\ bullets_count > MAX_BULLETS_PER_BUFFER
    /\ bpc' = "update"
    /\ UNCHANGED <<list, spawners, i, snapshot, shots>>

\* Mutation: everything is sent.
CheckedNever ==
    /\ bpc = "check"
    /\ bpc' = "lock"
    /\ UNCHANGED <<list, spawners, i, snapshot, shots>>

Checked ==
    /\ bpc = "check"
    /\ bullets_count <= MAX_BULLETS_PER_BUFFER
    /\ bpc' = "lock"
    /\ UNCHANGED <<list, spawners, i, snapshot, shots>>

BeginSend ==
    /\ bpc = "lock"
    /\ hpc = "idle"
    /\ bpc' = "send"
    /\ UNCHANGED <<list, spawners, i, snapshot, shots>>

Sent ==
    /\ bpc = "send"
    /\ bpc' = "update"
    /\ UNCHANGED <<list, spawners, i, snapshot, shots>>

-----------------------------------------------------------------------------
(* terminal_input_handler, which takes no mutex.                           *)

chaos   == spawn_vortex_bullets' = TRUE /\ UNCHANGED spawner_count
nochaos == spawn_vortex_bullets' = FALSE /\ UNCHANGED spawner_count

\* Mutation: one spawner too many.
add_vortex_off_by_one ==
    /\ spawner_count <= MAX_VORTEX_SPAWNERS
    /\ spawner_count' = spawner_count + 1
    /\ UNCHANGED spawn_vortex_bullets

add_vortex ==
    /\ spawner_count < MAX_VORTEX_SPAWNERS
    /\ spawner_count' = spawner_count + 1
    /\ UNCHANGED spawn_vortex_bullets

remove_vortex ==
    /\ spawner_count > 0
    /\ spawner_count' = spawner_count - 1
    /\ UNCHANGED spawn_vortex_bullets

Terminal ==
    /\ bpc # "undefined"
    /\ chaos \/ nochaos \/ add_vortex \/ remove_vortex
    /\ UNCHANGED <<list, bpc, i, snapshot, shots>>

-----------------------------------------------------------------------------

Init ==
    /\ bullets = <<>>
    /\ bullets_count = 0
    /\ hpc = "idle"
    /\ spawn_vortex_bullets = FALSE
    /\ spawner_count = 1
    /\ bpc = "update"
    /\ i = 0
    /\ current = NULL
    /\ array_size = 0
    /\ header_id = 0
    /\ packet = <<>>
    /\ before = <<>>
    /\ late = 0
    /\ shots = 0

BroadcastBullets ==
    \/ BeginMove \/ BeginSpawn \/ SpawnOne \/ SpawnDone
    \/ MoveAlive \/ MoveDead \/ MoveDone
    \/ ReadHead \/ ReadSize \/ ReadHeader \/ CopyNode \/ CopyOverrun \/ CopyDone
    \/ Withhold \/ Checked \/ BeginSend \/ Sent

Handler == Shoot \/ ShootLink \/ ShootCount

Next == Handler \/ BroadcastBullets \/ Terminal

Spec == Init /\ [][Next]_vars
-----------------------------------------------------------------------------
(* Properties.                                                             *)

Built    == {"check", "lock", "send"}
Building == {"size", "header", "copy"} \cup Built

\* The bullet that is in the list but not yet in the count.
Uncounted == IF hpc = "idle" THEN 0 ELSE 1

\* Every variable has its type: there are no more spawners than spawn has room for.
TypeOK ==
    /\ bullets \in Seq(Nodes)
    /\ bullets_count \in Nat
    /\ hpc \in {"idle", "link", "count"}
    /\ spawn_vortex_bullets \in BOOLEAN
    /\ spawner_count \in 0 .. MAX_VORTEX_SPAWNERS
    /\ bpc \in {"update", "spawn", "move", "head", "undefined"} \cup Building
    /\ i \in Nat
    /\ current \in Nodes \cup {NULL}
    /\ array_size \in Nat
    /\ header_id \in Nat
    /\ packet \in Seq(Nodes)
    /\ before \in Seq(Nodes)
    /\ late \in {0, 1}
    /\ shots \in Nat

\* The count, which sizes the packet, is the length of the list whatever mix of
\* shots, spawns and deaths there has been, also while update_bullets runs, but for
\* the one bullet that a handler has linked and not yet counted.  Who has
\* bullets_mutex otherwise finds it exact.
CountIsLength ==
    /\ bullets_count = Len(bullets) - Uncounted
    /\ Locked => bullets_count = Len(bullets)

\* The packet is built from a list that grows meanwhile.  What it has is live
\* bullets only, each once, in the order of the list, so that no freed node is
\* followed; and it has all that there were at the start, or else just two: the
\* head and a shot behind it, which was not linked on when the copy came there.
SnapshotComplete ==
    bpc \in Built =>
        /\ \/ Elements(before) \subseteq Elements(packet)
           \/ Len(packet) = 2 /\ shots + late > 0
        /\ Elements(packet) \subseteq Elements(bullets)
        /\ \A m, n \in DOMAIN packet : m < n =>
              \E p, q \in DOMAIN bullets :
                  p < q /\ bullets[p] = packet[m] /\ bullets[q] = packet[n]

\* The array, the count in its header and the records in it are read at three
\* times.  The sizes never fall short of the bullets there were, but for the one
\* not yet counted, nor exceed them by more than the shots since; and only a shot
\* under way at the start, or since, makes them differ or overruns the array.
SkewIsByShots ==
    /\ bpc \in Built =>
          /\ Len(before) - late <= array_size - 1
          /\ array_size - 1 <= header_id
          /\ header_id <= Len(before) + shots
          /\ Len(packet) <= array_size - 1
          /\ shots + late = 0 => Len(packet) = header_id
    /\ bpc = "undefined" => shots + late > 0

\* The check of the count comes last, after the array has been sized by an
\* earlier read of it: what is sent still has no more records than the check
\* allows, and its header counts no more.
SentPacketBounded ==
    bpc = "send" => /\ array_size <= MAX_BULLETS_PER_BUFFER + 1
                    /\ header_id <= MAX_BULLETS_PER_BUFFER
=============================================================================
