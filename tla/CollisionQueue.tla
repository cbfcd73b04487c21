--------------------------- MODULE CollisionQueue ---------------------------
(***************************************************************************)
(* The ring buffer of src/collision_queue.c, in which the client's render  *)
(* thread keeps the collisions it is drawing.  Each frame first ages them  *)
(* (update_timers), taking every entry out and putting those still running *)
(* back in behind the rest, and then, unless the bullets are just being    *)
(* received, enters the new ones (draw_players).                           *)
(*                                                                         *)
(* Time is counted in ticks; the place of an effect is part of its kind.   *)
(***************************************************************************)
EXTENDS Integers, Sequences, EffectTimers

CONSTANTS
    MAX_COLLISION_COUNT,
    Kinds,
    AnimTime,     \* PLAYER_ and BULLET_COLLISION_ANIM_TIME, which are equal
    Deltas,       \* the values of delta_time
    NoKind        \* what the zeroed array holds

ASSUME QueueAssumption ==
    /\ MAX_COLLISION_COUNT \in Nat \ {0}
    /\ AnimTime \in Nat \ {0}
    /\ Deltas \subseteq Nat

VARIABLES
    data, front, rear, size,   \* the fields of CollisionQueue
    pc,
    todo,                      \* count - i, in update_collision_queue
    delta_time

vars == <<data, front, rear, size, pc, todo, delta_time>>

Places == 0 .. MAX_COLLISION_COUNT - 1

NextPlace(p) == (p + 1) % MAX_COLLISION_COUNT

\* Mutation: a full queue takes one more.
enqueue_unchecked(info, held) ==
    /\ rear' = NextPlace(rear)
    /\ data' = [data EXCEPT ![NextPlace(rear)] = info]
    /\ size' = held + 1

\* enqueue_collision into a queue that holds `held` entries.
enqueue_collision(info, held) ==
    \/ /\ held < MAX_COLLISION_COUNT
       /\ rear' = NextPlace(rear)
       /\ data' = [data EXCEPT ![NextPlace(rear)] = info]
       /\ size' = held + 1
    \/ /\ held >= MAX_COLLISION_COUNT
       /\ size' = held
       /\ UNCHANGED <<data, rear>>

\* Mutation: one turn too many.
BeginUpdateLong ==
    /\ pc = "frame"
    /\ delta_time' \in Deltas
    /\ todo' = size + 1
    /\ pc' = "aging"
    /\ UNCHANGED <<data, front, rear, size>>

BeginUpdate ==
    /\ pc = "frame"
    /\ delta_time' \in Deltas
    /\ todo' = size
    /\ pc' = "aging"
    /\ UNCHANGED <<data, front, rear, size>>

Aged(e) == [e EXCEPT !.timer = @ - delta_time]

\* Mutation: it is put back as it was.
AgeRunningUnaged ==
    /\ pc = "aging" /\ todo > 0
    /\ size > 0
    /\ Aged(data[front]).timer > 0
    /\ front' = NextPlace(front)
    /\ enqueue_collision(data[front], size - 1)
    /\ todo' = todo - 1
    /\ UNCHANGED <<pc, delta_time>>

\* A turn of the loop: dequeue_collision, and enqueue_collision where it still runs.
AgeRunning ==
    /\ pc = "aging" /\ todo > 0
    /\ size > 0
    /\ Aged(data[front]).timer > 0
    /\ front' = NextPlace(front)
    /\ enqueue_collision(Aged(data[front]), size - 1)
    /\ todo' = todo - 1
    /\ UNCHANGED <<pc, delta_time>>

\* Mutation: the entry is left in.
AgeOverKept ==
    /\ pc = "aging" /\ todo > 0
    /\ size > 0
    /\ Aged(data[front]).timer <= 0
    /\ size' = size - 1
    /\ todo' = todo - 1
    /\ UNCHANGED <<data, front, rear, pc, delta_time>>

AgeOver ==
    /\ pc = "aging" /\ todo > 0
    /\ size > 0
    /\ Aged(data[front]).timer <= 0
    /\ front' = NextPlace(front)
    /\ size' = size - 1
    /\ todo' = todo - 1
    /\ UNCHANGED <<data, rear, pc, delta_time>>

\* is_update_locked may end the frame here.
EndUpdate ==
    /\ pc = "aging" /\ todo = 0
    /\ pc' \in {"frame", "draw"}
    /\ delta_time' = 0
    /\ UNCHANGED <<data, front, rear, size, todo>>

\* draw_players enters a collision it sees in a collision_byte.
Collide ==
    /\ pc = "draw"
    /\ \E k \in Kinds : enqueue_collision([kind |-> k, timer |-> AnimTime], size)
    /\ UNCHANGED <<front, pc, todo, delta_time>>

EndDraw ==
    /\ pc = "draw"
    /\ pc' = "frame"
    /\ UNCHANGED <<data, front, rear, size, todo, delta_time>>

init_collision_queue ==
    /\ front = 0
    /\ rear = -1
    /\ size = 0

Init ==
    /\ data = [p \in Places |-> [kind |-> NoKind, timer |-> 0]]
    /\ init_collision_queue
    /\ pc = "frame"
    /\ todo = 0
    /\ delta_time = 0

Next ==
    \/ BeginUpdate \/ AgeRunning \/ AgeOver \/ EndUpdate
    \/ Collide \/ EndDraw

Spec == Init /\ [][Next]_vars

-----------------------------------------------------------------------------
(* Properties.                                                             *)

Entry == [kind : Kinds \cup {NoKind}, timer : 0 .. AnimTime]

\* Every variable has its type: no index leaves the ring and no more entries are
\* counted than it has.
TypeOK ==
    /\ data \in [Places -> Entry]
    /\ front \in Places
    /\ rear \in Places \cup {-1}
    /\ size \in 0 .. MAX_COLLISION_COUNT
    /\ pc \in {"frame", "aging", "draw"}
    /\ todo \in 0 .. MAX_COLLISION_COUNT
    /\ delta_time \in Deltas \cup {0}

\* front, rear and size are three accounts of one thing: as many places as size
\* says lie between front and rear, through any number of turns round the ring
\* and refused entries, and also in the middle of an update.
RingConsistent == (rear + 1) % MAX_COLLISION_COUNT = (front + size) % MAX_COLLISION_COUNT

\* update_collision_queue ignores the result of dequeue_collision, which leaves
\* info unset when the queue is empty: there is an entry for each of its turns.
NeverEmptyHanded == pc = "aging" => todo <= size

\* The entries, from front.
Contents == [n \in 1 .. size |-> data[(front + n - 1) % MAX_COLLISION_COUNT]]

\* The effects as they are once the update is over: those that have been put
\* back, and behind them those of the others that will be.
Settled ==
    SubSeq(Contents, todo + 1, size) \o Later(SubSeq(Contents, 1, todo), delta_time)

Effects == INSTANCE CollisionEffects WITH
               Capacity <- MAX_COLLISION_COUNT, effects <- Settled

\* The ring implements the list of running effects: an update in mid-loop is
\* the list after it, nothing is lost for want of room while it is put back,
\* and what has run out is never seen again.
ImplementsEffects == Effects!Spec
=============================================================================
