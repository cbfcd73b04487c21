----------------------- MODULE CollisionQueue_proofs -----------------------
(***************************************************************************)
(* Proofs about CollisionQueue, for a ring of any size and any lengths of  *)
(* an effect and of a frame.                                               *)
(***************************************************************************)
EXTENDS CollisionQueue, SequenceTheorems, WellFoundedInduction, TLAPS

\* Between the updates there is nothing left to age.
NothingLeft == pc # "aging" => todo = 0

IInv == TypeOK /\ RingConsistent /\ NeverEmptyHanded /\ NothingLeft

\* A number reduced modulo the size of the ring.
LEMMA ModFacts ==
    ASSUME NEW m \in Nat \ {0}, NEW a \in 0 .. m - 1
    PROVE  a % m = a /\ (a + m) % m = a
OBVIOUS

LEMMA ModTwice ==
    ASSUME NEW m \in Nat \ {0}, NEW a \in 0 .. 2 * m - 1
    PROVE  /\ a % m \in 0 .. m - 1
           /\ a % m = IF a < m THEN a ELSE a - m
<1>1. CASE a < m
  BY <1>1, ModFacts
<1>2. CASE ~(a < m)
  <2>1. a - m \in 0 .. m - 1 /\ (a - m) + m = a
    BY <1>2
  <2>2. ((a - m) + m) % m = a - m
    BY <2>1, ModFacts
  <2>. QED BY <1>2, <2>1, <2>2
<1>. QED BY <1>1, <1>2

LEMMA NextPlaceType ==
    ASSUME NEW p \in Places \cup {-1}
    PROVE  NextPlace(p) \in Places /\ NextPlace(p) = (IF p + 1 < MAX_COLLISION_COUNT THEN p + 1 ELSE 0)
<1>1. p + 1 \in 0 .. MAX_COLLISION_COUNT
  BY QueueAssumption DEF Places
<1>2. p + 1 \in 0 .. 2 * MAX_COLLISION_COUNT - 1
  BY <1>1, QueueAssumption
<1>3. NextPlace(p) = (IF p + 1 < MAX_COLLISION_COUNT THEN p + 1 ELSE p + 1 - MAX_COLLISION_COUNT)
  <2>1. PICK q \in 0 .. 2 * MAX_COLLISION_COUNT - 1 : q = p + 1
    BY <1>2
  <2>2. q % MAX_COLLISION_COUNT = IF q < MAX_COLLISION_COUNT THEN q ELSE q - MAX_COLLISION_COUNT
    BY QueueAssumption, ModTwice
  <2>. QED BY <2>1, <2>2, QueueAssumption DEF NextPlace, Places
<1>. QED BY <1>1, <1>3, QueueAssumption DEF Places

\* RingConsistent without remainders.
LEMMA RingAsCases ==
    ASSUME NEW r \in Places \cup {-1}, NEW f \in Places, NEW s \in 0 .. MAX_COLLISION_COUNT
    PROVE  (r + 1) % MAX_COLLISION_COUNT = (f + s) % MAX_COLLISION_COUNT <=>
               (IF r + 1 < MAX_COLLISION_COUNT THEN r + 1 ELSE 0)
             = (IF f + s < MAX_COLLISION_COUNT THEN f + s ELSE f + s - MAX_COLLISION_COUNT)
<1>1. f + s \in 0 .. 2 * MAX_COLLISION_COUNT - 1
  BY QueueAssumption DEF Places
<1>2. (f + s) % MAX_COLLISION_COUNT = (IF f + s < MAX_COLLISION_COUNT THEN f + s ELSE f + s - MAX_COLLISION_COUNT)
  <2>1. PICK q \in 0 .. 2 * MAX_COLLISION_COUNT - 1 : q = f + s
    BY <1>1
  <2>2. q % MAX_COLLISION_COUNT = IF q < MAX_COLLISION_COUNT THEN q ELSE q - MAX_COLLISION_COUNT
    BY QueueAssumption, ModTwice
  <2>. QED BY <2>1, <2>2, QueueAssumption DEF Places
<1>3. (r + 1) % MAX_COLLISION_COUNT = (IF r + 1 < MAX_COLLISION_COUNT THEN r + 1 ELSE 0)
  BY NextPlaceType DEF NextPlace
<1>. QED BY <1>2, <1>3

LEMMA EnqueueType ==
    ASSUME TypeOK, NEW e \in Entry, NEW held \in 0 .. MAX_COLLISION_COUNT, enqueue_collision(e, held)
    PROVE  /\ data' \in [Places -> Entry]
           /\ rear' \in Places \cup {-1}
           /\ size' \in 0 .. MAX_COLLISION_COUNT
BY QueueAssumption, NextPlaceType DEF TypeOK, enqueue_collision

LEMMA AgedType ==
    ASSUME TypeOK, Aged(data[front]).timer > 0
    PROVE  Aged(data[front]) \in Entry
<1>1. data[front] \in Entry /\ delta_time \in Nat
  BY QueueAssumption DEF TypeOK
<1>2. PICK k \in Kinds \cup {NoKind}, t \in 0 .. AnimTime : data[front] = [kind |-> k, timer |-> t]
  BY <1>1 DEF Entry
<1>3. Aged(data[front]) = [kind |-> k, timer |-> t - delta_time]
  BY <1>2 DEF Aged
<1>4. t - delta_time \in 0 .. AnimTime
  BY <1>1, <1>3, QueueAssumption
<1>. QED BY <1>3, <1>4 DEF Entry

-----------------------------------------------------------------------------

LEMMA Step == IInv /\ [Next]_vars => IInv'
<1>. SUFFICES ASSUME IInv, [Next]_vars PROVE IInv'
  OBVIOUS
<1>. USE QueueAssumption
<1>1. ASSUME BeginUpdate PROVE IInv'
  BY <1>1 DEF BeginUpdate, IInv, TypeOK, RingConsistent, NeverEmptyHanded, NothingLeft
<1>2. ASSUME AgeRunning PROVE IInv'
  <2>1. TypeOK'
    <3>1. front' \in Places /\ todo' \in 0 .. MAX_COLLISION_COUNT /\ pc' = pc /\ delta_time' = delta_time
      BY <1>2, NextPlaceType DEF AgeRunning, IInv, TypeOK
    <3>2. size - 1 \in 0 .. MAX_COLLISION_COUNT
      BY <1>2 DEF AgeRunning, IInv, TypeOK
    <3>3. enqueue_collision(Aged(data[front]), size - 1) /\ Aged(data[front]) \in Entry
      BY <1>2, AgedType DEF AgeRunning, IInv
    <3>. QED BY <3>1, <3>2, <3>3, EnqueueType DEF IInv, TypeOK
  <2>2. rear' = NextPlace(rear) /\ size' = size /\ front' = NextPlace(front)
    BY <1>2 DEF AgeRunning, enqueue_collision, IInv, TypeOK
  <2>3. RingConsistent'
    <3>1. rear \in Places \cup {-1} /\ front \in Places /\ size \in 0 .. MAX_COLLISION_COUNT
      BY DEF IInv, TypeOK
    <3>2. NextPlace(rear) = (IF rear + 1 < MAX_COLLISION_COUNT THEN rear + 1 ELSE 0)
      BY <3>1, NextPlaceType
    <3>3. NextPlace(front) = (IF front + 1 < MAX_COLLISION_COUNT THEN front + 1 ELSE 0)
      BY <3>1, NextPlaceType
    <3>4. (IF rear + 1 < MAX_COLLISION_COUNT THEN rear + 1 ELSE 0)
             = (IF front + size < MAX_COLLISION_COUNT THEN front + size ELSE front + size - MAX_COLLISION_COUNT)
      BY <3>1, RingAsCases DEF IInv, RingConsistent
    <3>5. (IF rear' + 1 < MAX_COLLISION_COUNT THEN rear' + 1 ELSE 0)
             = (IF front' + size' < MAX_COLLISION_COUNT THEN front' + size' ELSE front' + size' - MAX_COLLISION_COUNT)
      BY <2>2, <3>1, <3>2, <3>3, <3>4 DEF Places
    <3>6. rear' \in Places \cup {-1} /\ front' \in Places /\ size' \in 0 .. MAX_COLLISION_COUNT
      BY <2>1 DEF TypeOK
    <3>. QED BY <3>5, <3>6, RingAsCases DEF RingConsistent
  <2>4. NeverEmptyHanded'
    BY <1>2, <2>2 DEF AgeRunning, IInv, TypeOK, NeverEmptyHanded
  <2>5. NothingLeft'
    BY <1>2 DEF AgeRunning, NothingLeft
  <2>. QED BY <2>1, <2>3, <2>4, <2>5 DEF IInv
<1>3. ASSUME AgeOver PROVE IInv'
  <2>1. TypeOK'
    BY <1>3, NextPlaceType DEF AgeOver, IInv, TypeOK
  <2>2. RingConsistent'
    <3>1. rear \in Places \cup {-1} /\ front \in Places /\ size \in 0 .. MAX_COLLISION_COUNT
      BY DEF IInv, TypeOK
    <3>2. front' = (IF front + 1 < MAX_COLLISION_COUNT THEN front + 1 ELSE 0) /\ size' = size - 1 /\ rear' = rear /\ size > 0
      BY <1>3, <3>1, NextPlaceType DEF AgeOver
    <3>3. (IF rear + 1 < MAX_COLLISION_COUNT THEN rear + 1 ELSE 0)
             = (IF front + size < MAX_COLLISION_COUNT THEN front + size ELSE front + size - MAX_COLLISION_COUNT)
      BY <3>1, RingAsCases DEF IInv, RingConsistent
    <3>4. (IF rear' + 1 < MAX_COLLISION_COUNT THEN rear' + 1 ELSE 0)
             = (IF front' + size' < MAX_COLLISION_COUNT THEN front' + size' ELSE front' + size' - MAX_COLLISION_COUNT)
      BY <3>1, <3>2, <3>3 DEF Places
    <3>5. rear' \in Places \cup {-1} /\ front' \in Places /\ size' \in 0 .. MAX_COLLISION_COUNT
      BY <2>1 DEF TypeOK
    <3>. QED BY <3>4, <3>5, RingAsCases DEF RingConsistent
  <2>3. NeverEmptyHanded'
    BY <1>3 DEF AgeOver, IInv, TypeOK, NeverEmptyHanded
  <2>4. NothingLeft'
    BY <1>3 DEF AgeOver, NothingLeft
  <2>. QED BY <2>1, <2>2, <2>3, <2>4 DEF IInv
<1>4. ASSUME EndUpdate PROVE IInv'
  BY <1>4 DEF EndUpdate, IInv, TypeOK, RingConsistent, NeverEmptyHanded, NothingLeft
<1>5. ASSUME Collide PROVE IInv'
  <2>1. PICK k \in Kinds : enqueue_collision([kind |-> k, timer |-> AnimTime], size)
    BY <1>5 DEF Collide
  <2>2. [kind |-> k, timer |-> AnimTime] \in Entry /\ size \in 0 .. MAX_COLLISION_COUNT
    BY DEF Entry, IInv, TypeOK
  <2>3. TypeOK'
    <3>1. UNCHANGED <<front, pc, todo, delta_time>>
      BY <1>5 DEF Collide
    <3>. QED BY <2>1, <2>2, <3>1, EnqueueType DEF IInv, TypeOK
  <2>4. RingConsistent'
    <3>1. rear \in Places \cup {-1} /\ front \in Places /\ front' = front
      BY <1>5 DEF IInv, TypeOK, Collide
    <3>2. CASE UNCHANGED <<rear, size>>
      BY <3>1, <3>2 DEF IInv, RingConsistent
    <3>3. CASE rear' = NextPlace(rear) /\ size' = size + 1 /\ size < MAX_COLLISION_COUNT
      <4>1. rear' = (IF rear + 1 < MAX_COLLISION_COUNT THEN rear + 1 ELSE 0)
        BY <3>1, <3>3, NextPlaceType
      <4>2. (IF rear + 1 < MAX_COLLISION_COUNT THEN rear + 1 ELSE 0)
               = (IF front + size < MAX_COLLISION_COUNT THEN front + size ELSE front + size - MAX_COLLISION_COUNT)
        BY <2>2, <3>1, RingAsCases DEF IInv, RingConsistent
      <4>3. (IF rear' + 1 < MAX_COLLISION_COUNT THEN rear' + 1 ELSE 0)
               = (IF front' + size' < MAX_COLLISION_COUNT THEN front' + size' ELSE front' + size' - MAX_COLLISION_COUNT)
        BY <2>2, <3>1, <3>3, <4>1, <4>2 DEF Places
      <4>4. rear' \in Places \cup {-1} /\ front' \in Places /\ size' \in 0 .. MAX_COLLISION_COUNT
        BY <2>3 DEF TypeOK
      <4>. QED BY <4>3, <4>4, RingAsCases DEF RingConsistent
    <3>. QED BY <2>1, <3>2, <3>3 DEF enqueue_collision
  <2>5. NeverEmptyHanded'
    BY <1>5 DEF Collide, NeverEmptyHanded
  <2>6. NothingLeft'
    BY <1>5 DEF Collide, IInv, NothingLeft
  <2>. QED BY <2>3, <2>4, <2>5, <2>6 DEF IInv
<1>6. ASSUME EndDraw PROVE IInv'
  BY <1>6 DEF EndDraw, IInv, TypeOK, RingConsistent, NeverEmptyHanded, NothingLeft
<1>7. CASE UNCHANGED vars
  BY <1>7 DEF vars, IInv, TypeOK, RingConsistent, NeverEmptyHanded, NothingLeft
<1>. QED BY <1>1, <1>2, <1>3, <1>4, <1>5, <1>6, <1>7 DEF Next

LEMMA Start == Init => IInv
<1>. SUFFICES ASSUME Init PROVE IInv
  OBVIOUS
<1>1. TypeOK
  BY QueueAssumption DEF Init, init_collision_queue, TypeOK, Entry, Places
<1>2. RingConsistent /\ NeverEmptyHanded /\ NothingLeft
  BY DEF Init, init_collision_queue, RingConsistent, NeverEmptyHanded, NothingLeft
<1>. QED BY <1>1, <1>2 DEF IInv

\* The types, the agreement of front, rear and size, and the entries that are
\* left to age are kept by every turn of every loop.
THEOREM Invariant == Spec => []IInv
<1>. QED BY Start, Step, PTL DEF Spec

\* front, rear and size agree for ever, whatever the size of the ring.
THEOREM RingIsConsistent == Spec => []RingConsistent
<1>1. IInv => RingConsistent
  BY DEF IInv
<1>. QED BY Invariant, <1>1, PTL

\* update_collision_queue never takes an entry out of an empty queue.
THEOREM UpdateFindsEntries == Spec => []NeverEmptyHanded
<1>1. IInv => NeverEmptyHanded
  BY DEF IInv
<1>. QED BY Invariant, <1>1, PTL

\* The ring, its indices and the timers of its entries have their types.
THEOREM TypeCorrect == Spec => []TypeOK
<1>1. IInv => TypeOK
  BY DEF IInv
<1>. QED BY Invariant, <1>1, PTL

-----------------------------------------------------------------------------
(* The passing of time over a list.                                        *)

\* Induction over the numbers, as a fact about sets of them.
LEMMA NumberInduction ==
    ASSUME NEW S \in SUBSET Nat, 0 \in S, \A n \in S : n + 1 \in S
    PROVE  S = Nat
<1>. SUFFICES ASSUME Nat \ S # {} PROVE FALSE
  OBVIOUS
<1>1. PICK x \in Nat \ S : \A y \in Nat \ S : ~(<<y, x>> \in OpToRel(<, Nat))
  <2>. DEFINE R == OpToRel(<, Nat)
  <2>1. IsWellFoundedOn(R, Nat)
    BY NatLessThanWellFounded
  <2>. HIDE DEF R
  <2>2. \E x \in Nat \ S : \A y \in Nat \ S : ~(<<y, x>> \in R)
    BY <2>1, WFMin
  <2>. QED BY <2>2 DEF R
<1>2. \A y \in Nat \ S : ~(y < x)
  BY <1>1 DEF OpToRel
<1>3. x # 0 /\ x - 1 \in S
  BY <1>2
<1>. QED BY <1>3

\* s is a list of effects of E, which has what there is of each of them later.
Timed(E, d) == \A e \in E : e.timer > d => [e EXCEPT !.timer = @ - d] \in E

\* g gives, for each k up to n, those of the last k effects of s that still run.
Lasts(g, s, d, n) ==
    \A k \in 0 .. n : g[k] = IF k = 0 THEN <<>> ELSE Rest(s[Len(s) - k + 1], d) \o g[k - 1]

LEMMA LastsStart ==
    ASSUME NEW g, NEW s, NEW d, NEW n \in Nat, Lasts(g, s, d, n)
    PROVE  g[0] = <<>>
BY DEF Lasts

LEMMA LastsNext ==
    ASSUME NEW g, NEW s, NEW d, NEW n \in Nat, Lasts(g, s, d, n), NEW k \in 1 .. n
    PROVE  g[k] = Rest(s[Len(s) - k + 1], d) \o g[k - 1]
<1>1. k \in 0 .. n /\ k # 0
  OBVIOUS
<1>. QED BY <1>1 DEF Lasts

\* The last n of two lists are the same.
SameEnd(s, t, n) == \A k \in 1 .. n : s[Len(s) - k + 1] = t[Len(t) - k + 1]

LEMMA RestType ==
    ASSUME NEW E, NEW d, Timed(E, d), NEW e \in E
    PROVE  Rest(e, d) \in Seq(E)
BY DEF Rest, Timed

LEMMA LastsExist ==
    ASSUME NEW E, NEW d, Timed(E, d), NEW s \in Seq(E)
    PROVE  \E g \in [0 .. Len(s) -> Seq(E)] : Lasts(g, s, d, Len(s))
<1>. DEFINE S == {n \in Nat : n <= Len(s) => \E g \in [0 .. n -> Seq(E)] : Lasts(g, s, d, n)}
<1>0. Len(s) \in Nat
  OBVIOUS
<1>1. 0 \in S
  <2>. DEFINE g == [k \in 0 .. 0 |-> <<>>]
  <2>1. g \in [0 .. 0 -> Seq(E)] /\ Lasts(g, s, d, 0)
    BY DEF Lasts
  <2>. QED BY <2>1
<1>2. ASSUME NEW n \in S PROVE n + 1 \in S
  <2>. SUFFICES ASSUME n + 1 <= Len(s)
                PROVE  \E g \in [0 .. n + 1 -> Seq(E)] : Lasts(g, s, d, n + 1)
    <3>1. n + 1 \in Nat
      OBVIOUS
    <3>. QED BY <3>1
  <2>1. PICK g \in [0 .. n -> Seq(E)] : Lasts(g, s, d, n)
    BY <1>0
  <2>2. Rest(s[Len(s) - n], d) \in Seq(E) /\ g[n] \in Seq(E)
    <3>1. s[Len(s) - n] \in E
      BY <1>0, ElementOfSeq
    <3>. QED BY <3>1, RestType
  <2>. DEFINE r == Rest(s[Len(s) - n], d) \o g[n]
              h == [k \in 0 .. n + 1 |-> IF k = n + 1 THEN r ELSE g[k]]
  <2>3. r \in Seq(E)
    BY <2>2, ConcatProperties
  <2>4. h \in [0 .. n + 1 -> Seq(E)]
    <3>. HIDE DEF r
    <3>. QED BY <2>3
  <2>5. /\ h[n + 1] = r
        /\ \A k \in 0 .. n : h[k] = g[k]
    <3>. HIDE DEF r
    <3>. QED OBVIOUS
  <2>6. Lasts(h, s, d, n + 1)
    <3>. HIDE DEF h
    <3>. SUFFICES ASSUME NEW k \in 0 .. n + 1
                  PROVE  h[k] = IF k = 0 THEN <<>> ELSE Rest(s[Len(s) - k + 1], d) \o h[k - 1]
      BY DEF Lasts
    <3>1. CASE k = n + 1
      <4>1. Len(s) - k + 1 = Len(s) - n /\ k - 1 = n /\ k # 0 /\ n \in 0 .. n
        BY <3>1, <1>0
      <4>2. h[k - 1] = g[n]
        BY <4>1, <2>5
      <4>. QED BY <3>1, <4>1, <4>2, <2>5
    <3>2. CASE k # n + 1
      <4>1. k \in 0 .. n /\ (k # 0 => k - 1 \in 0 .. n)
        BY <3>2
      <4>2. h[k] = g[k] /\ (k # 0 => h[k - 1] = g[k - 1])
        BY <4>1, <2>5
      <4>3. g[k] = IF k = 0 THEN <<>> ELSE Rest(s[Len(s) - k + 1], d) \o g[k - 1]
        BY <2>1, <4>1 DEF Lasts
      <4>. QED BY <4>2, <4>3
    <3>. QED BY <3>1, <3>2
  <2>. QED BY <2>4, <2>6
<1>3. S = Nat
  <2>. HIDE DEF S
  <2>1. S \in SUBSET Nat
    BY DEF S
  <2>. QED BY <1>1, <1>2, <2>1, NumberInduction
<1>4. Len(s) \in S
  <2>. HIDE DEF S
  <2>. QED BY <1>0, <1>3
<1>. QED BY <1>4

\* They are the same for two lists that end the same way.
LEMMA LastsAgree ==
    ASSUME NEW d, NEW s, NEW t, NEW n \in Nat,
           SameEnd(s, t, n),
           NEW f, NEW g, Lasts(f, s, d, n), Lasts(g, t, d, n)
    PROVE  \A k \in 0 .. n : f[k] = g[k]
<1>. DEFINE S == {k \in Nat : k <= n => f[k] = g[k]}
<1>1. 0 \in S
  BY LastsStart
<1>2. ASSUME NEW k \in S PROVE k + 1 \in S
  <2>. SUFFICES ASSUME k + 1 <= n PROVE f[k + 1] = g[k + 1]
    <3>1. k + 1 \in Nat
      OBVIOUS
    <3>. QED BY <3>1
  <2>1. PICK m \in 1 .. n : m = k + 1 /\ f[m - 1] = g[m - 1]
    OBVIOUS
  <2>2. f[m] = Rest(s[Len(s) - m + 1], d) \o f[m - 1]
    BY LastsNext
  <2>3. g[m] = Rest(t[Len(t) - m + 1], d) \o g[m - 1]
    BY LastsNext
  <2>4. s[Len(s) - m + 1] = t[Len(t) - m + 1]
    BY DEF SameEnd
  <2>. QED BY <2>1, <2>2, <2>3, <2>4
<1>3. S = Nat
  <2>. HIDE DEF S
  <2>1. S \in SUBSET Nat
    BY DEF S
  <2>. QED BY <1>1, <1>2, <2>1, NumberInduction
<1>. QED BY <1>3

LEMMA LaterIsLasts ==
    ASSUME NEW E, NEW d, Timed(E, d), NEW s \in Seq(E)
    PROVE  \E g : Lasts(g, s, d, Len(s)) /\ Later(s, d) = g[Len(s)] /\ Later(s, d) \in Seq(E)
<1>. DEFINE F(g) == [k \in 0 .. Len(s) |->
                        IF k = 0 THEN <<>> ELSE Rest(s[Len(s) - k + 1], d) \o g[k - 1]]
            f == CHOOSE g : g = F(g)
<1>1. Later(s, d) = f[Len(s)]
  BY DEF Later
<1>2. PICK g \in [0 .. Len(s) -> Seq(E)] : Lasts(g, s, d, Len(s))
  BY LastsExist
<1>3. g = F(g)
  BY <1>2 DEF Lasts
<1>4. f = F(f)
  <2>. HIDE DEF F
  <2>. QED BY <1>3
<1>5. Lasts(f, s, d, Len(s))
  <2>. HIDE DEF f
  <2>. QED BY <1>4 DEF Lasts
<1>. HIDE DEF f
<1>6. Len(s) \in Nat
  OBVIOUS
<1>7. f[Len(s)] = g[Len(s)]
  <2>1. SameEnd(s, s, Len(s))
    BY DEF SameEnd
  <2>2. \A k \in 0 .. Len(s) : f[k] = g[k]
    BY <1>2, <1>5, <1>6, <2>1, LastsAgree
  <2>. QED BY <1>6, <2>2
<1>. QED BY <1>1, <1>2, <1>5, <1>6, <1>7

LEMMA LaterEmpty ==
    ASSUME NEW d
    PROVE  Later(<<>>, d) = <<>>
<1>. DEFINE E == {}
<1>1. <<>> \in Seq(E) /\ Len(<<>>) = 0 /\ Timed(E, d)
  BY DEF Timed
<1>. HIDE DEF E
<1>2. PICK g : Lasts(g, <<>>, d, Len(<<>>)) /\ Later(<<>>, d) = g[Len(<<>>)]
  BY <1>1, LaterIsLasts
<1>3. g[0] = <<>>
  BY <1>1, <1>2, LastsStart
<1>. QED BY <1>1, <1>2, <1>3

\* The first of a list runs on, or not, apart from the others.
LEMMA LaterFirst ==
    ASSUME NEW E, NEW d, Timed(E, d), NEW s \in Seq(E), s # <<>>
    PROVE  Later(s, d) = Rest(s[1], d) \o Later(Tail(s), d)
<1>1. PICK t \in Seq(E) : t = Tail(s) /\ Len(t) = Len(s) - 1 /\ \A k \in 1 .. Len(t) : t[k] = s[k + 1]
  BY HeadTailProperties
<1>2. PICK m \in Nat, n \in Nat : m = Len(s) /\ n = Len(t) /\ m = n + 1
  <2>1. PICK m \in Nat : m = Len(s)
    OBVIOUS
  <2>2. PICK n \in Nat : n = Len(t)
    OBVIOUS
  <2>3. m = n + 1
    BY <1>1, <2>1, <2>2
  <2>. QED BY <2>1, <2>2, <2>3
<1>3. PICK f : Lasts(f, s, d, m) /\ Later(s, d) = f[m]
  <2>1. \E f : Lasts(f, s, d, Len(s)) /\ Later(s, d) = f[Len(s)]
    BY LaterIsLasts
  <2>. QED BY <1>2, <2>1
<1>4. PICK g : Lasts(g, t, d, n) /\ Later(t, d) = g[n]
  <2>1. \E g : Lasts(g, t, d, Len(t)) /\ Later(t, d) = g[Len(t)]
    BY LaterIsLasts
  <2>. QED BY <1>2, <2>1
<1>5. Lasts(f, s, d, n)
  BY <1>2, <1>3 DEF Lasts
<1>6. SameEnd(s, t, n)
  <2>. SUFFICES ASSUME NEW k \in 1 .. n PROVE s[Len(s) - k + 1] = t[Len(t) - k + 1]
    BY DEF SameEnd
  <2>1. Len(t) - k + 1 \in 1 .. Len(t) /\ (Len(t) - k + 1) + 1 = Len(s) - k + 1
    BY <1>2
  <2>. QED BY <1>1, <2>1
<1>7. f[n] = g[n]
  <2>1. n \in 0 .. n
    OBVIOUS
  <2>2. \A k \in 0 .. n : f[k] = g[k]
    BY <1>4, <1>5, <1>6, LastsAgree
  <2>. QED BY <2>1, <2>2
<1>8. f[m] = Rest(s[1], d) \o f[n]
  <2>1. m \in 1 .. m /\ Len(s) - m + 1 = 1 /\ m - 1 = n
    BY <1>2
  <2>2. f[m] = Rest(s[Len(s) - m + 1], d) \o f[m - 1]
    BY <1>3, <2>1, LastsNext
  <2>. QED BY <2>1, <2>2
<1>. QED BY <1>1, <1>3, <1>4, <1>7, <1>8
-----------------------------------------------------------------------------
(* The ring as the list of its entries.                                    *)

LEMMA EntryTimed == ASSUME NEW d \in Nat PROVE Timed(Entry, d)
<1>. SUFFICES ASSUME NEW e \in Entry, e.timer > d PROVE [e EXCEPT !.timer = @ - d] \in Entry
  BY DEF Timed
<1>1. PICK k \in Kinds \cup {NoKind}, t \in 0 .. AnimTime : e = [kind |-> k, timer |-> t]
  BY DEF Entry
<1>2. [e EXCEPT !.timer = @ - d] = [kind |-> k, timer |-> t - d]
  BY <1>1
<1>3. t - d \in 0 .. AnimTime
  BY <1>1, QueueAssumption
<1>. QED BY <1>2, <1>3 DEF Entry

LEMMA PlaceType ==
    ASSUME NEW f \in Places, NEW n \in 0 .. MAX_COLLISION_COUNT
    PROVE  (f + n) % MAX_COLLISION_COUNT \in Places
           /\ (f + n) % MAX_COLLISION_COUNT
                  = IF f + n < MAX_COLLISION_COUNT THEN f + n ELSE f + n - MAX_COLLISION_COUNT
<1>1. f + n \in 0 .. 2 * MAX_COLLISION_COUNT - 1
  BY QueueAssumption DEF Places
<1>2. (f + n) % MAX_COLLISION_COUNT = (IF f + n < MAX_COLLISION_COUNT THEN f + n ELSE f + n - MAX_COLLISION_COUNT)
  <2>1. PICK q \in 0 .. 2 * MAX_COLLISION_COUNT - 1 : q = f + n
    BY <1>1
  <2>2. q % MAX_COLLISION_COUNT = IF q < MAX_COLLISION_COUNT THEN q ELSE q - MAX_COLLISION_COUNT
    BY QueueAssumption, ModTwice
  <2>. QED BY <2>1, <2>2, QueueAssumption DEF Places
<1>3. (IF f + n < MAX_COLLISION_COUNT THEN f + n ELSE f + n - MAX_COLLISION_COUNT) \in Places
  BY <1>1, QueueAssumption DEF Places
<1>. QED BY <1>2, <1>3

\* The place of the n-th entry behind the one at p.
Place(p, n) == (p + n) % MAX_COLLISION_COUNT

LEMMA PlaceSame == ASSUME NEW p \in Places PROVE Place(p, 0) = p
<1>1. 0 \in 0 .. MAX_COLLISION_COUNT
  BY QueueAssumption
<1>2. Place(p, 0) = IF p + 0 < MAX_COLLISION_COUNT THEN p + 0 ELSE p + 0 - MAX_COLLISION_COUNT
  BY <1>1, PlaceType DEF Place
<1>. QED BY <1>2, QueueAssumption DEF Places

LEMMA PlaceOn ==
    ASSUME NEW p \in Places, NEW n \in 0 .. MAX_COLLISION_COUNT - 1
    PROVE  Place(NextPlace(p), n) = Place(p, n + 1)
<1>1. NextPlace(p) \in Places /\ NextPlace(p) = IF p + 1 < MAX_COLLISION_COUNT THEN p + 1 ELSE 0
  BY NextPlaceType
<1>2. n \in 0 .. MAX_COLLISION_COUNT /\ n + 1 \in 0 .. MAX_COLLISION_COUNT
  BY QueueAssumption
<1>3. Place(p, n + 1) = IF p + (n + 1) < MAX_COLLISION_COUNT THEN p + (n + 1) ELSE p + (n + 1) - MAX_COLLISION_COUNT
  BY <1>2, PlaceType DEF Place
<1>4. Place(NextPlace(p), n) = IF NextPlace(p) + n < MAX_COLLISION_COUNT THEN NextPlace(p) + n
                               ELSE NextPlace(p) + n - MAX_COLLISION_COUNT
  BY <1>1, <1>2, PlaceType DEF Place
<1>. QED BY <1>1, <1>3, <1>4, QueueAssumption DEF Places

LEMMA PlacesApart ==
    ASSUME NEW p \in Places, NEW m \in 0 .. MAX_COLLISION_COUNT, NEW n \in 0 .. MAX_COLLISION_COUNT,
           m < n, n - m < MAX_COLLISION_COUNT
    PROVE  Place(p, m) # Place(p, n)
<1>1. Place(p, m) = IF p + m < MAX_COLLISION_COUNT THEN p + m ELSE p + m - MAX_COLLISION_COUNT
  BY PlaceType DEF Place
<1>2. Place(p, n) = IF p + n < MAX_COLLISION_COUNT THEN p + n ELSE p + n - MAX_COLLISION_COUNT
  BY PlaceType DEF Place
<1>. QED BY <1>1, <1>2, QueueAssumption DEF Places

LEMMA RingList ==
    ASSUME NEW d \in [Places -> Entry], NEW f \in Places, NEW s \in 0 .. MAX_COLLISION_COUNT,
           NEW C, C = [n \in 1 .. s |-> d[(f + n - 1) % MAX_COLLISION_COUNT]]
    PROVE  /\ C \in Seq(Entry) /\ Len(C) = s
           /\ \A n \in 1 .. s : C[n] = d[Place(f, n - 1)]
<1>1. \A n \in 1 .. s : f + n - 1 = f + (n - 1) /\ n - 1 \in 0 .. MAX_COLLISION_COUNT
  BY QueueAssumption DEF Places
<1>2. \A n \in 1 .. s : d[Place(f, n - 1)] \in Entry
  BY <1>1, PlaceType DEF Place
<1>3. \A n \in 1 .. s : C[n] = d[Place(f, n - 1)]
  BY <1>1 DEF Place
<1>4. s \in Nat /\ C = [n \in 1 .. s |-> C[n]]
  OBVIOUS
<1>5. C \in [1 .. s -> Entry]
  BY <1>2, <1>3, <1>4
<1>. QED BY <1>3, <1>4, <1>5

LEMMA ContentsType ==
    ASSUME TypeOK
    PROVE  /\ Contents \in Seq(Entry) /\ Len(Contents) = size
           /\ \A n \in 1 .. size : Contents[n] = data[Place(front, n - 1)]
BY RingList DEF TypeOK, Contents

LEMMA ContentsNext ==
    ASSUME TypeOK'
    PROVE  /\ Contents' \in Seq(Entry) /\ Len(Contents') = size'
           /\ \A n \in 1 .. size' : Contents'[n] = data'[Place(front', n - 1)]
BY RingList DEF TypeOK, Contents

\* A turn of the loop takes the first entry out.
LEMMA Dequeued ==
    ASSUME TypeOK, TypeOK', size > 0, front' = NextPlace(front),
           \A n \in 1 .. size - 1 : data'[Place(front, n)] = data[Place(front, n)]
    PROVE  \A n \in 1 .. size - 1 : n <= size' => Contents'[n] = Contents[n + 1]
<1>. SUFFICES ASSUME NEW n \in 1 .. size - 1, n <= size' PROVE Contents'[n] = Contents[n + 1]
  OBVIOUS
<1>1. n \in 1 .. size' /\ n + 1 \in 1 .. size /\ n - 1 \in 0 .. MAX_COLLISION_COUNT - 1 /\ (n + 1) - 1 = n
      /\ (n - 1) + 1 = n
  BY QueueAssumption DEF TypeOK
<1>2. Contents[n + 1] = data[Place(front, n)]
  BY <1>1, ContentsType
<1>3. Contents'[n] = data'[Place(front', n - 1)]
  BY <1>1, ContentsNext
<1>4. Place(front', n - 1) = Place(front, n)
  <2>1. front \in Places
    BY DEF TypeOK
  <2>2. Place(NextPlace(front), n - 1) = Place(front, (n - 1) + 1)
    BY <1>1, <2>1, PlaceOn
  <2>. QED BY <1>1, <2>2
<1>. QED BY <1>2, <1>3, <1>4

\* Of a list without its first entry, and perhaps with another behind it.
LEMMA Shifted ==
    ASSUME NEW E, NEW s \in Seq(E), NEW t \in Seq(E), Len(t) \in {Len(s) - 1, Len(s)},
           \A n \in 1 .. Len(s) - 1 : t[n] = s[n + 1], NEW k \in 1 .. Len(s)
    PROVE  /\ SubSeq(t, 1, k - 1) = Tail(SubSeq(s, 1, k))
           /\ Len(t) = Len(s) - 1 => SubSeq(t, k, Len(t)) = SubSeq(s, k + 1, Len(s))
           /\ Len(t) = Len(s) =>
                 SubSeq(t, k, Len(t)) = SubSeq(s, k + 1, Len(s)) \o <<t[Len(t)]>>
<1>1. PICK m \in Nat : m = Len(s) /\ k \in 1 .. m
  OBVIOUS
<1>2. PICK n \in Nat : n = Len(t) /\ n \in {m - 1, m}
  BY <1>1
<1>3. \A j \in 1 .. m : s[j] \in E
  BY <1>1
<1>4. \A j \in 1 .. n : t[j] \in E
  BY <1>2
<1>5. \A a \in 1 .. m + 1 : /\ SubSeq(s, a, m) \in Seq(E) /\ Len(SubSeq(s, a, m)) = m - a + 1
                            /\ \A j \in 1 .. m - a + 1 : SubSeq(s, a, m)[j] = s[a + j - 1]
  BY <1>3, SubSeqProperties
<1>6. Tail(SubSeq(s, 1, k)) = SubSeq(s, 2, k)
  <2>1. 1 \in 1 .. Len(s) /\ k \in 1 .. Len(s)
    BY <1>1
  <2>. QED BY <2>1, HeadTailOfSubSeq
<1>7. SubSeq(t, 1, k - 1) = SubSeq(s, 2, k)
  <2>1. /\ SubSeq(t, 1, k - 1) \in Seq(E) /\ Len(SubSeq(t, 1, k - 1)) = k - 1
        /\ \A j \in 1 .. k - 1 : SubSeq(t, 1, k - 1)[j] = t[j]
    <3>1. \A j \in 1 .. k - 1 : t[j] \in E
      BY <1>1, <1>2, <1>4
    <3>. QED BY <1>1, <3>1, SubSeqProperties
  <2>2. /\ SubSeq(s, 2, k) \in Seq(E) /\ Len(SubSeq(s, 2, k)) = k - 1
        /\ \A j \in 1 .. k - 1 : SubSeq(s, 2, k)[j] = s[j + 1]
    <3>1. \A j \in 2 .. k : s[j] \in E
      BY <1>1, <1>3
    <3>. QED BY <1>1, <3>1, SubSeqProperties
  <2>3. \A j \in 1 .. k - 1 : t[j] = s[j + 1]
    BY <1>1
  <2>. QED BY <2>1, <2>2, <2>3, SeqEqual
<1>8. ASSUME n = m - 1 PROVE SubSeq(t, k, n) = SubSeq(s, k + 1, m)
  <2>1. /\ SubSeq(t, k, n) \in Seq(E) /\ Len(SubSeq(t, k, n)) = m - k
        /\ \A j \in 1 .. m - k : SubSeq(t, k, n)[j] = t[k + j - 1]
    <3>1. \A j \in k .. n : t[j] \in E
      BY <1>1, <1>4
    <3>. QED BY <1>1, <1>8, <3>1, SubSeqProperties
  <2>2. /\ SubSeq(s, k + 1, m) \in Seq(E) /\ Len(SubSeq(s, k + 1, m)) = m - k
        /\ \A j \in 1 .. m - k : SubSeq(s, k + 1, m)[j] = s[k + j]
    <3>1. \A j \in k + 1 .. m : s[j] \in E
      BY <1>1, <1>3
    <3>. QED BY <1>1, <3>1, SubSeqProperties
  <2>3. \A j \in 1 .. m - k : t[k + j - 1] = s[k + j]
    BY <1>1
  <2>. QED BY <2>1, <2>2, <2>3, SeqEqual
<1>9. ASSUME n = m PROVE SubSeq(t, k, n) = SubSeq(s, k + 1, m) \o <<t[n]>>
  <2>1. /\ SubSeq(t, k, n) \in Seq(E) /\ Len(SubSeq(t, k, n)) = m - k + 1
        /\ \A j \in 1 .. m - k + 1 : SubSeq(t, k, n)[j] = t[k + j - 1]
    <3>1. \A j \in k .. n : t[j] \in E
      BY <1>1, <1>4
    <3>. QED BY <1>1, <1>9, <3>1, SubSeqProperties
  <2>2. /\ SubSeq(s, k + 1, m) \in Seq(E) /\ Len(SubSeq(s, k + 1, m)) = m - k
        /\ \A j \in 1 .. m - k : SubSeq(s, k + 1, m)[j] = s[k + j]
    <3>1. \A j \in k + 1 .. m : s[j] \in E
      BY <1>1, <1>3
    <3>. QED BY <1>1, <3>1, SubSeqProperties
  <2>3. \A j \in 1 .. m - k : t[k + j - 1] = s[k + j]
    BY <1>1
  <2>4. <<t[n]>> \in Seq(E) /\ Len(<<t[n]>>) = 1 /\ <<t[n]>>[1] = t[n]
    BY <1>1, <1>4, <1>9
  <2>. DEFINE c == SubSeq(s, k + 1, m) \o <<t[n]>>
  <2>5. /\ c \in Seq(E) /\ Len(c) = m - k + 1
        /\ \A j \in 1 .. m - k + 1 : c[j] = IF j <= m - k THEN SubSeq(s, k + 1, m)[j] ELSE <<t[n]>>[j - (m - k)]
    BY <1>1, <2>2, <2>4, ConcatProperties
  <2>. HIDE DEF c
  <2>6. \A j \in 1 .. m - k + 1 : c[j] = t[k + j - 1]
    <3>. SUFFICES ASSUME NEW j \in 1 .. m - k + 1 PROVE c[j] = t[k + j - 1]
      OBVIOUS
    <3>0. k \in Nat /\ j \in Nat /\ j <= m - k + 1
      BY <1>1
    <3>1. CASE j <= m - k
      <4>1. j \in 1 .. m - k
        BY <3>0, <3>1
      <4>2. c[j] = SubSeq(s, k + 1, m)[j]
        BY <2>5, <3>1
      <4>. QED BY <2>2, <2>3, <4>1, <4>2
    <3>2. CASE ~(j <= m - k)
      <4>1. j - (m - k) = 1 /\ k + j - 1 = n
        BY <1>9, <3>0, <3>2
      <4>. QED BY <2>4, <2>5, <3>2, <4>1
    <3>. QED BY <3>1, <3>2
  <2>7. SubSeq(t, k, n) = c
    BY <2>1, <2>5, <2>6, SeqEqual
  <2>. QED BY <2>7 DEF c
<1>. QED BY <1>1, <1>2, <1>6, <1>7, <1>8, <1>9

-----------------------------------------------------------------------------
(* The ring implements the list of running effects.                        *)

\* With nothing left to age, the effects are the entries.
LEMMA SettledQuiet ==
    ASSUME TypeOK, todo = 0
    PROVE  Settled = Contents
<1>1. Contents \in Seq(Entry) /\ Len(Contents) = size
  BY ContentsType
<1>2. SubSeq(Contents, 1, 0) = <<>>
  BY SubSeqEmpty
<1>3. SubSeq(Contents, 1, size) = Contents
  BY <1>1, SubSeqFull
<1>4. Later(<<>>, delta_time) = <<>>
  BY LaterEmpty
<1>5. Contents \o <<>> = Contents
  BY <1>1, ConcatEmptySeq
<1>6. todo + 1 = 1
  OBVIOUS
<1>. QED BY <1>2, <1>3, <1>4, <1>5, <1>6 DEF Settled

LEMMA SettledQuietNext ==
    ASSUME TypeOK', todo' = 0
    PROVE  Settled' = Contents'
<1>1. Contents' \in Seq(Entry) /\ Len(Contents') = size'
  BY ContentsNext
<1>2. SubSeq(Contents', 1, 0) = <<>>
  BY SubSeqEmpty
<1>3. SubSeq(Contents', 1, size') = Contents'
  BY <1>1, SubSeqFull
<1>4. Later(<<>>, delta_time') = <<>>
  BY LaterEmpty
<1>5. Contents' \o <<>> = Contents'
  BY <1>1, ConcatEmptySeq
<1>6. todo' + 1 = 1
  OBVIOUS
<1>. QED BY <1>2, <1>3, <1>4, <1>5, <1>6 DEF Settled

\* An update takes them all d on.
LEMMA BeginPasses ==
    ASSUME IInv, IInv', BeginUpdate
    PROVE  delta_time' \in Deltas /\ Settled' = Later(Settled, delta_time')
<1>1. /\ todo = 0 /\ todo' = size /\ delta_time' \in Deltas /\ delta_time' \in Nat
      /\ UNCHANGED <<data, front, rear, size>>
  BY QueueAssumption DEF BeginUpdate, IInv, NothingLeft
<1>2. Contents' = Contents
  BY <1>1 DEF Contents
<1>3. Settled = Contents
  BY <1>1, SettledQuiet DEF IInv
<1>4. Contents \in Seq(Entry) /\ Len(Contents) = size /\ size \in Nat
  BY ContentsType DEF IInv, TypeOK
<1>5. SubSeq(Contents, size + 1, size) = <<>>
  BY <1>4, SubSeqEmpty
<1>6. SubSeq(Contents, 1, size) = Contents
  BY <1>4, SubSeqFull
<1>7. Later(Contents, delta_time') \in Seq(Entry)
  BY <1>1, <1>4, EntryTimed, LaterIsLasts
<1>8. Settled' = SubSeq(Contents, size + 1, size) \o Later(SubSeq(Contents, 1, size), delta_time')
  BY <1>1, <1>2 DEF Settled
<1>. QED BY <1>1, <1>3, <1>5, <1>6, <1>7, <1>8, ConcatEmptySeq

\* The turns of an update settle nothing new: one that takes an entry out ...
LEMMA TurnKeeps ==
    ASSUME IInv, IInv', pc = "aging", todo > 0, size > 0, front' = NextPlace(front),
           size' \in {size - 1, size}, todo' = todo - 1, delta_time' = delta_time,
           \A n \in 1 .. size - 1 : data'[Place(front, n)] = data[Place(front, n)],
           Rest(data[front], delta_time) = IF size' = size THEN <<Contents'[size']>> ELSE <<>>
    PROVE  Settled' = Settled
<1>1. Contents \in Seq(Entry) /\ Len(Contents) = size /\ Contents[1] = data[Place(front, 0)]
  <2>1. 1 \in 1 .. size /\ 1 - 1 = 0
    BY DEF IInv, TypeOK
  <2>. QED BY <2>1, ContentsType DEF IInv
<1>2. Contents' \in Seq(Entry) /\ Len(Contents') = size'
  BY ContentsNext DEF IInv
<1>3. data[Place(front, 0)] = data[front]
  BY PlaceSame DEF IInv, TypeOK
<1>4. \A n \in 1 .. size - 1 : Contents'[n] = Contents[n + 1]
  <2>1. \A n \in 1 .. size - 1 : n <= size' => Contents'[n] = Contents[n + 1]
    BY Dequeued DEF IInv
  <2>. QED BY <2>1 DEF IInv, TypeOK
<1>5. todo \in 1 .. size /\ size \in Nat /\ todo \in Nat
  BY DEF IInv, TypeOK, NeverEmptyHanded
<1>. DEFINE L == SubSeq(Contents, 1, todo)
            B == SubSeq(Contents, todo + 1, size)
            R == Rest(data[front], delta_time)
            T == Later(Tail(L), delta_time)
<1>6. /\ SubSeq(Contents', 1, todo - 1) = Tail(L)
      /\ size' = size - 1 => SubSeq(Contents', todo, size') = B
      /\ size' = size => SubSeq(Contents', todo, size') = B \o <<Contents'[size']>>
  BY <1>1, <1>2, <1>4, <1>5, Shifted
<1>7. L \in Seq(Entry) /\ L # <<>> /\ L[1] = data[front] /\ B \in Seq(Entry)
  <2>1. \A n \in 1 .. size : Contents[n] \in Entry
    BY <1>1, ElementOfSeq
  <2>2. \A n \in 1 .. todo : Contents[n] \in Entry
    BY <1>5, <2>1
  <2>3. L \in Seq(Entry) /\ Len(L) = todo /\ L[1] = Contents[1]
    BY <1>5, <2>2, SubSeqProperties
  <2>4. \A n \in todo + 1 .. size : Contents[n] \in Entry
    BY <1>5, <2>1
  <2>5. B \in Seq(Entry)
    BY <1>5, <2>4, SubSeqProperties
  <2>. QED BY <1>1, <1>3, <1>5, <2>3, <2>5
<1>8. delta_time \in Nat /\ Timed(Entry, delta_time)
  <2>1. delta_time \in Nat
    BY QueueAssumption DEF IInv, TypeOK
  <2>. QED BY <2>1, EntryTimed
<1>9. Later(L, delta_time) = R \o T
  <2>. HIDE DEF L
  <2>. QED BY <1>7, <1>8, LaterFirst
<1>10. R \in Seq(Entry) /\ T \in Seq(Entry)
  <2>1. data[front] \in Entry
    BY DEF IInv, TypeOK
  <2>2. R \in Seq(Entry)
    BY <1>8, <2>1, RestType
  <2>3. Tail(L) \in Seq(Entry)
    BY <1>7, HeadTailProperties
  <2>4. T \in Seq(Entry)
    BY <1>8, <2>3, LaterIsLasts
  <2>. QED BY <2>2, <2>4
<1>11. Settled = B \o (R \o T)
  BY <1>9 DEF Settled
<1>12. Settled' = SubSeq(Contents', todo, size') \o T
  <2>1. todo' + 1 = todo
    BY <1>5
  <2>2. Settled' = SubSeq(Contents', todo' + 1, size') \o Later(SubSeq(Contents', 1, todo'), delta_time')
    BY DEF Settled
  <2>. QED BY <1>6, <2>1, <2>2
<1>13. SubSeq(Contents', todo, size') = B \o R
  <2>1. CASE size' = size
    BY <1>6, <2>1
  <2>2. CASE size' # size
    BY <1>6, <1>7, <2>2, ConcatEmptySeq
  <2>. QED BY <2>1, <2>2
<1>. HIDE DEF B, R, T
<1>14. (B \o R) \o T = B \o (R \o T)
  BY <1>7, <1>10, ConcatAssociative
<1>. QED BY <1>11, <1>12, <1>13, <1>14

\* ... and one that puts it back.
LEMMA RunningKeeps == ASSUME IInv, IInv', AgeRunning PROVE Settled' = Settled
<1>. DEFINE e == Aged(data[front])
<1>1. /\ pc = "aging" /\ todo > 0 /\ size > 0 /\ front' = NextPlace(front) /\ e.timer > 0
      /\ todo' = todo - 1 /\ delta_time' = delta_time
      /\ size \in 0 .. MAX_COLLISION_COUNT /\ front \in Places /\ rear \in Places \cup {-1}
      /\ data \in [Places -> Entry] /\ delta_time \in Nat
  BY QueueAssumption DEF AgeRunning, IInv, TypeOK
<1>2. rear' = NextPlace(rear) /\ data' = [data EXCEPT ![NextPlace(rear)] = e] /\ size' = size
  <2>1. enqueue_collision(e, size - 1)
    BY DEF AgeRunning
  <2>2. size - 1 < MAX_COLLISION_COUNT /\ ~(size - 1 >= MAX_COLLISION_COUNT) /\ (size - 1) + 1 = size
    BY <1>1, QueueAssumption
  <2>. HIDE DEF e
  <2>. QED BY <2>1, <2>2 DEF enqueue_collision
<1>3. NextPlace(rear) = Place(front, size) /\ NextPlace(rear) \in Places
  BY <1>1, NextPlaceType DEF IInv, RingConsistent, NextPlace, Place
<1>4. \A n \in 1 .. size - 1 : data'[Place(front, n)] = data[Place(front, n)]
  <2>. SUFFICES ASSUME NEW n \in 1 .. size - 1 PROVE data'[Place(front, n)] = data[Place(front, n)]
    OBVIOUS
  <2>1. n \in 0 .. MAX_COLLISION_COUNT /\ n < size /\ size - n < MAX_COLLISION_COUNT
    BY <1>1, QueueAssumption
  <2>2. Place(front, n) # Place(front, size)
    BY <1>1, <2>1, PlacesApart
  <2>3. Place(front, n) \in Places
    BY <1>1, <2>1, PlaceType DEF Place
  <2>. HIDE DEF e
  <2>. QED BY <1>1, <1>2, <1>3, <2>2, <2>3
<1>5. Contents'[size'] = e
  <2>1. size' \in 1 .. size' /\ size - 1 \in 0 .. MAX_COLLISION_COUNT - 1 /\ (size - 1) + 1 = size
    BY <1>1, <1>2, QueueAssumption
  <2>2. Contents'[size'] = data'[Place(front', size' - 1)]
    BY <2>1, ContentsNext DEF IInv
  <2>3. Place(NextPlace(front), size - 1) = Place(front, (size - 1) + 1)
    BY <1>1, <2>1, PlaceOn
  <2>4. data'[Place(front, size)] = e
    <3>. HIDE DEF e
    <3>. QED BY <1>1, <1>2, <1>3
  <2>. QED BY <1>1, <1>2, <2>1, <2>2, <2>3, <2>4
<1>6. Rest(data[front], delta_time) = <<e>>
  <2>1. PICK k \in Kinds \cup {NoKind}, t \in 0 .. AnimTime : data[front] = [kind |-> k, timer |-> t]
    BY <1>1 DEF Entry
  <2>2. e = [kind |-> k, timer |-> t - delta_time]
    BY <2>1 DEF Aged
  <2>3. data[front].timer > delta_time
    BY <1>1, <2>1, <2>2, QueueAssumption
  <2>. QED BY <2>3 DEF Rest, Aged
<1>. HIDE DEF e
<1>. QED BY <1>1, <1>2, <1>4, <1>5, <1>6, TurnKeeps

LEMMA OverKeeps == ASSUME IInv, IInv', AgeOver PROVE Settled' = Settled
<1>1. /\ pc = "aging" /\ todo > 0 /\ size > 0 /\ front' = NextPlace(front)
      /\ todo' = todo - 1 /\ delta_time' = delta_time /\ data' = data /\ size' = size - 1 /\ size' # size
      /\ front \in Places /\ data \in [Places -> Entry] /\ delta_time \in Nat
  BY QueueAssumption DEF AgeOver, IInv, TypeOK
<1>2. Rest(data[front], delta_time) = <<>>
  <2>1. PICK k \in Kinds \cup {NoKind}, t \in 0 .. AnimTime : data[front] = [kind |-> k, timer |-> t]
    BY <1>1 DEF Entry
  <2>2. Aged(data[front]) = [kind |-> k, timer |-> t - delta_time]
    BY <2>1 DEF Aged
  <2>3. ~(data[front].timer > delta_time)
    <3>1. ~(Aged(data[front]).timer > 0)
      BY <2>2, <1>1, QueueAssumption DEF AgeOver
    <3>. QED BY <1>1, <2>1, <2>2, <3>1, QueueAssumption
  <2>. QED BY <2>3 DEF Rest
<1>. QED BY <1>1, <1>2, TurnKeeps

\* A collision is entered behind the others, or finds no room.
LEMMA CollideAdds ==
    ASSUME IInv, IInv', Collide
    PROVE  UNCHANGED Settled \/ \E k \in Kinds : Effects!Add(k)
<1>1. /\ todo = 0 /\ todo' = 0 /\ front' = front
      /\ size \in 0 .. MAX_COLLISION_COUNT /\ front \in Places /\ rear \in Places \cup {-1}
      /\ data \in [Places -> Entry]
  BY DEF Collide, IInv, TypeOK, NothingLeft
<1>2. PICK k \in Kinds : enqueue_collision([kind |-> k, timer |-> AnimTime], size)
  BY DEF Collide
<1>3. Settled = Contents /\ Settled' = Contents'
  BY <1>1, SettledQuiet, SettledQuietNext DEF IInv
<1>4. CASE size >= MAX_COLLISION_COUNT
  <2>1. UNCHANGED <<data, rear, size>>
    BY <1>1, <1>2, <1>4, QueueAssumption DEF enqueue_collision
  <2>. QED BY <1>1, <1>3, <2>1 DEF Contents
<1>5. CASE size < MAX_COLLISION_COUNT
  <2>. DEFINE e == [kind |-> k, timer |-> AnimTime]
  <2>0. e \in Entry
    BY QueueAssumption DEF Entry
  <2>1. data' = [data EXCEPT ![NextPlace(rear)] = e] /\ size' = size + 1
    BY <1>1, <1>2, <1>5, QueueAssumption DEF enqueue_collision
  <2>2. NextPlace(rear) = Place(front, size) /\ NextPlace(rear) \in Places
    BY <1>1, NextPlaceType DEF IInv, RingConsistent, NextPlace, Place
  <2>. HIDE DEF e
  <2>3. Contents \in Seq(Entry) /\ Len(Contents) = size
        /\ \A n \in 1 .. size : Contents[n] = data[Place(front, n - 1)]
    BY ContentsType DEF IInv
  <2>4. Contents' \in Seq(Entry) /\ Len(Contents') = size + 1
        /\ \A n \in 1 .. size + 1 : Contents'[n] = data'[Place(front, n - 1)]
    BY <1>1, <2>1, ContentsNext DEF IInv
  <2>5. Append(Contents, e) \in Seq(Entry) /\ Len(Append(Contents, e)) = size + 1
        /\ \A n \in 1 .. size : Append(Contents, e)[n] = Contents[n]
        /\ Append(Contents, e)[size + 1] = e
    BY <2>0, <2>3, AppendProperties
  <2>6. \A n \in 1 .. size + 1 : Contents'[n] = Append(Contents, e)[n]
    <3>. SUFFICES ASSUME NEW n \in 1 .. size + 1 PROVE Contents'[n] = Append(Contents, e)[n]
      OBVIOUS
    <3>1. CASE n = size + 1
      <4>1. n - 1 = size
        BY <1>1, <3>1
      <4>. QED BY <1>1, <2>1, <2>2, <2>4, <2>5, <3>1, <4>1
    <3>2. CASE n # size + 1
      <4>1. /\ n \in 1 .. size /\ n - 1 \in 0 .. MAX_COLLISION_COUNT /\ n - 1 < size
            /\ size - (n - 1) < MAX_COLLISION_COUNT \/ n = 1
        BY <1>1, <1>5, <3>2, QueueAssumption
      <4>2. Place(front, n - 1) # Place(front, size)
        <5>1. size - (n - 1) < MAX_COLLISION_COUNT
          BY <1>1, <1>5, <4>1
        <5>. QED BY <1>1, <4>1, <5>1, PlacesApart
      <4>3. Place(front, n - 1) \in Places
        BY <1>1, <4>1, PlaceType DEF Place
      <4>4. data'[Place(front, n - 1)] = data[Place(front, n - 1)]
        BY <1>1, <2>1, <2>2, <4>2, <4>3
      <4>. QED BY <2>3, <2>4, <2>5, <4>1, <4>4
    <3>. QED BY <3>1, <3>2
  <2>7. Contents' = Append(Contents, e)
    BY <2>4, <2>5, <2>6, SeqEqual
  <2>8. Len(Settled) < MAX_COLLISION_COUNT /\ Settled' = Append(Settled, Effects!Effect(k))
    BY <1>3, <1>5, <2>3, <2>7 DEF e, Effects!Effect
  <2>. QED BY <2>8 DEF Effects!Add
<1>. QED BY <1>1, <1>4, <1>5, QueueAssumption

LEMMA EffectsStart == Init => Effects!Init
<1>. SUFFICES ASSUME Init PROVE Settled = <<>>
  BY DEF Effects!Init
<1>1. TypeOK
  BY Start DEF IInv
<1>2. todo = 0 /\ size = 0
  BY DEF Init, init_collision_queue
<1>3. Settled = Contents /\ Contents \in Seq(Entry) /\ Len(Contents) = 0
  BY <1>1, <1>2, SettledQuiet, ContentsType
<1>. QED BY <1>3, EmptySeq

LEMMA EffectsStep == IInv /\ IInv' /\ [Next]_vars => [Effects!Next]_Settled
<1>. SUFFICES ASSUME IInv, IInv', [Next]_vars PROVE [Effects!Next]_Settled
  OBVIOUS
<1>1. CASE BeginUpdate
  <2>1. delta_time' \in Deltas /\ Settled' = Later(Settled, delta_time')
    BY <1>1, BeginPasses
  <2>2. Effects!Pass(delta_time')
    BY <2>1 DEF Effects!Pass, Effects!Later, Later, Effects!Rest, Rest
  <2>. QED BY <2>1, <2>2 DEF Effects!Next
<1>2. CASE AgeRunning
  BY <1>2, RunningKeeps
<1>3. CASE AgeOver
  BY <1>3, OverKeeps
<1>4. CASE EndUpdate
  <2>1. todo = 0 /\ todo' = 0 /\ UNCHANGED <<data, front, size>>
    BY <1>4 DEF EndUpdate
  <2>2. Contents' = Contents
    BY <2>1 DEF Contents
  <2>. QED BY <2>1, <2>2, SettledQuiet, SettledQuietNext DEF IInv
<1>5. CASE Collide
  BY <1>5, CollideAdds DEF Effects!Next
<1>6. CASE EndDraw
  BY <1>6 DEF EndDraw, Settled, Contents
<1>7. CASE UNCHANGED vars
  BY <1>7 DEF vars, Settled, Contents
<1>. QED BY <1>1, <1>2, <1>3, <1>4, <1>5, <1>6, <1>7 DEF Next

\* The ring implements the list of running effects: nothing that runs is lost
\* while an update takes the entries out and puts them back, or overtaken.
THEOREM RingImplementsEffects == Spec => ImplementsEffects
<1>1. Effects!Init /\ [][Effects!Next]_Settled => Effects!Spec
  BY DEF Effects!Spec
<1>2. Spec => Effects!Init /\ [][Effects!Next]_Settled
  BY EffectsStart, EffectsStep, Invariant, PTL DEF Spec
<1>. QED BY <1>1, <1>2 DEF ImplementsEffects
=============================================================================
