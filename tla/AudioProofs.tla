---------------------------- MODULE AudioProofs -----------------------------
(***************************************************************************)
(* Proofs about what the audio threads share with the others, which they   *)
(* do without a lock, and about the playback callback itself.              *)
(*   SpscRing, for every capacity, counter width and data set: the ring    *)
(*   invariant, freedom from data races, the safety of size(), and the     *)
(*   refinement of the abstract queue.                                     *)
(*   Seqlock, for any group of cells and any number of updates: as long as *)
(*   the machine makes the stores visible in program order, reads are      *)
(*   neither torn nor stale.                                               *)
(*   Playback, for blocks, scratch buffers and tempos of any size and any  *)
(*   number of models: what a block goes through, and the metronome.       *)
(***************************************************************************)
EXTENDS SpscRing, Seqlock, Playback, SequenceTheorems, FiniteSetTheorems, TLAPS

-----------------------------------------------------------------------------
(* Arithmetic of the wrapping counters.                                    *)

LEMMA ModulusBig ==
  /\ Modulus \in Nat /\ Capacity \in Nat /\ Capacity > 0
  /\ Modulus >= 2 * Capacity
<1>1. PICK k \in 2 .. Modulus : Modulus = k * Capacity
  BY RingAssumption
<1>2. k * Capacity >= 2 * Capacity
  BY <1>1, RingAssumption, SMTT(30)
<1> QED
  BY <1>1, <1>2, RingAssumption

\* A slot index is an index of the buffer.
LEMMA SlotType ==
  ASSUME NEW a \in Counter
  PROVE  Slot(a) \in 0 .. Capacity - 1
BY ModulusBig DEF Slot, Counter

\* Division with remainder, in the form the next lemma needs.
LEMMA SlotDivision ==
  ASSUME NEW a \in Nat
  PROVE  \E q \in Nat : a = q * Capacity + Slot(a)
<1>1. a = Capacity * (a \div Capacity) + (a % Capacity)
  BY ModulusBig, SMTT(30)
<1>2. a \div Capacity \in Nat
  BY ModulusBig, SMTT(30)
<1> QED
  BY <1>1, <1>2, ModulusBig, SMTT(30) DEF Slot

\* No multiple of the capacity lies strictly between 0 and the capacity.
LEMMA NoSmallMultiple ==
  ASSUME NEW d \in Int, d * Capacity > 0
  PROVE  d * Capacity >= Capacity
<1>1. d >= 1
  BY ModulusBig, SMTT(30)
<1> QED
  BY <1>1, ModulusBig, SMTT(30)

\* Two counters less than one lap apart have different slots.
LEMMA SlotDistinct ==
  ASSUME NEW a \in Counter, NEW b \in Counter,
         Sub(a, b) > 0, Sub(a, b) < Capacity
  PROVE  Slot(a) # Slot(b)
<1> SUFFICES ASSUME Slot(a) = Slot(b)
             PROVE  FALSE
  OBVIOUS
<1>0. a \in Nat /\ b \in Nat
  BY ModulusBig DEF Counter
<1>1. PICK p \in Nat : a = p * Capacity + Slot(a)
  BY <1>0, SlotDivision
<1>2. PICK q \in Nat : b = q * Capacity + Slot(b)
  BY <1>0, SlotDivision
<1>3. PICK k \in 2 .. Modulus : Modulus = k * Capacity
  BY RingAssumption
<1>4. Slot(a) \in Int
  BY SlotType, ModulusBig
<1>5. a - b = (p - q) * Capacity
  <2>1. a - b = p * Capacity - q * Capacity
    BY <1>0, <1>1, <1>2, <1>4, ModulusBig
  <2>2. (p - q) * Capacity = p * Capacity - q * Capacity
    BY ModulusBig, SMTT(30)
  <2> QED
    BY <2>1, <2>2
<1>6. CASE a >= b
  <2>1. Sub(a, b) = (p - q) * Capacity
    BY <1>5, <1>6 DEF Sub
  <2>2. p - q \in Int
    OBVIOUS
  <2> QED
    BY <2>1, <2>2, NoSmallMultiple, ModulusBig
<1>7. CASE ~(a >= b)
  <2>1. Sub(a, b) = (p - q) * Capacity + k * Capacity
    BY <1>3, <1>5, <1>7 DEF Sub
  <2>2. (p - q + k) * Capacity = (p - q) * Capacity + k * Capacity
    BY ModulusBig, SMTT(30)
  <2>3. p - q + k \in Int
    OBVIOUS
  <2> QED
    BY <2>1, <2>2, <2>3, NoSmallMultiple, ModulusBig
<1> QED
  BY <1>6, <1>7

\* Facts about the counters that hold without regard to the slots: each
\* operation stays in range, and they fit together as on the number circle.
LEMMA CounterArithmetic ==
  ASSUME NEW a \in Counter, NEW b \in Counter
  PROVE  /\ Inc(a) \in Counter
         /\ Sub(a, b) \in Counter
         /\ Sub(a, a) = 0
         /\ Sub(a, b) = 0 => a = b
         /\ Plus(b, Sub(a, b)) = a
         /\ \A n \in Counter : Plus(a, n) \in Counter
         /\ \A n \in Counter : n <= Sub(a, b) =>
              /\ Sub(a, Plus(b, n)) = Sub(a, b) - n
              /\ Sub(Plus(b, n), b) = n
         /\ Sub(a, b) < Modulus - 1 => Sub(Inc(a), b) = Sub(a, b) + 1
         /\ Sub(a, b) > 0 => Sub(a, Inc(b)) = Sub(a, b) - 1
         /\ \A n \in Counter : n < Modulus - 1 => Plus(Inc(a), n) = Plus(a, n + 1)
BY ModulusBig DEF Counter, Inc, Sub, Plus

\* Three counters in order on the circle: differences add up.
LEMMA CounterOrder ==
  ASSUME NEW a \in Counter, NEW b \in Counter, NEW c \in Counter,
         Sub(b, c) <= Sub(a, c)
  PROVE  Sub(a, c) = Sub(a, b) + Sub(b, c)
BY ModulusBig DEF Counter, Sub

-----------------------------------------------------------------------------
(* The invariant.                                                          *)

\* The initial state satisfies it.
LEMMA RingInit == Init => RingInv
BY ModulusBig, RingAssumption, CounterArithmetic
   DEF Init, RingInv, TypeOK, WindowOrdered, SlotsHeld, Counter, Sub

\* A thread that moves its view of the other counter forward by n keeps the
\* window in order.
LEMMA LookForward ==
  ASSUME RingInv
  PROVE  /\ \A n \in 0 .. Sub(tail, tailSeen) :
              LET t == Plus(tailSeen, n) IN
                /\ t \in Counter
                /\ Sub(head, t) <= Sub(head, tailSeen)
                /\ Sub(tail, t) = Sub(tail, tailSeen) - n
                /\ Sub(tail, t) <= Sub(head, t)
         /\ \A n \in 0 .. Sub(head, headSeen) :
              LET h == Plus(headSeen, n) IN
                /\ h \in Counter
                /\ Sub(head, h) = Sub(head, headSeen) - n
                /\ Sub(h, tail) <= Sub(head, tail)
                /\ h = tail => headSeen = tail
BY ModulusBig DEF RingInv, TypeOK, WindowOrdered, Counter, Plus, Sub

\* Each step keeps it.
LEMMA RingStep == RingInv /\ [Next]_vars => RingInv'
<1> SUFFICES ASSUME RingInv, [Next]_vars
             PROVE  RingInv'
  OBVIOUS
<1> USE DEF RingInv
<1>1. ASSUME NEW v \in Data, PushLoad(v)
      PROVE  RingInv'
  <2>1. PICK n \in 0 .. Sub(tail, tailSeen) :
          /\ tailSeen' = Plus(tailSeen, n)
          /\ IF HasRoom(tailSeen')
               THEN pPc' = "store" /\ pVal' = v
               ELSE UNCHANGED <<pPc, pVal>>
    BY <1>1 DEF PushLoad
  <2>2. UNCHANGED <<slots, head, tail, cVars>> /\ pPc = "idle"
    BY <1>1 DEF PushLoad
  <2>3. TypeOK'
    BY <2>1, <2>2, LookForward DEF TypeOK, cVars
  <2>4. WindowOrdered'
    BY <2>1, <2>2, LookForward, ModulusBig, SMTT(30)
       DEF WindowOrdered, cVars, TypeOK, Counter, Sub
  <2>5. SlotsHeld'
    BY <2>1, <2>2 DEF SlotsHeld, cVars, HasRoom, Sub, Slot
  <2> QED
    BY <2>3, <2>4, <2>5
<1>2. CASE PushStore
  <2>1. TypeOK'
    BY <1>2 DEF PushStore, TypeOK, cVars
  <2>2. WindowOrdered'
    BY <1>2 DEF PushStore, WindowOrdered, cVars, Sub
  <2>3. Slot(head) \in 0 .. Capacity - 1
    BY SlotType DEF TypeOK
  <2>4. cPc = "publish" => Slot(head) # Slot(tail)
    <3> SUFFICES ASSUME cPc = "publish"
                 PROVE  Slot(head) # Slot(tail)
      OBVIOUS
    <3>1. Sub(head, tail) > 0
      BY ModulusBig DEF SlotsHeld, WindowOrdered, TypeOK, Counter, Sub
    <3>2. Sub(head, tail) < Capacity
      BY <1>2, ModulusBig
         DEF PushStore, SlotsHeld, WindowOrdered, TypeOK, Counter, Sub
    <3> QED
      BY <3>1, <3>2, SlotDistinct DEF TypeOK
  <2>5. SlotsHeld'
    BY <1>2, <2>3, <2>4 DEF PushStore, SlotsHeld, TypeOK, cVars, Sub, Slot
  <2> QED
    BY <2>1, <2>2, <2>5
<1>3. CASE PushPublish
  <2>1. head' \in Counter /\ Sub(head', tailSeen) = Sub(head, tailSeen) + 1
                          /\ Sub(head', tail) = Sub(head, tail) + 1
    BY <1>3, ModulusBig
       DEF PushPublish, TypeOK, SlotsHeld, WindowOrdered, Counter, Inc, Sub
  <2>2. TypeOK'
    BY <1>3, <2>1 DEF PushPublish, TypeOK, cVars
  <2>3. WindowOrdered'
    BY <1>3, <2>1, ModulusBig, SMTT(30)
       DEF PushPublish, WindowOrdered, SlotsHeld, TypeOK, Counter, cVars, Sub
  <2>4. SlotsHeld'
    BY <1>3 DEF PushPublish, SlotsHeld, cVars, Slot
  <2> QED
    BY <2>2, <2>3, <2>4
<1>4. CASE ProducerSize
  <2>0. PICK n \in 0 .. Sub(tail, tailSeen) : tailSeen' = Plus(tailSeen, n)
    BY <1>4 DEF ProducerSize
  <2>1. TypeOK'
    BY <1>4, <2>0, LookForward DEF ProducerSize, TypeOK, cVars
  <2>2. WindowOrdered'
    <3>1. UNCHANGED <<head, tail, headSeen>>
      BY <1>4 DEF ProducerSize, cVars
    <3>2. /\ Sub(head, tailSeen') <= Sub(head, tailSeen)
          /\ Sub(tail, tailSeen') <= Sub(head, tailSeen')
          /\ tailSeen' \in Counter
      BY <2>0, LookForward
    <3>3. /\ Sub(head, tailSeen) \in Int
          /\ Sub(head, tailSeen') \in Int
      BY <3>2, ModulusBig DEF TypeOK, Counter, Sub
    <3>4. Sub(head, tailSeen') <= Capacity
      BY <3>2, <3>3, ModulusBig DEF WindowOrdered
    <3> QED
      BY <3>1, <3>2, <3>4 DEF WindowOrdered, Sub
  <2>3. SlotsHeld'
    BY <1>4 DEF ProducerSize, SlotsHeld, cVars, Slot
  <2> QED
    BY <2>1, <2>2, <2>3
<1>5. CASE PopLoad
  <2>1. PICK n \in 0 .. Sub(head, headSeen) :
          /\ headSeen' = Plus(headSeen, n)
          /\ cPc' = IF tail = headSeen' THEN "idle" ELSE "read"
    BY <1>5 DEF PopLoad
  <2>2. UNCHANGED <<slots, head, tail, cVal, out, pVars>>
    BY <1>5 DEF PopLoad
  <2>3. TypeOK'
    BY <2>1, <2>2, LookForward DEF TypeOK, pVars
  <2>4. WindowOrdered'
    BY <2>1, <2>2, LookForward DEF WindowOrdered, pVars, Sub
  <2>5. SlotsHeld'
    BY <2>1, <2>2 DEF SlotsHeld, pVars, Sub, Slot
  <2> QED
    BY <2>3, <2>4, <2>5
<1>6. CASE PopRead
  <2>1. TypeOK'
    BY <1>6, SlotType DEF PopRead, TypeOK, pVars
  <2>2. WindowOrdered'
    BY <1>6 DEF PopRead, WindowOrdered, pVars, Sub
  <2>3. SlotsHeld'
    BY <1>6 DEF PopRead, SlotsHeld, pVars, Sub, Slot
  <2> QED
    BY <2>1, <2>2, <2>3
<1>7. CASE PopPublish
  <2>1. /\ tail' \in Counter
        /\ Sub(tail', tailSeen) = Sub(tail, tailSeen) + 1
        /\ Sub(tail', tailSeen) <= Sub(head, tailSeen)
        /\ Sub(headSeen, tail') = Sub(headSeen, tail) - 1
        /\ Sub(head, tail') = Sub(head, tail) - 1
    BY <1>7, ModulusBig
       DEF PopPublish, TypeOK, SlotsHeld, WindowOrdered, Counter, Inc, Sub
  <2>2. TypeOK'
    BY <1>7, <2>1 DEF PopPublish, TypeOK, pVars
  <2>3. WindowOrdered'
    BY <1>7, <2>1, ModulusBig, SMTT(30)
       DEF PopPublish, WindowOrdered, TypeOK, Counter, pVars, Sub
  <2>4. SlotsHeld'
    BY <1>7 DEF PopPublish, SlotsHeld, pVars, Sub, Slot
  <2> QED
    BY <2>2, <2>3, <2>4
<1>8. CASE ConsumerSize
  <2>1. TypeOK'
    BY <1>8, LookForward DEF ConsumerSize, TypeOK, pVars
  <2>2. WindowOrdered'
    BY <1>8, LookForward DEF ConsumerSize, WindowOrdered, pVars, Sub
  <2>3. SlotsHeld'
    BY <1>8, LookForward DEF ConsumerSize, SlotsHeld, pVars, Sub, Slot
  <2> QED
    BY <2>1, <2>2, <2>3
<1>9. CASE UNCHANGED vars
  BY <1>9 DEF vars, pVars, cVars, TypeOK, WindowOrdered, SlotsHeld, Sub, Slot
<1> QED
  BY <1>1, <1>2, <1>3, <1>4, <1>5, <1>6, <1>7, <1>8, <1>9
     DEF Next, Producer, Consumer

\* The invariant holds throughout: no interleaving of the two threads, however
\* stale the counters they work with, makes the ring lap itself.
THEOREM RingInvariant == Spec => []RingInv
BY RingInit, RingStep, PTL DEF Spec

\* The producer never writes the slot the consumer is reading.
THEOREM RingNoDataRace == Spec => []NoDataRace
<1>1. RingInv => NoDataRace
  <2> SUFFICES ASSUME RingInv, pPc = "store", cPc = "read"
               PROVE  Slot(head) # Slot(tail)
    BY DEF NoDataRace
  <2>1. Sub(head, tail) > 0 /\ Sub(head, tail) < Capacity
    BY ModulusBig DEF RingInv, SlotsHeld, WindowOrdered, TypeOK, Counter, Sub
  <2> QED
    BY <2>1, SlotDistinct DEF RingInv, TypeOK
<1> QED
  BY <1>1, RingInvariant, PTL

\* The difference of the counters that size() returns to either thread is
\* within 0 .. Capacity and errs on the side that is safe for its caller.
THEOREM RingSizeIsSafe == Spec => []SizeIsSafe
<1>1. RingInv => SizeIsSafe
  BY ModulusBig
     DEF RingInv, TypeOK, WindowOrdered, SizeIsSafe, Size, Counter, Sub
<1> QED
  BY <1>1, RingInvariant, PTL

-----------------------------------------------------------------------------
(* The refinement of the abstract queue.                                   *)

\* A store into the free slot does not disturb the queued items.
LEMMA StoreKeepsQueue ==
  ASSUME RingInv, PushStore
  PROVE  Queue' = Queue
<1>1. ASSUME NEW i \in 1 .. Sub(head, tail)
      PROVE  slots'[Slot(Plus(tail, i - 1))] = slots[Slot(Plus(tail, i - 1))]
  <2> DEFINE p == Plus(tail, i - 1)
  <2>1. p \in Counter /\ Sub(head, p) > 0 /\ Sub(head, p) < Capacity
    BY ModulusBig
       DEF RingInv, PushStore, SlotsHeld, WindowOrdered, TypeOK, Counter,
           Plus, Sub
  <2>2. Slot(head) # Slot(p)
    BY <2>1, SlotDistinct DEF RingInv, TypeOK
  <2>3. Slot(p) \in 0 .. Capacity - 1
    BY <2>1, SlotType
  <2> QED
    BY <2>2, <2>3 DEF PushStore, RingInv, TypeOK
<1>2. head' = head /\ tail' = tail
  BY DEF PushStore
<1> QED
  BY <1>1, <1>2 DEF Queue, Slot, Plus, Sub

\* The head store makes the stored item the last of the queue.
LEMMA PublishAppends ==
  ASSUME RingInv, PushPublish
  PROVE  /\ Queue' = Append(Queue, pVal)
         /\ Sub(head', headSeen) = Sub(head, headSeen) + 1
<1> DEFINE n == Sub(head, tail)
<1>1. /\ n \in 0 .. Capacity - 1
      /\ Sub(head', tail') = n + 1
      /\ Plus(tail, n) = head
      /\ Sub(head', headSeen) = Sub(head, headSeen) + 1
  BY ModulusBig
     DEF RingInv, PushPublish, SlotsHeld, WindowOrdered, TypeOK, Counter,
         Inc, Plus, Sub
<1>2. slots' = slots /\ tail' = tail /\ slots[Slot(head)] = pVal
  BY DEF PushPublish, RingInv, SlotsHeld
<1>3. Queue' = [i \in 1 .. n + 1 |-> slots[Slot(Plus(tail, i - 1))]]
  BY <1>1, <1>2 DEF Queue, Plus, Slot
<1>4. Queue = [i \in 1 .. n |-> slots[Slot(Plus(tail, i - 1))]]
  BY DEF Queue
<1>5. Len(Queue) = n
  BY <1>1, <1>4, ModulusBig
<1>6. Append(Queue, pVal) = [i \in 1 .. n + 1 |-> IF i = n + 1 THEN pVal
                                                   ELSE Queue[i]]
  BY <1>1, <1>4, <1>5, ModulusBig
<1>7. ASSUME NEW i \in 1 .. n + 1
      PROVE  slots[Slot(Plus(tail, i - 1))]
               = IF i = n + 1 THEN pVal ELSE Queue[i]
  <2>1. CASE i = n + 1
    <3>1. i - 1 = n
      BY <1>1, <2>1, ModulusBig
    <3> QED
      BY <1>1, <1>2, <2>1, <3>1
  <2>2. CASE i # n + 1
    BY <1>1, <1>4, <2>2, ModulusBig
  <2> QED
    BY <2>1, <2>2
<1> HIDE DEF n
<1> QED
  BY <1>1, <1>3, <1>6, <1>7

\* The tail store removes the oldest item, which is the one handed out.
LEMMA PopTakesHead ==
  ASSUME RingInv, PopPublish
  PROVE  /\ out' = Head(Queue)
         /\ Queue' = Tail(Queue)
         /\ Len(Queue) - Sub(head, headSeen) > 0
         /\ Sub(tail', tailSeen) = Sub(tail, tailSeen) + 1
<1> DEFINE n == Sub(head, tail)
<1>1. /\ n \in 1 .. Capacity
      /\ Sub(head', tail') = n - 1
      /\ n - Sub(head, headSeen) > 0
      /\ Sub(tail', tailSeen) = Sub(tail, tailSeen) + 1
      /\ Plus(tail, 0) = tail
      /\ \A i \in 1 .. n - 1 : Plus(tail', i - 1) = Plus(tail, i)
  BY ModulusBig
     DEF RingInv, PopPublish, SlotsHeld, WindowOrdered, TypeOK, Counter,
         Inc, Plus, Sub
<1>2. slots' = slots /\ head' = head /\ out' = cVal
                     /\ cVal = slots[Slot(tail)]
  BY DEF PopPublish, RingInv, SlotsHeld
<1>3. Queue = [i \in 1 .. n |-> slots[Slot(Plus(tail, i - 1))]]
  BY DEF Queue
<1>4. Queue' = [i \in 1 .. n - 1 |-> slots[Slot(Plus(tail, i))]]
  <2>1. Queue' = [i \in 1 .. n - 1 |-> slots[Slot(Plus(tail', i - 1))]]
    BY <1>1, <1>2 DEF Queue, Plus, Slot
  <2> HIDE DEF n
  <2> QED
    BY <1>1, <2>1
<1>5. Len(Queue) = n
  BY <1>1, <1>3, ModulusBig
<1>6. Head(Queue) = slots[Slot(tail)]
  BY <1>1, <1>3, ModulusBig
<1>7. Tail(Queue) = [i \in 1 .. n - 1 |-> Queue[i + 1]]
  BY <1>1, <1>3, <1>5, ModulusBig
<1>8. ASSUME NEW i \in 1 .. n - 1
      PROVE  Queue[i + 1] = slots[Slot(Plus(tail, i))]
  <2>1. i + 1 \in 1 .. n /\ (i + 1) - 1 = i
    BY <1>1, ModulusBig
  <2> QED
    BY <1>3, <2>1
<1> HIDE DEF n
<1> QED
  BY <1>1, <1>2, <1>4, <1>5, <1>6, <1>7, <1>8

\* Each step of the ring is a step of the queue or leaves it unchanged.
LEMMA RingStepIsQueueStep == RingInv /\ [Next]_vars => [Q!Next]_Q!vars
<1> SUFFICES ASSUME RingInv, [Next]_vars
             PROVE  [Q!Next]_Q!vars
  OBVIOUS
<1>0. /\ Sub(tail, tailSeen) \in Nat /\ Sub(head, headSeen) \in Nat
      /\ Sub(tail, tailSeen) <= Sub(head, tailSeen)
  BY ModulusBig DEF RingInv, TypeOK, WindowOrdered, Counter, Sub
<1>1. Len(Queue) = Sub(head, tail)
  BY ModulusBig DEF RingInv, TypeOK, WindowOrdered, Counter, Sub, Queue
<1>2. ASSUME UNCHANGED <<slots, head, tail>>
      PROVE  Queue' = Queue
  BY <1>2 DEF Queue, Sub, Plus, Slot
<1>3. ASSUME NEW n \in 0 .. Sub(tail, tailSeen),
             tailSeen' = Plus(tailSeen, n),
             UNCHANGED <<slots, head, tail, headSeen, out>>
      PROVE  Q!Next
  <2>1. Sub(tail', tailSeen') = Sub(tail, tailSeen) - n
    BY <1>3, LookForward DEF Sub
  <2>2. Sub(tail, tailSeen) - n \in 0 .. Sub(tail, tailSeen)
    BY <1>0
  <2>3. Q!ProducerLook(Sub(tail, tailSeen) - n)
    BY <1>2, <1>3, <2>1, <2>2 DEF Q!ProducerLook, Sub
  <2> QED
    BY <2>2, <2>3 DEF Q!Next
<1>4. ASSUME NEW n \in 0 .. Sub(head, headSeen),
             headSeen' = Plus(headSeen, n),
             UNCHANGED <<slots, head, tail, tailSeen, out>>
      PROVE  Q!Next
  <2>1. Sub(head', headSeen') = Sub(head, headSeen) - n
    BY <1>4, LookForward DEF Sub
  <2>2. Sub(head, headSeen) - n \in 0 .. Sub(head, headSeen)
    BY <1>0
  <2>3. Q!ConsumerLook(Sub(head, headSeen) - n)
    BY <1>2, <1>4, <2>1, <2>2 DEF Q!ConsumerLook, Sub
  <2> QED
    BY <2>2, <2>3 DEF Q!Next
<1>5. ASSUME NEW v \in Data, PushLoad(v)
      PROVE  Q!Next
  BY <1>3, <1>5 DEF PushLoad, cVars
<1>6. CASE PushStore
  BY <1>6, StoreKeepsQueue DEF PushStore, Q!vars, cVars, Sub
<1>7. CASE PushPublish
  <2> DEFINE n == Sub(tail, tailSeen)
  <2>1. Sub(head, tail) + n < Capacity
    BY <1>7, ModulusBig
       DEF PushPublish, RingInv, SlotsHeld, WindowOrdered, TypeOK, Counter, Sub
  <2>2. UNCHANGED <<tail, tailSeen, headSeen, out>>
    BY <1>7 DEF PushPublish, cVars
  <2>3. Sub(tail', tailSeen') = n
    BY <2>2 DEF Sub
  <2>4. Sub(head', headSeen') = Sub(head, headSeen) + 1
    BY <1>7, <2>2, PublishAppends DEF Sub
  <2>5. n \in 0 .. n
    BY <1>0
  <2>6. Q!Push(pVal, n)
    BY <1>1, <1>7, <2>1, <2>2, <2>3, <2>4, <2>5, PublishAppends
       DEF Q!Push, Q!ProducerSize
  <2>7. pVal \in Data
    BY DEF RingInv, TypeOK
  <2> QED
    BY <2>5, <2>6, <2>7 DEF Q!Next
<1>8. CASE ProducerSize
  BY <1>3, <1>8 DEF ProducerSize, cVars
<1>9. CASE PopLoad
  BY <1>4, <1>9 DEF PopLoad, pVars
<1>10. CASE PopRead
  BY <1>2, <1>10 DEF PopRead, Q!vars, pVars, Sub
<1>11. CASE PopPublish
  <2> DEFINE n == Sub(head, headSeen)
  <2>1. UNCHANGED <<head, headSeen, tailSeen>>
    BY <1>11 DEF PopPublish, pVars
  <2>2. Sub(head', headSeen') = n
    BY <2>1 DEF Sub
  <2>3. Sub(tail', tailSeen') = Sub(tail, tailSeen) + 1
    BY <1>11, <2>1, PopTakesHead DEF Sub
  <2>4. n \in 0 .. n
    BY <1>0
  <2>5. Q!Pop(n)
    BY <1>11, <2>2, <2>3, <2>4, PopTakesHead DEF Q!Pop, Q!ConsumerSize
  <2> QED
    BY <2>4, <2>5 DEF Q!Next
<1>12. CASE ConsumerSize
  BY <1>4, <1>12 DEF ConsumerSize, pVars
<1>13. CASE UNCHANGED vars
  BY <1>2, <1>13 DEF vars, pVars, cVars, Q!vars, Sub
<1> QED
  BY <1>5, <1>6, <1>7, <1>8, <1>9, <1>10, <1>11, <1>12, <1>13
     DEF Next, Producer, Consumer

\* The ring implements the bounded queue with stale views: nothing is lost,
\* duplicated, reordered or altered between push and pop, for any capacity and
\* counter width and across wraparound.
THEOREM RingImplementsFifo == Spec => FifoSpec
<1>1. Init => Q!Init
  BY ModulusBig, RingAssumption DEF Init, Q!Init, Queue, Sub
<1> QED
  BY <1>1, RingInvariant, RingStepIsQueueStep, PTL DEF Spec, FifoSpec, Q!Spec

-----------------------------------------------------------------------------
(* The seqlock.                                                            *)


\* The initial state satisfies the invariant.
LEMMA SeqlockInit == LockInit => SeqlockInv
<1> SUFFICES ASSUME LockInit
             PROVE  SeqlockInv
  OBVIOUS
<1>1. LockTypes
  BY DEF LockInit, LockTypes
<1>2. WriterInv
  BY DEF LockInit, WriterInv
<1>3. ReaderInv
  <2>1. 0 \in floor .. updates /\ \A c \in Cells : got[c] = 0
    BY DEF LockInit
  <2> QED
    BY <2>1 DEF LockInit, ReaderInv
<1> QED
  BY <1>1, <1>2, <1>3 DEF SeqlockInv

\* The writer's steps keep it.
LEMMA WriterStep ==
  ASSUME SeqlockInv, Writer
  PROVE  SeqlockInv'
<1>1. LockTypes /\ (overtaken => overtaken')
  BY DEF SeqlockInv, LockTypes, Writer, UpdateBegin, StoreOdd, StoreCell, StoreEven
<1>2. LockTypes'
  <2>1. CASE UpdateBegin
    BY <1>1, <2>1 DEF UpdateBegin, LockTypes, rVars
  <2>2. CASE StoreOdd
    BY <1>1, <2>2 DEF StoreOdd, LockTypes, rVars
  <2>3. ASSUME NEW c \in Cells, StoreCell(c)
        PROVE  LockTypes'
    BY <1>1, <2>3 DEF StoreCell, LockTypes, rVars
  <2>4. CASE StoreEven
    BY <1>1, <2>4 DEF StoreEven, LockTypes, rVars
  <2> QED
    BY <2>1, <2>2, <2>3, <2>4 DEF Writer
<1>3. ASSUME ~overtaken'
      PROVE  WriterInv' /\ ReaderInv'
  <2>0. WriterInv /\ ReaderInv
    BY <1>1, <1>3 DEF SeqlockInv
  <2>1. CASE UpdateBegin
    <3>1. WriterInv'
      BY <1>1, <2>0, <2>1 DEF UpdateBegin, LockTypes, WriterInv, rVars
    <3>2. ReaderInv'
      BY <1>1, <2>0, <2>1 DEF UpdateBegin, LockTypes, ReaderInv, rVars
    <3> QED
      BY <3>1, <3>2
  <2>2. CASE StoreOdd
    <3>1. WriterInv'
      BY <1>1, <2>0, <2>2, SeqlockAssumption DEF StoreOdd, LockTypes, WriterInv, rVars
    <3>2. ReaderInv'
      BY <1>1, <2>0, <2>2 DEF StoreOdd, LockTypes, ReaderInv, rVars
    <3> QED
      BY <3>1, <3>2
  <2>3. ASSUME NEW c \in Cells, StoreCell(c)
        PROVE  WriterInv' /\ ReaderInv'
    <3>0. "odd" \notin pending
      BY <1>3, <2>3 DEF StoreCell
    <3>1. WriterInv'
      BY <1>1, <2>0, <2>3, <3>0, SeqlockAssumption
         DEF StoreCell, LockTypes, WriterInv, rVars
    <3>2. ReaderInv'
      BY <1>1, <2>0, <2>3, <3>0 DEF StoreCell, LockTypes, ReaderInv, rVars
    <3> QED
      BY <3>1, <3>2
  <2>4. CASE StoreEven
    <3>1. WriterInv'
      BY <1>1, <2>0, <2>4, SeqlockAssumption DEF StoreEven, LockTypes, WriterInv, rVars
    <3>2. ReaderInv'
      BY <1>1, <2>0, <2>4 DEF StoreEven, LockTypes, ReaderInv, rVars
    <3> QED
      BY <3>1, <3>2
  <2> QED
    BY <2>1, <2>2, <2>3, <2>4 DEF Writer
<1> QED
  BY <1>2, <1>3 DEF SeqlockInv

\* The reader's steps keep it.
LEMMA ReaderStep ==
  ASSUME SeqlockInv, Reader
  PROVE  SeqlockInv'
<1>1. LockTypes /\ UNCHANGED wVars
  BY DEF SeqlockInv, Reader, ReadBegin, ReadVersion, ReadCell, ReadCheck
<1>2. LockTypes'
  <2>1. CASE ReadBegin
    BY <1>1, <2>1 DEF ReadBegin, LockTypes, wVars
  <2>2. CASE ReadVersion
    BY <1>1, <2>2 DEF ReadVersion, LockTypes, rVars, wVars
  <2>3. ASSUME NEW c \in Cells, ReadCell(c)
        PROVE  LockTypes'
    BY <1>1, <2>3 DEF ReadCell, LockTypes, wVars
  <2>4. CASE ReadCheck
    BY <1>1, <2>4 DEF ReadCheck, LockTypes, wVars
  <2> QED
    BY <2>1, <2>2, <2>3, <2>4 DEF Reader
<1>3. ASSUME ~overtaken
      PROVE  WriterInv' /\ ReaderInv'
  <2>0. WriterInv /\ ReaderInv
    BY <1>3 DEF SeqlockInv
  <2>1. WriterInv'
    BY <1>1, <2>0 DEF wVars, WriterInv
  <2>2. CASE ReadBegin
    BY <1>1, <2>0, <2>1, <2>2 DEF ReadBegin, LockTypes, WriterInv, ReaderInv, wVars
  <2>3. CASE ReadVersion
    BY <1>1, <2>0, <2>1, <2>3
       DEF ReadVersion, LockTypes, WriterInv, ReaderInv, rVars, wVars
  <2>4. ASSUME NEW c \in Cells, ReadCell(c)
        PROVE  WriterInv' /\ ReaderInv'
    <3>1. version = rVersion => 2 * cell[c] = rVersion
      BY <1>1, <2>0, <2>4 DEF ReadCell, LockTypes, WriterInv, ReaderInv
    <3> QED
      BY <1>1, <2>0, <2>1, <2>4, <3>1 DEF ReadCell, LockTypes, ReaderInv, wVars
  <2>5. CASE ReadCheck
    BY <1>1, <2>0, <2>1, <2>5 DEF ReadCheck, LockTypes, ReaderInv, wVars
  <2> QED
    BY <2>2, <2>3, <2>4, <2>5 DEF Reader
<1> QED
  BY <1>1, <1>2, <1>3 DEF SeqlockInv, wVars

\* The invariant: at every version the reader may have loaded, the cells it
\* has read since belong to that version for as long as it is current.
THEOREM SeqlockInvariant == LockSpec => []SeqlockInv
<1>1. SeqlockInv /\ UNCHANGED lockVars => SeqlockInv'
  BY DEF SeqlockInv, LockTypes, WriterInv, ReaderInv, lockVars, wVars, rVars
<1>2. SeqlockInv /\ [LockNext]_lockVars => SeqlockInv'
  BY <1>1, WriterStep, ReaderStep DEF LockNext
<1> QED
  BY <1>2, SeqlockInit, PTL DEF LockSpec

\* No read mixes two updates unless a store of a cell came early.
THEOREM SeqlockNoTornRead == LockSpec => []NoTornRead
<1>1. SeqlockInv => NoTornRead
  BY DEF SeqlockInv, LockTypes, ReaderInv, NoTornRead
<1> QED
  BY <1>1, SeqlockInvariant, PTL

\* Nor does it return less than what was complete when it began.
THEOREM SeqlockNoStaleRead == LockSpec => []NoStaleRead
<1>1. SeqlockInv => NoStaleRead
  BY DEF SeqlockInv, LockTypes, ReaderInv, NoStaleRead
<1> QED
  BY <1>1, SeqlockInvariant, PTL

-----------------------------------------------------------------------------
(* Frames.                                                                 *)

\* What a unit does to a block: its length stays, and each frame at one of the
\* positions gets the unit appended.
LEMMA ApplyFrames ==
  ASSUME frames \in Seq(Seq(Units)), NEW unit \in Units, NEW P
  PROVE  /\ Apply(unit, P) \in Seq(Seq(Units))
         /\ Len(Apply(unit, P)) = Length
         /\ \A i \in 1 .. Length :
              Apply(unit, P)[i] = IF i \in P THEN Append(frames[i], unit) ELSE frames[i]
<1>1. Length \in Nat /\ DOMAIN frames = 1 .. Length
  BY DEF Length
<1>2. \A i \in 1 .. Length : frames[i] \in Seq(Units)
  BY <1>1 DEF Length
<1>3. \A i \in 1 .. Length : Append(frames[i], unit) \in Seq(Units)
  BY <1>2
<1>4. Apply(unit, P) \in [1 .. Length -> Seq(Units)]
  BY <1>1, <1>2, <1>3 DEF Apply
<1>5. Apply(unit, P) \in Seq(Seq(Units))
  BY <1>1, <1>4, SeqDef
<1>6. Len(Apply(unit, P)) = Length
  BY <1>1, <1>4, <1>5, LenProperties
<1> QED
  BY <1>1, <1>5, <1>6 DEF Apply

\* The order in which the units come.
LEMMA AppendUnits ==
  /\ Append(<<>>, "chain") = <<"chain">>
  /\ Append(<<"chain">>, "gain") = <<"chain", "gain">>
  /\ Append(<<"chain", "gain">>, "click") = <<"chain", "gain", "click">>
<1> DEFINE none == <<>>
           chain == <<"chain">>
           gain == <<"chain", "gain">>
           click == <<"chain", "gain", "click">>
<1>1. /\ none \in Seq(Units)
      /\ chain \in Seq(Units)
      /\ gain \in Seq(Units)
      /\ click \in Seq(Units)
  BY DEF Units
<1>2. "chain" \in Units /\ "gain" \in Units /\ "click" \in Units
  BY DEF Units
<1>3. Append(none, "chain") = chain
  <2>1. /\ Append(none, "chain") \in Seq(Units) /\ Len(Append(none, "chain")) = 1
        /\ Append(none, "chain")[1] = "chain"
    BY <1>1, <1>2, AppendProperties
  <2> QED
    BY <1>1, <2>1, SeqEqual
<1>4. Append(chain, "gain") = gain
  <2>1. /\ Append(chain, "gain") \in Seq(Units) /\ Len(Append(chain, "gain")) = 2
        /\ Append(chain, "gain")[1] = "chain" /\ Append(chain, "gain")[2] = "gain"
    BY <1>1, <1>2, AppendProperties
  <2>2. Len(gain) = 2 /\ \A i \in 1 .. 2 : Append(chain, "gain")[i] = gain[i]
    BY <2>1
  <2> HIDE DEF chain, gain
  <2> QED
    BY <1>1, <2>1, <2>2, SeqEqual
<1>5. Append(gain, "click") = click
  <2>1. /\ Append(gain, "click") \in Seq(Units) /\ Len(Append(gain, "click")) = 3
        /\ Append(gain, "click")[1] = "chain" /\ Append(gain, "click")[2] = "gain"
        /\ Append(gain, "click")[3] = "click"
    BY <1>1, <1>2, AppendProperties
  <2>2. Len(click) = 3 /\ \A i \in 1 .. 3 : Append(gain, "click")[i] = click[i]
    BY <2>1
  <2> HIDE DEF gain, click
  <2> QED
    BY <1>1, <2>1, <2>2, SeqEqual
<1> QED
  BY <1>3, <1>4, <1>5

\* A chunk is at least one frame while there are frames left, and fits both the
\* scratch buffer and the block.
LEMMA ChunkFits ==
  ASSUME PlaybackTypes
  PROVE  /\ Length \in Nat /\ Chunk \in 0 .. Period /\ offset + Chunk \in 0 .. Length
         /\ offset < Length => Chunk > 0
         /\ offset = Length => Chunk = 0
BY PlaybackAssumption DEF PlaybackTypes, Length, Chunk

-----------------------------------------------------------------------------
\* PlaybackInit establishes the invariant.
LEMMA PlaybackAtFirst == PlaybackInit => PlaybackInv
<1> SUFFICES ASSUME PlaybackInit
             PROVE  PlaybackInv
  OBVIOUS
<1>1. frames \in Seq(Seq(Units)) /\ Length = 0
  BY EmptySeq DEF PlaybackInit, Length
<1>2. PlaybackTypes
  <2>1. Models = {} /\ stage \in [Stages -> {None}] /\ held \in [Stages -> {None}]
    BY DEF PlaybackInit, Models
  <2>2. offset \in 0 .. Length /\ left \in 0 .. Period /\ loads \in 0 .. MaxLoads
    BY <1>1, PlaybackAssumption DEF PlaybackInit
  <2>3. control \in {Ready} /\ freed \subseteq Models
    BY DEF PlaybackInit
  <2>4. tempo \in Tempos /\ until \in Nat /\ due \in Nat /\ since \in Int
    BY DEF PlaybackInit
  <2>5. /\ enabled \in BOOLEAN /\ active \in BOOLEAN /\ pc = "idle" /\ rhythm = "off"
    BY DEF PlaybackInit
  <2> QED
    BY <1>1, <2>1, <2>2, <2>3, <2>4, <2>5 DEF PlaybackTypes
<1>3. OwnersInv
  BY DEF PlaybackInit, OwnersInv, Ready, Models, Loading, None, Stages
<1>4. BlockInv /\ BeatInv
  BY <1>1 DEF PlaybackInit, BlockInv, BeatInv
<1> QED
  BY <1>2, <1>3, <1>4 DEF PlaybackInv

\* What the control side does not touch.
LEMMA BlockUntouched ==
  ASSUME BlockInv, UNCHANGED <<pc, held, block>>
  PROVE  BlockInv'
BY DEF BlockInv, DoneTo, Length, block

LEMMA BeatUntouched ==
  ASSUME BeatInv, UNCHANGED <<pc, block, beat>>
  PROVE  BeatInv'
BY DEF BeatInv, Position, Chunk, Length, block, beat

LEMMA OwnersUntouched ==
  ASSUME OwnersInv, UNCHANGED <<models, control, held>>,
         pc' \in {"idle", "model"} => held["model"] = None,
         pc' \in {"idle", "model", "cab"} => held["cab"] = None
  PROVE  OwnersInv'
BY DEF OwnersInv, Models, Loading, models

\* The control side keeps the invariant.
LEMMA ControlStep ==
  ASSUME PlaybackInv, Control
  PROVE  PlaybackInv'
<1> USE DEF PlaybackInv
<1>1. UNCHANGED <<pc, held, block, beat>>
  BY DEF Control, LoadBegin, Clear, LoadDone, LoadFails, SetEnabled, SetTempo
<1>2. BlockInv' /\ BeatInv'
  BY <1>1, BlockUntouched, BeatUntouched
<1>3. ASSUME NEW s \in Stages, LoadBegin(s)
      PROVE  PlaybackTypes' /\ OwnersInv'
  <2>1. PlaybackTypes'
    BY <1>3, PlaybackAssumption
       DEF LoadBegin, PlaybackTypes, Ready, Models, Length, knobs, block, beat
  <2>2. loads' = loads + 1 /\ Loading = {} /\ Loading' = {loads + 1}
    BY <1>3 DEF LoadBegin, Loading, Ready
  <2>3. Models' = Models \cup {loads + 1} /\ loads + 1 \notin Models \cup {None}
    BY <2>2 DEF PlaybackTypes, Models, None
  <2>4. UNCHANGED <<stage, held, freed, pc>>
    BY <1>3 DEF LoadBegin, block
  <2>5. /\ freed \subseteq Models
        /\ \A o \in Stages : {stage[o], held[o]} \subseteq Models \cup {None}
    BY DEF PlaybackTypes
  <2>6. {loads + 1} \cap freed = {} /\ None \notin {loads + 1}
    BY <2>3, <2>5
  <2>7. \A o \in Stages : stage[o] # loads + 1 /\ held[o] # loads + 1
    BY <2>3, <2>5
  <2> QED
    BY <2>1, <2>2, <2>3, <2>4, <2>6, <2>7 DEF OwnersInv
<1>4. ASSUME NEW s \in Stages, Clear(s)
      PROVE  PlaybackTypes' /\ OwnersInv'
  <2>1. PlaybackTypes'
    BY <1>4
       DEF Clear, Publish, Dropped, PlaybackTypes, Models, Length, knobs, block, beat
  <2>2. Loading = {} /\ Loading' = {}
    BY <1>4 DEF Clear, Loading, Ready
  <2> QED
    BY <1>4, <2>1, <2>2
       DEF Clear, Publish, Dropped, PlaybackTypes, OwnersInv, Models, None, Stages,
           block, beat
<1>5. ASSUME LoadDone
      PROVE  PlaybackTypes' /\ OwnersInv'
  <2>1. Loading = {loads} /\ Loading' = {} /\ control.stage \in Stages
    BY <1>5 DEF LoadDone, Loading, Ready, PlaybackTypes
  <2>2. loads \in Models
    BY <2>1 DEF OwnersInv, PlaybackTypes, Models, None
  <2>3. PlaybackTypes'
    BY <1>5, <2>1, <2>2
       DEF LoadDone, Publish, Dropped, PlaybackTypes, Ready, Models, Length, knobs,
           block, beat
  <2> QED
    BY <1>5, <2>1, <2>2, <2>3
       DEF LoadDone, Publish, Dropped, PlaybackTypes, OwnersInv, Models, None, Stages,
          block, beat
<1>6. ASSUME LoadFails
      PROVE  PlaybackTypes' /\ OwnersInv'
  <2>1. Loading = {loads} /\ Loading' = {}
    BY <1>6 DEF LoadFails, Loading, Ready
  <2>2. loads \in Models
    BY <2>1 DEF OwnersInv, PlaybackTypes, Models, None
  <2>3. PlaybackTypes'
    BY <1>6, <2>2
       DEF LoadFails, PlaybackTypes, Ready, Models, Length, knobs, block, beat
  <2> QED
    BY <1>6, <2>1, <2>2, <2>3
       DEF LoadFails, PlaybackTypes, OwnersInv, Models, None, Stages, block, beat
<1>7. ASSUME NEW on \in BOOLEAN, NEW t \in Tempos, SetEnabled(on, t)
      PROVE  PlaybackTypes' /\ OwnersInv'
  <2>1. control' \in [at : {"tempo"}, tempo : Tempos]
    BY <1>7 DEF SetEnabled
  <2>2. PlaybackTypes'
    BY <1>7, <2>1 DEF SetEnabled, PlaybackTypes, Models, Length, models, block, beat
  <2>3. Loading = {} /\ Loading' = {}
    BY <1>7 DEF SetEnabled, Loading, Ready
  <2> QED
    BY <1>7, <2>2, <2>3 DEF SetEnabled, OwnersInv, Models, models, block, beat
<1>8. ASSUME SetTempo
      PROVE  PlaybackTypes' /\ OwnersInv'
  <2>1. control.tempo \in Tempos
    BY <1>8 DEF SetTempo, PlaybackTypes, Ready
  <2>2. PlaybackTypes'
    BY <1>8, <2>1
       DEF SetTempo, PlaybackTypes, Ready, Models, Length, models, block, beat
  <2>3. Loading = {} /\ Loading' = {}
    BY <1>8 DEF SetTempo, Loading, Ready
  <2> QED
    BY <1>8, <2>2, <2>3 DEF SetTempo, OwnersInv, Models, models, block, beat
<1> QED
  BY <1>2, <1>3, <1>4, <1>5, <1>6, <1>7, <1>8 DEF Control

-----------------------------------------------------------------------------
(* The callback's steps, one lemma for each part of the block.             *)

LEMMA EnterStep ==
  ASSUME PlaybackInv, NEW n \in Blocks, Enter(n)
  PROVE  PlaybackInv'
<1> USE DEF PlaybackInv
<1>1. n \in Nat /\ n > 0
  BY PlaybackAssumption
<1>2. frames' \in [1 .. n -> Seq(Units)] /\ \A i \in 1 .. n : frames'[i] = <<>>
  BY EmptySeq DEF Enter
<1>3. frames' \in Seq(Seq(Units))
  BY <1>1, <1>2, SeqDef
<1>4. Length' = n
  BY <1>1, <1>2, <1>3, LenProperties DEF Length
<1>5. PlaybackTypes'
  BY <1>1, <1>3, <1>4, PlaybackAssumption
     DEF Enter, PlaybackTypes, Models, models, knobs, beat
<1>6. OwnersInv'
  BY OwnersUntouched DEF Enter, OwnersInv
<1>7. BlockInv'
  BY <1>1, <1>2, <1>4 DEF Enter, BlockInv, DoneTo
<1>8. BeatInv'
  BY DEF Enter, BeatInv, Position, beat
<1> QED
  BY <1>5, <1>6, <1>7, <1>8

LEMMA TakeStep ==
  ASSUME PlaybackInv, TakeModel \/ TakeCab
  PROVE  PlaybackInv'
<1> USE DEF PlaybackInv
<1>1. PlaybackTypes'
  BY DEF TakeModel, TakeCab, Take, PlaybackTypes, Models, Length, Stages, models, knobs,
     block, beat
<1>2. OwnersInv'
  <2>1. Models' = Models /\ Loading' = Loading /\ UNCHANGED models
    BY DEF TakeModel, TakeCab, Take, Models, Loading, models
  <2>2. CASE TakeModel
    BY <2>1, <2>2 DEF TakeModel, Take, PlaybackTypes, OwnersInv, Stages, models
  <2>3. CASE TakeCab
    <3>1. /\ held["cab"] = None /\ pc' = "chain"
          /\ held'["cab"] = stage["cab"] /\ held'["model"] = held["model"]
      BY <2>3 DEF TakeCab, Take, PlaybackTypes, OwnersInv, Stages
    <3>2. \A s \in Stages : held'[s] \notin freed \cup Loading
      BY <3>1 DEF OwnersInv, Stages
    <3>3. Models \subseteq freed \cup Loading \cup {stage[s] : s \in Stages}
                                            \cup {held'[s] : s \in Stages}
      <4> SUFFICES ASSUME NEW m \in Models, m \notin freed \cup Loading,
                          m \notin {stage[s] : s \in Stages}
                   PROVE  m = held'["model"]
        BY DEF Stages
      <4>1. m # None
        BY DEF Models, None
      <4> QED
        BY <3>1, <4>1 DEF OwnersInv, Stages
    <3> QED
      BY <2>1, <3>1, <3>2, <3>3 DEF OwnersInv, models
  <2> QED
    BY <2>2, <2>3
<1>3. BlockInv'
  <2>1. Length' = Length /\ UNCHANGED <<frames, chains, offset>>
    BY DEF TakeModel, TakeCab, Take, Length, block
  <2>2. /\ pc \in {"model", "cab"} /\ pc' \in {"cab", "chain"}
        /\ offset = 0 /\ Length > 0 /\ chains = {}
        /\ \A i \in 1 .. Length : frames[i] = <<>>
    BY DEF TakeModel, TakeCab, Take, BlockInv, DoneTo
  <2>3. \A i \in 1 .. Length : DoneTo(i)' = <<>>
    BY <2>1, <2>2 DEF DoneTo
  <2> QED
    BY <2>1, <2>2, <2>3 DEF BlockInv
<1>4. BeatInv'
  BY DEF TakeModel, TakeCab, Take, BeatInv, Position, beat
<1> QED
  BY <1>1, <1>2, <1>3, <1>4

LEMMA ChainStep ==
  ASSUME PlaybackInv, Chain
  PROVE  PlaybackInv'
<1> USE DEF PlaybackInv
<1>1. frames \in Seq(Seq(Units)) /\ "chain" \in Units
  BY DEF PlaybackTypes, Units
<1>2. /\ frames' \in Seq(Seq(Units)) /\ Length' = Length
      /\ \A i \in 1 .. Length :
           frames'[i] =
             IF i \in Positions THEN Append(frames[i], "chain") ELSE frames[i]
  <2>1. ASSUME NEW P
        PROVE  /\ Apply("chain", P) \in Seq(Seq(Units))
               /\ Len(Apply("chain", P)) = Length
               /\ \A i \in 1 .. Length :
                    Apply("chain", P)[i] =
                      IF i \in P THEN Append(frames[i], "chain") ELSE frames[i]
    BY <1>1, ApplyFrames
  <2> QED
    BY <2>1 DEF Chain, Length
<1>3. /\ Length \in Nat /\ Chunk \in Nat /\ Chunk > 0 /\ offset \in Nat
      /\ offset' = offset + Chunk /\ offset' \in 0 .. Length
  BY ChunkFits DEF Chain, PlaybackTypes
<1>4. PlaybackTypes'
  BY <1>2, <1>3 DEF Chain, PlaybackTypes, Models, models, knobs, beat
<1>5. OwnersInv'
  BY OwnersUntouched DEF Chain, OwnersInv
<1>6. BlockInv'
  <2>1. \A i \in 1 .. Length : frames'[i] = DoneTo(i)'
    <3> TAKE i \in 1 .. Length
    <3>1. frames[i] = IF i <= offset THEN <<"chain">> ELSE <<>>
      BY DEF Chain, BlockInv, DoneTo
    <3>2. i \in Positions <=> ~(i <= offset) /\ i <= offset'
      BY <1>3 DEF Positions
    <3>3. frames'[i] = IF i <= offset' THEN <<"chain">> ELSE <<>>
      <4>1. CASE i \in Positions
        BY <1>2, <3>1, <3>2, <4>1, AppendUnits
      <4>2. CASE i <= offset
        <5>1. i <= offset' /\ frames'[i] = frames[i]
          BY <1>2, <1>3, <3>2, <4>2
        <5> QED
          BY <3>1, <4>2, <5>1
      <4>3. CASE ~(i <= offset')
        BY <1>2, <1>3, <3>1, <3>2, <4>3
      <4> QED
        BY <3>2, <4>1, <4>2, <4>3
    <3> QED
      BY <3>3 DEF Chain, DoneTo
  <2>2. chains' = {held}
    BY DEF Chain, BlockInv
  <2> QED
    BY <1>2, <1>3, <2>1, <2>2 DEF Chain, BlockInv
<1>7. BeatInv'
  BY DEF Chain, BeatInv, Position, beat
<1> QED
  BY <1>4, <1>5, <1>6, <1>7

LEMMA GainStep ==
  ASSUME PlaybackInv, Gain
  PROVE  PlaybackInv'
<1> USE DEF PlaybackInv
<1>1. frames \in Seq(Seq(Units)) /\ "gain" \in Units /\ DOMAIN frames = 1 .. Length
  BY DEF PlaybackTypes, Units, Length
<1>2. /\ frames' \in Seq(Seq(Units)) /\ Length' = Length
      /\ \A i \in 1 .. Length : frames'[i] = Append(frames[i], "gain")
  <2>1. ASSUME NEW P
        PROVE  /\ Apply("gain", P) \in Seq(Seq(Units))
               /\ Len(Apply("gain", P)) = Length
               /\ \A i \in 1 .. Length :
                    Apply("gain", P)[i] =
                      IF i \in P THEN Append(frames[i], "gain") ELSE frames[i]
    BY <1>1, ApplyFrames
  <2>2. DOMAIN frames = 1 .. Length
    BY <1>1
  <2>3. frames' = Apply("gain", 1 .. Length)
    BY <2>2 DEF Gain
  <2> QED
    BY <2>1, <2>3 DEF Length
<1>3. Length \in Nat /\ Length > 0
  BY ChunkFits DEF Gain, BlockInv
<1>4. PlaybackTypes'
  BY <1>2, <1>3 DEF Gain, PlaybackTypes, Models, models, knobs
<1>5. OwnersInv'
  BY OwnersUntouched DEF Gain, OwnersInv
<1>6. BlockInv'
  <2>1. \A i \in 1 .. Length : frames[i] = <<"chain">>
    BY <1>3 DEF Gain, BlockInv, DoneTo
  <2>2. \A i \in 1 .. Length : frames'[i] = DoneTo(i)'
    <3> TAKE i \in 1 .. Length
    <3>1. frames'[i] = <<"chain", "gain">>
      BY <1>2, <2>1, AppendUnits
    <3>2. ~(i <= offset') /\ pc' \in {"chunk", "record"}
      BY <1>3 DEF Gain
    <3> QED
      BY <3>1, <3>2 DEF DoneTo
  <2> QED
    BY <1>2, <1>3, <2>2 DEF Gain, BlockInv
<1>7. BeatInv'
  BY DEF Gain, BeatInv, Position, PlaybackTypes
<1> QED
  BY <1>4, <1>5, <1>6, <1>7

-----------------------------------------------------------------------------
(* The metronome.                                                          *)

LEMMA ProcessBeginStep ==
  ASSUME PlaybackInv, ProcessBegin
  PROVE  PlaybackInv'
<1> USE DEF PlaybackInv
<1>1. /\ Length \in Nat /\ Chunk \in 0 .. Period /\ offset \in Nat /\ Length' = Length
      /\ Chunk' = Chunk /\ offset' = offset
  BY ChunkFits DEF ProcessBegin, PlaybackTypes, Length, Chunk
<1>2. PlaybackTypes'
  BY <1>1, PlaybackAssumption
     DEF ProcessBegin, Beat, PlaybackTypes, Models, Length, models, knobs
<1>3. OwnersInv'
  BY OwnersUntouched DEF ProcessBegin, OwnersInv
<1>4. BlockInv'
  BY <1>1 DEF ProcessBegin, BlockInv, DoneTo, Length
<1>5. BeatInv'
  BY <1>1, PlaybackAssumption DEF ProcessBegin, Beat, BeatInv, Position, PlaybackTypes
<1> QED
  BY <1>2, <1>3, <1>4, <1>5

LEMMA FrameStep ==
  ASSUME PlaybackInv, Frame
  PROVE  PlaybackInv'
<1> USE DEF PlaybackInv
<1>1. /\ Length \in Nat /\ Chunk \in 0 .. Period /\ offset \in Nat /\ Length' = Length
      /\ Chunk' = Chunk /\ offset' = offset
  BY ChunkFits DEF Frame, PlaybackTypes, Length, Chunk
<1>2. PlaybackTypes'
  BY <1>1, PlaybackAssumption
     DEF Frame, Beat, PlaybackTypes, Models, Length, models, knobs
<1>3. OwnersInv'
  BY OwnersUntouched DEF Frame, OwnersInv
<1>4. BlockInv'
  BY <1>1 DEF Frame, BlockInv, DoneTo, Length
<1>5. BeatInv'
  <2>1. /\ left \in Nat /\ left' = left - 1 /\ pc = "frame" /\ pc' = "frame"
        /\ left <= Chunk /\ active /\ active'
    BY DEF Frame, PlaybackTypes, BeatInv
  <2>2. Position = offset + Chunk - left /\ Position' = Position + 1
    BY <1>1, <2>1 DEF Position
  <2>3. CASE until = 0
    BY <1>1, <2>1, <2>2, <2>3, PlaybackAssumption
       DEF Frame, Beat, BeatInv, PlaybackTypes
  <2>4. CASE until # 0
    BY <1>1, <2>1, <2>2, <2>4 DEF Frame, BeatInv, PlaybackTypes
  <2> QED
    BY <2>3, <2>4
<1> QED
  BY <1>2, <1>3, <1>4, <1>5

LEMMA MixStep ==
  ASSUME PlaybackInv, Mix
  PROVE  PlaybackInv'
<1> USE DEF PlaybackInv
<1>1. frames \in Seq(Seq(Units)) /\ "click" \in Units
  BY DEF PlaybackTypes, Units
<1>2. /\ frames' \in Seq(Seq(Units)) /\ Length' = Length
      /\ \A i \in 1 .. Length :
           frames'[i] =
             IF i \in Positions THEN Append(frames[i], "click") ELSE frames[i]
  <2>1. ASSUME NEW P
        PROVE  /\ Apply("click", P) \in Seq(Seq(Units))
               /\ Len(Apply("click", P)) = Length
               /\ \A i \in 1 .. Length :
                    Apply("click", P)[i] =
                      IF i \in P THEN Append(frames[i], "click") ELSE frames[i]
    BY <1>1, ApplyFrames
  <2> QED
    BY <2>1 DEF Mix, Length
<1>3. /\ Length \in Nat /\ Chunk \in Nat /\ Chunk > 0 /\ offset \in Nat
      /\ offset' = offset + Chunk /\ offset' \in 0 .. Length
  BY ChunkFits DEF Mix, PlaybackTypes, BlockInv
<1>4. PlaybackTypes'
  BY <1>2, <1>3 DEF Mix, PlaybackTypes, Models, models, knobs, beat
<1>5. OwnersInv'
  BY OwnersUntouched DEF Mix, OwnersInv
<1>6. BlockInv'
  <2>1. \A i \in 1 .. Length : frames'[i] = DoneTo(i)'
    <3> TAKE i \in 1 .. Length
    <3>1. frames[i] = IF i <= offset THEN <<"chain", "gain", "click">>
                                     ELSE <<"chain", "gain">>
      BY DEF Mix, BlockInv, DoneTo
    <3>2. i \in Positions <=> ~(i <= offset) /\ i <= offset'
      BY <1>3 DEF Positions
    <3>3. frames'[i] = IF i <= offset' THEN <<"chain", "gain", "click">>
                                       ELSE <<"chain", "gain">>
      <4>1. CASE i \in Positions
        BY <1>2, <3>1, <3>2, <4>1, AppendUnits
      <4>2. CASE i <= offset
        <5>1. i <= offset' /\ frames'[i] = frames[i]
          BY <1>2, <1>3, <3>2, <4>2
        <5> QED
          BY <3>1, <4>2, <5>1
      <4>3. CASE ~(i <= offset')
        BY <1>2, <1>3, <3>1, <3>2, <4>3
      <4> QED
        BY <3>2, <4>1, <4>2, <4>3
    <3>4. pc' \in {"record", "chunk"}
      BY DEF Mix
    <3> QED
      BY <3>3, <3>4 DEF DoneTo
  <2>2. chains' = {held}
    BY DEF Mix, BlockInv
  <2> QED
    BY <1>2, <1>3, <2>1, <2>2 DEF Mix, BlockInv
<1>7. BeatInv'
  BY <1>2, <1>3 DEF Mix, BeatInv, Position, PlaybackTypes, beat
<1> QED
  BY <1>4, <1>5, <1>6, <1>7

LEMMA LeaveStep ==
  ASSUME PlaybackInv, Leave
  PROVE  PlaybackInv'
<1> USE DEF PlaybackInv
<1>1. frames' \in Seq(Seq(Units)) /\ Length' = 0 /\ Length \in Nat
  BY EmptySeq, ChunkFits DEF Leave, Length
<1>2. PlaybackTypes'
  <2>1. {held[s] : s \in Stages} \ {None} \subseteq Models
    BY DEF PlaybackTypes
  <2>2. held' \in [Stages -> Models \cup {None}] /\ since' \in Int /\ Models' = Models
    BY <1>1 DEF Leave, PlaybackTypes, Models
  <2>3. freed' \subseteq Models
    BY <2>1 DEF Leave, PlaybackTypes
  <2> QED
    BY <1>1, <2>2, <2>3 DEF Leave, PlaybackTypes, knobs
<1>3. OwnersInv'
  BY DEF Leave, PlaybackTypes, OwnersInv, Models, Loading, None, Stages
<1>4. BlockInv'
  BY <1>1 DEF Leave, BlockInv
<1>5. BeatInv'
  BY <1>1 DEF Leave, BeatInv, Position, PlaybackTypes
<1> QED
  BY <1>2, <1>3, <1>4, <1>5

-----------------------------------------------------------------------------
\* The invariant: who owns each model, what has been done to each frame, and
\* how far the next beat is.
THEOREM PlaybackInvariant == PlaybackSpec => []PlaybackInv
<1>1. PlaybackInv /\ UNCHANGED playbackVars => PlaybackInv'
  <2> SUFFICES ASSUME PlaybackInv, UNCHANGED playbackVars
               PROVE  PlaybackInv'
    OBVIOUS
  <2>1. PlaybackTypes'
    BY DEF PlaybackInv, PlaybackTypes, Length, Models, playbackVars, models, knobs,
           block, beat
  <2>2. OwnersInv'
    BY OwnersUntouched DEF PlaybackInv, OwnersInv, playbackVars
  <2> QED
    BY <2>1, <2>2, BlockUntouched, BeatUntouched DEF PlaybackInv, playbackVars
<1>2. PlaybackInv /\ Callback => PlaybackInv'
  BY EnterStep, TakeStep, ChainStep, GainStep, ProcessBeginStep, FrameStep, MixStep,
     LeaveStep DEF Callback
<1>3. PlaybackInv /\ [PlaybackNext]_playbackVars => PlaybackInv'
  BY <1>1, <1>2, ControlStep DEF PlaybackNext
<1> QED
  BY <1>3, PlaybackAtFirst, PTL DEF PlaybackSpec

\* No model is used half built or after its end, nor kept when nobody has it.
THEOREM PlaybackModels == PlaybackSpec => []ModelsWholeAndAlive
<1>1. PlaybackInv => ModelsWholeAndAlive
  BY DEF PlaybackInv, OwnersInv, ModelsWholeAndAlive
<1> QED
  BY <1>1, PlaybackInvariant, PTL

\* The recorder gets a block whose frames were all treated alike.
THEOREM PlaybackBlocks == PlaybackSpec => []BlockProcessedWhole
<1>1. PlaybackInv => BlockProcessedWhole
  <2> SUFFICES ASSUME PlaybackInv, pc = "record"
               PROVE  /\ Cardinality(chains) = 1
                      /\ \A i \in DOMAIN frames : frames[i] = frames[1]
                      /\ frames[1] \in {<<"chain", "gain">>, <<"chain", "gain", "click">>}
    BY DEF BlockProcessedWhole
  <2>1. Cardinality(chains) = 1
    BY FS_Singleton DEF PlaybackInv, BlockInv
  <2>2. DOMAIN frames = 1 .. Length /\ Length \in Nat /\ 1 \in 1 .. Length
    BY DEF PlaybackInv, PlaybackTypes, BlockInv, Length
  <2>3. \A i \in 1 .. Length : frames[i] = IF offset = 0 THEN <<"chain", "gain">>
                                          ELSE <<"chain", "gain", "click">>
    BY <2>2 DEF PlaybackInv, BlockInv, DoneTo
  <2> QED
    BY <2>1, <2>2, <2>3
<1> QED
  BY <1>1, PlaybackInvariant, PTL

\* The beats keep their distance over chunks and blocks of any size.
THEOREM PlaybackBeats == PlaybackSpec => []BeatsInTime
<1>1. PlaybackInv => BeatsInTime
  BY DEF PlaybackInv, PlaybackTypes, BeatInv, Position, BeatsInTime
<1> QED
  BY <1>1, PlaybackInvariant, PTL
=============================================================================
