------------------------------ MODULE SpscRing ------------------------------
(***************************************************************************)
(* SpscRingBuffer (engine/include/gitar/ring_buffer.hpp): the lock-free    *)
(* queue between a real-time thread and another thread.  One thread pushes *)
(* and one pops; each operation is split at its atomic accesses.           *)
(*                                                                         *)
(* The counters are size_t and wrap at Modulus.  The own counter is read   *)
(* exactly (relaxed load by its only writer).  An acquire load of the      *)
(* other side's counter returns any value not older than the one loaded    *)
(* before (coherence), so each side keeps the latest value it has seen.    *)
(* The release store / acquire load pairs make the slot accesses ordered,  *)
(* so the slots themselves are plain memory.                               *)
(***************************************************************************)
EXTENDS Integers, Sequences

CONSTANTS Capacity,  \* slots of the ring (a power of two in the code)
          Modulus,   \* 2^w, the range of size_t
          Data,      \* what a slot can hold
          Silence    \* the value-initialised slot

\* Capacity divides the range of the counters and is smaller than it, so that
\* a full ring can be told from an empty one.
ASSUME RingAssumption ==
  /\ Capacity \in Nat \ {0}
  /\ Modulus \in Nat
  /\ \E k \in 2 .. Modulus : Modulus = k * Capacity
  /\ Silence \in Data

VARIABLES slots,     \* buffer_
          head,      \* head_, written by the producer
          tail,      \* tail_, written by the consumer
          pPc,       \* where the producer is inside push_impl
          pVal,      \* its argument
          tailSeen,  \* the value of tail_ it loaded last
          cPc,       \* where the consumer is inside pop
          cVal,      \* the value moved out of the slot
          headSeen,  \* the value of head_ it loaded last
          out        \* the value the latest successful pop returned

pVars == <<pPc, pVal, tailSeen>>
cVars == <<cPc, cVal, headSeen, out>>
vars == <<slots, head, tail, pVars, cVars>>

Counter == 0 .. Modulus - 1

\* Unsigned arithmetic on the counters.
Inc(a) == IF a + 1 = Modulus THEN 0 ELSE a + 1
Plus(a, n) == IF a + n >= Modulus THEN a + n - Modulus ELSE a + n
Sub(a, b) == IF a >= b THEN a - b ELSE a - b + Modulus

\* & (Capacity - 1): the slot of a counter value.
Slot(a) == a % Capacity

\* size() when the caller's latest loads of the counters gave h and t.
Size(h, t) == Sub(h, t)

\* push_impl's test for room, with the loaded tail t.
HasRoom_OffByOne(t) == Sub(head, t) <= Capacity
HasRoom(t) == Sub(head, t) < Capacity

Init ==
  /\ slots = [i \in 0 .. Capacity - 1 |-> Silence]
  /\ head = 0
  /\ tail = 0
  /\ pPc = "idle" /\ pVal = Silence /\ tailSeen = 0
  /\ cPc = "idle" /\ cVal = Silence /\ headSeen = 0
  /\ out = Silence

-----------------------------------------------------------------------------
(* The producer thread.                                                    *)

\* push(v): load both counters; return false when the ring looks full.  n of
\* the pops not seen so far stay unseen.
PushLoad(v) ==
  /\ pPc = "idle"
  /\ \E n \in 0 .. Sub(tail, tailSeen) :
       LET t == Plus(tailSeen, n) IN
         /\ tailSeen' = t
         /\ IF HasRoom(t)
              THEN pPc' = "store" /\ pVal' = v
              ELSE UNCHANGED <<pPc, pVal>>
  /\ UNCHANGED <<slots, head, tail, cVars>>

PushStore ==
  /\ pPc = "store"
  /\ slots' = [slots EXCEPT ![Slot(head)] = pVal]
  /\ pPc' = "publish"
  /\ UNCHANGED <<head, tail, pVal, tailSeen, cVars>>

PushPublish ==
  /\ pPc = "publish"
  /\ head' = Inc(head)
  /\ pPc' = "idle"
  /\ UNCHANGED <<slots, tail, pVal, tailSeen, cVars>>

\* size() called by the producer, between two pushes.
ProducerSize ==
  /\ pPc = "idle"
  /\ \E n \in 0 .. Sub(tail, tailSeen) : tailSeen' = Plus(tailSeen, n)
  /\ UNCHANGED <<slots, head, tail, pPc, pVal, cVars>>

-----------------------------------------------------------------------------
(* The consumer thread.                                                    *)

\* pop(out): load both counters; return false when the ring looks empty.
PopLoad ==
  /\ cPc = "idle"
  /\ \E n \in 0 .. Sub(head, headSeen) :
       LET h == Plus(headSeen, n) IN
         /\ headSeen' = h
         /\ cPc' = IF tail = h THEN "idle" ELSE "read"
  /\ UNCHANGED <<slots, head, tail, cVal, out, pVars>>

PopRead ==
  /\ cPc = "read"
  /\ cVal' = slots[Slot(tail)]
  /\ cPc' = "publish"
  /\ UNCHANGED <<slots, head, tail, headSeen, out, pVars>>

\* A consumer that frees the slot without having read it yet.
PopPublish_Early ==
  /\ cPc \in {"read", "publish"}
  /\ tail' = Inc(tail)
  /\ cPc' = "idle"
  /\ out' = cVal
  /\ UNCHANGED <<slots, head, cVal, headSeen, pVars>>

PopPublish ==
  /\ cPc = "publish"
  /\ tail' = Inc(tail)
  /\ cPc' = "idle"
  /\ out' = cVal
  /\ UNCHANGED <<slots, head, cVal, headSeen, pVars>>

\* size() called by the consumer, between two pops.
ConsumerSize ==
  /\ cPc = "idle"
  /\ \E n \in 0 .. Sub(head, headSeen) : headSeen' = Plus(headSeen, n)
  /\ UNCHANGED <<slots, head, tail, cPc, cVal, out, pVars>>

-----------------------------------------------------------------------------
Producer == (\E v \in Data : PushLoad(v)) \/ PushStore \/ PushPublish
              \/ ProducerSize
Consumer == PopLoad \/ PopRead \/ PopPublish \/ ConsumerSize
Next == Producer \/ Consumer

Spec == Init /\ [][Next]_vars
-----------------------------------------------------------------------------
(* Properties.                                                             *)

\* Every variable has its type.
TypeOK ==
  /\ slots \in [0 .. Capacity - 1 -> Data]
  /\ head \in Counter /\ tail \in Counter
  /\ pPc \in {"idle", "store", "publish"} /\ pVal \in Data
  /\ cPc \in {"idle", "read", "publish"} /\ cVal \in Data
  /\ tailSeen \in Counter /\ headSeen \in Counter
  /\ out \in Data

\* Going round the ring from the oldest tail the producer may believe in, one
\* meets tail, then the head the consumer believes in, then head, all within
\* one lap.
WindowOrdered ==
  /\ Sub(head, tailSeen) <= Capacity
  /\ Sub(tail, tailSeen) <= Sub(head, tailSeen)
  /\ Sub(headSeen, tail) <= Sub(head, tail)

\* A thread inside push (pop) holds a slot that is free (filled), and what it
\* wrote (read) is still there when it publishes.
SlotsHeld ==
  /\ pPc # "idle" => Sub(head, tailSeen) < Capacity
  /\ pPc = "publish" => slots[Slot(head)] = pVal
  /\ cPc # "idle" => headSeen # tail
  /\ cPc = "publish" => cVal = slots[Slot(tail)]

\* The inductive invariant.
RingInv == TypeOK /\ WindowOrdered /\ SlotsHeld

\* The two threads never touch the same slot at the same time: the plain
\* accesses of lines 37 and 69 of ring_buffer.hpp are no data race.
NoDataRace == pPc = "store" /\ cPc = "read" => Slot(head) # Slot(tail)

\* Whatever stale counters a thread uses, size() never reports more than the
\* capacity (no unsigned wraparound of the difference), never less than the
\* queue holds to the producer and never more than it holds to the consumer.
\* Both callers of size() rely on it to push or pop that many items unchecked.
SizeIsSafe ==
  /\ Size(head, tailSeen) \in Sub(head, tail) .. Capacity
  /\ Size(headSeen, tail) \in 0 .. Sub(head, tail)

\* The ring is a queue: the items between tail and head, oldest first.
Queue == [i \in 1 .. Sub(head, tail) |-> slots[Slot(Plus(tail, i - 1))]]

Q == INSTANCE Fifo WITH queue <- Queue,
                        unseenPops <- Sub(tail, tailSeen),
                        unseenPushes <- Sub(head, headSeen)

\* Every behaviour of the ring is one of the abstract bounded queue: a push is
\* refused only when the ring is full in the producer's view, items come out
\* once, in order and unaltered, across any wraparound of the counters.
FifoSpec == Q!Spec
=============================================================================
