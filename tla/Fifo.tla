-------------------------------- MODULE Fifo --------------------------------
(***************************************************************************)
(* What a single-producer/single-consumer queue promises its two threads:  *)
(* a bounded queue of which each side may hold a stale view.  The producer *)
(* may not have seen the latest pops yet, so it can take the queue for     *)
(* fuller than it is; the consumer may not have seen the latest pushes.    *)
(* Neither view ever errs in the dangerous direction.                      *)
(***************************************************************************)
EXTENDS Naturals, Sequences

CONSTANTS Capacity,  \* the number of items the queue can hold
          Data       \* the items

VARIABLES queue,         \* the items pushed and not yet popped, oldest first
          unseenPops,    \* pops the producer has not observed yet
          unseenPushes,  \* pushes the consumer has not observed yet
          out            \* the item the latest successful pop handed out

vars == <<queue, unseenPops, unseenPushes, out>>

\* The size the producer works with when n pops are unknown to it.
ProducerSize(n) == Len(queue) + n

\* The size the consumer works with when n pushes are unknown to it.
ConsumerSize(n) == Len(queue) - n

Init ==
  /\ queue = <<>>
  /\ unseenPops = 0
  /\ unseenPushes = 0
  /\ out \in Data

-----------------------------------------------------------------------------
\* The producer catches up with some of the pops.
ProducerLook(n) ==
  /\ n \in 0 .. unseenPops
  /\ unseenPops' = n
  /\ UNCHANGED <<queue, unseenPushes, out>>

\* The consumer catches up with some of the pushes.
ConsumerLook(n) ==
  /\ n \in 0 .. unseenPushes
  /\ unseenPushes' = n
  /\ UNCHANGED <<queue, unseenPops, out>>

\* push() that succeeds: after a look there is room, even in the stale view.
Push(v, n) ==
  /\ n \in 0 .. unseenPops
  /\ ProducerSize(n) < Capacity
  /\ queue' = Append(queue, v)
  /\ unseenPops' = n
  /\ unseenPushes' = unseenPushes + 1
  /\ UNCHANGED out

\* pop() that succeeds: after a look there is an item the consumer knows of.
Pop(n) ==
  /\ n \in 0 .. unseenPushes
  /\ ConsumerSize(n) > 0
  /\ out' = Head(queue)
  /\ queue' = Tail(queue)
  /\ unseenPops' = unseenPops + 1
  /\ unseenPushes' = n

Next ==
  \/ \E n \in 0 .. unseenPops :
       ProducerLook(n) \/ \E v \in Data : Push(v, n)
  \/ \E n \in 0 .. unseenPushes : ConsumerLook(n) \/ Pop(n)

Spec == Init /\ [][Next]_vars
=============================================================================
