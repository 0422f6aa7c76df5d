------------------------------- MODULE Bridge -------------------------------
(***************************************************************************)
(* InterleavedBridge (engine/include/gitar/bridge.hpp): carries the frames *)
(* the capture callback writes to the playback callback, through the SPSC  *)
(* ring (module Fifo, which SpscRing implements).  The two callbacks run   *)
(* on threads of their own and interleave sample by sample.                *)
(*                                                                         *)
(* Samples are numbered by the frame of the capture stream they come from; *)
(* a frame that is dropped keeps its number.                               *)
(***************************************************************************)
EXTENDS Integers, Sequences

CONSTANTS Capacity,   \* capacity of the ring, in samples
          ChannelCounts, \* channel counts a bridge is built with
          MaxBlock,   \* largest frame count of a callback
          MaxFrames,  \* bound: frames captured in a behaviour
          MaxMissing  \* bound: frames of silence inserted in a behaviour

ASSUME BridgeAssumption ==
  /\ Capacity \in Nat \ {0} /\ ChannelCounts \subseteq Nat \ {0}
  /\ MaxBlock \in Nat \ {0} /\ MaxFrames \in Nat /\ MaxMissing \in Nat

\* The zero read() inserts, also what `sample` holds before pop fills it.
Silence == [frame |-> 0, ch |-> 0]
StreamSample == [frame : Nat, ch : Nat]

VARIABLES channels,   \* channels_: samples per frame
          queue, unseenPops, unseenPushes, out,  \* buffer_, the ring
          captured,   \* frames offered to write() so far
          wLeft,      \* samples the running write() still has to push
          wNext,      \* the sample it pushes next
          lost,       \* samples push() refused, unnoticed by write()
          overrun,    \* overrun_frames_
          rLeft,      \* samples the running read() still has to pop
          block,      \* what the latest read() has put into its buffer
          popped,     \* samples taken out of the ring so far
          failedPops, \* pops that returned false inside read()
          underrun    \* underrun_frames_

ringVars == <<queue, unseenPops, unseenPushes, out>>
wVars == <<captured, wLeft, wNext, lost, overrun>>
rVars == <<rLeft, block, popped, failedPops, underrun>>
bridgeVars == <<channels, ringVars, wVars, rVars>>

Ring == INSTANCE Fifo WITH Data <- StreamSample

Smaller(a, b) == IF a < b THEN a ELSE b

\* The sample after s in the interleaved input.
Following(s) == IF s.ch < channels THEN [s EXCEPT !.ch = @ + 1]
                                   ELSE [frame |-> s.frame + 1, ch |-> 1]

BridgeInit ==
  /\ channels \in ChannelCounts
  /\ queue = <<>> /\ unseenPops = 0 /\ unseenPushes = 0 /\ out = Silence
  /\ captured = 0 /\ wLeft = 0 /\ wNext = Silence /\ lost = 0 /\ overrun = 0
  /\ rLeft = 0 /\ block = <<>> /\ popped = 0 /\ failedPops = 0
  /\ underrun = 0

-----------------------------------------------------------------------------
(* The capture thread.                                                     *)

FreeFrames_Empty(n) == Capacity \div channels

\* write()'s free_frames, when n pops are unknown to it.
FreeFrames(n) ==
  Capacity \div channels - Ring!ProducerSize(n) \div channels

\* A write that counts the callbacks in which frames were dropped.
WriteBegin_CountsEvents(frames) ==
  /\ wLeft = 0
  /\ frames <= MaxFrames - captured
  /\ \E n \in 0 .. unseenPops :
       LET accepted == Smaller(frames, FreeFrames(n)) IN
         /\ Ring!ProducerLook(n)
         /\ wLeft' = accepted * channels
         /\ wNext' = [frame |-> captured + 1, ch |-> 1]
         /\ overrun' = overrun + (IF accepted < frames THEN 1 ELSE 0)
  /\ captured' = captured + frames
  /\ UNCHANGED <<lost, rVars, channels>>

\* write(frames) up to its loop: n of the pops remain unseen by size().
WriteBegin(frames) ==
  /\ wLeft = 0
  /\ frames <= MaxFrames - captured
  /\ \E n \in 0 .. unseenPops :
       LET accepted == Smaller(frames, FreeFrames(n)) IN
         /\ Ring!ProducerLook(n)
         /\ wLeft' = accepted * channels
         /\ wNext' = [frame |-> captured + 1, ch |-> 1]
         /\ overrun' = overrun + (frames - accepted)
  /\ captured' = captured + frames
  /\ UNCHANGED <<lost, rVars, channels>>

\* A loop that does not advance through the input.
WritePush_SameSample ==
  /\ wLeft > 0
  /\ \E n \in 0 .. unseenPops : Ring!Push(wNext, n)
  /\ wLeft' = wLeft - 1
  /\ UNCHANGED <<captured, wNext, lost, overrun, rVars, channels>>

\* One turn of the loop.  push()'s result is not looked at.
WritePush ==
  /\ wLeft > 0
  /\ \E n \in 0 .. unseenPops :
       \/ Ring!Push(wNext, n) /\ lost' = lost
       \/ /\ ~(Ring!ProducerSize(n) < Capacity)
          /\ Ring!ProducerLook(n)
          /\ lost' = lost + 1
  /\ wLeft' = wLeft - 1
  /\ wNext' = Following(wNext)
  /\ UNCHANGED <<captured, overrun, rVars, channels>>

-----------------------------------------------------------------------------
(* The playback thread.                                                    *)

\* A read that trusts the device's frame count.
ReadBegin_Greedy(frames) ==
  /\ rLeft = 0
  /\ \E n \in 0 .. unseenPushes : Ring!ConsumerLook(n)
  /\ rLeft' = frames * channels
  /\ block' = <<>>
  /\ UNCHANGED <<popped, failedPops, underrun, wVars, channels>>

\* read(frames) up to its loop: n of the pushes remain unseen by size().
ReadBegin(frames) ==
  /\ rLeft = 0
  /\ \E n \in 0 .. unseenPushes :
       LET available == Ring!ConsumerSize(n) \div channels
           frames_read == Smaller(frames, available)
       IN /\ Ring!ConsumerLook(n)
          /\ rLeft' = frames_read * channels
          /\ underrun' = underrun + (frames - frames_read)
          /\ underrun' <= MaxMissing
  /\ block' = <<>>
  /\ UNCHANGED <<popped, failedPops, wVars, channels>>

\* One turn of the loop.  pop()'s result is not looked at: a pop that fails
\* leaves the zero in `sample`.
ReadPop ==
  /\ rLeft > 0
  /\ \E n \in 0 .. unseenPushes :
       \/ /\ Ring!Pop(n)
          /\ block' = Append(block, Head(queue))
          /\ popped' = popped + 1
          /\ failedPops' = failedPops
       \/ /\ ~(Ring!ConsumerSize(n) > 0)
          /\ Ring!ConsumerLook(n)
          /\ block' = Append(block, Silence)
          /\ failedPops' = failedPops + 1
          /\ popped' = popped
  /\ rLeft' = rLeft - 1
  /\ UNCHANGED <<underrun, wVars, channels>>

-----------------------------------------------------------------------------
BridgeNext ==
  \/ \E frames \in 1 .. MaxBlock : WriteBegin(frames) \/ ReadBegin(frames)
  \/ WritePush
  \/ ReadPop

BridgeSpec == BridgeInit /\ [][BridgeNext]_bridgeVars
-----------------------------------------------------------------------------
(* Properties.                                                             *)

\* Every variable has its type.
BridgeTypes ==
  /\ channels \in ChannelCounts
  /\ queue \in Seq(StreamSample) /\ wNext \in StreamSample
  /\ unseenPops \in Nat /\ unseenPushes \in Nat
  /\ captured \in 0 .. MaxFrames /\ wLeft \in Nat /\ lost \in Nat /\ overrun \in Nat
  /\ rLeft \in Nat /\ popped \in Nat /\ failedPops \in Nat
  /\ underrun \in 0 .. MaxMissing

\* The reader has committed itself to no more samples than it knows of.
ReaderInv ==
  /\ Len(queue) + unseenPops <= Capacity
  /\ rLeft + unseenPushes <= Len(queue)
  /\ failedPops = 0

\* With one channel, the writer has reserved the room it needs.
MonoInv == channels = 1 => wLeft + Len(queue) + unseenPops <= Capacity /\ lost = 0

\* Every captured sample has been handed to the playback thread, is in the ring
\* or about to be pushed, belongs to a frame counted in overrun_frames_, or was
\* refused by a push() nobody looked at.
EverySampleAccounted ==
  captured * channels = overrun * channels + popped + Len(queue) + wLeft + lost

\* The inductive invariant.
BridgeInv == BridgeTypes /\ ReaderInv /\ MonoInv /\ EverySampleAccounted

\* With one channel overrun_frames_ tells the whole truth: no push() is refused
\* behind its back.
MonoLosesNothing == channels = 1 => lost = 0

\* read() ignores the result of its pops (bridge.hpp:42).  It may: however the
\* capture thread interleaves and however stale the counters it loads, every
\* sample it decided to read is there, so no zero is slipped in mid-block.
ReadNeverStarved == failedPops = 0

\* What the playback thread gets is in capture order and nothing comes twice,
\* whatever was dropped in between.
Before(s, t) == s.frame < t.frame \/ (s.frame = t.frame /\ s.ch < t.ch)
InOrder ==
  LET stream == <<out>> \o queue \o (IF wLeft > 0 THEN <<wNext>> ELSE <<>>)
  IN \A i \in 1 .. Len(stream) - 1 : Before(stream[i], stream[i + 1])

\* "whole frames are dropped or inserted at the edges instead of letting the
\* buffer overflow and corrupt channel alignment" (bridge.hpp:13-14): the sample
\* at each place of a block belongs to the channel of that place.
FramesStayAligned ==
  \A i \in 1 .. Len(block) :
    block[i] # Silence => block[i].ch = ((i - 1) % channels) + 1
-----------------------------------------------------------------------------
(* The inductive invariant of the stream.                                  *)

\* What has been handed out last and what is still in the ring.
Delivered == <<out>> \o queue

\* The running write() is in a frame that has been captured, with whole frames
\* to go, and behind all that it has pushed.
WholeFramesLeft ==
  \E f \in 0 .. captured + 1 : /\ wNext.frame + f <= captured + 1
                               /\ wLeft + wNext.ch = f * channels + 1
WriterInv ==
  /\ \A i \in 1 .. Len(Delivered) : Delivered[i].frame <= captured
  /\ wLeft > 0 =>
       /\ wNext.ch \in 1 .. channels /\ WholeFramesLeft
       /\ \A i \in 1 .. Len(Delivered) : Before(Delivered[i], wNext)

\* Nothing overtakes.
OrderInv ==
  \A j \in 1 .. Len(Delivered) : \A i \in 1 .. j - 1 :
    Before(Delivered[i], Delivered[j])

StreamInv == out \in StreamSample /\ WriterInv /\ OrderInv
=============================================================================
