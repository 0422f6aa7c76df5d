---------------------------- MODULE BridgeProofs ----------------------------
(***************************************************************************)
(* Proofs about Bridge: for every capacity, channel count and block size   *)
(* the reader's unchecked pops succeed and every sample is accounted for;  *)
(* a mono stream loses nothing unnoticed.                                  *)
(***************************************************************************)
EXTENDS Bridge, TLAPS

\* A frame count times the channels is a sample count; it grows with the
\* frames and distributes over their sum and difference.
LEMMA FramesToSamples ==
  ASSUME NEW c \in Nat \ {0}, NEW a \in Nat, NEW b \in Nat
  PROVE  /\ a * c \in Nat
         /\ (a + b) * c = a * c + b * c
         /\ a <= b => a * c <= b * c
         /\ c = 1 => a * c = a
<1>1. a * c \in Nat /\ (c = 1 => a * c = a)
  BY SMTT(30)
<1>2. (a + b) * c = a * c + b * c
  BY SMTT(30)
<1>3. a <= b => a * c <= b * c
  BY SMTT(30)
<1> QED
  BY <1>1, <1>2, <1>3

\* Whole frames of the ring take no more room than the ring has.
LEMMA WholeFrames ==
  ASSUME NEW c \in Nat \ {0}, NEW n \in Nat
  PROVE  /\ n \div c \in Nat
         /\ (n \div c) * c <= n
         /\ n < (n \div c + 1) * c
         /\ c = 1 => n \div c = n
<1>1. n = c * (n \div c) + (n % c)
  BY SMTT(30)
<1>2. n % c \in Nat /\ n \div c \in Nat /\ n % c < c
  BY SMTT(30)
<1>3. c * (n \div c) = (n \div c) * c
  BY <1>2, SMTT(30)
<1>4. c = 1 => n \div c = n
  BY SMTT(30)
<1>5. (n \div c + 1) * c = (n \div c) * c + c
  BY <1>2, SMTT(30)
<1> QED
  BY <1>1, <1>2, <1>3, <1>4, <1>5

\* The ring holds no more whole frames than fit into it.
LEMMA HeldFrames ==
  ASSUME NEW c \in Nat \ {0}, NEW held \in Nat, NEW room \in Nat, held <= room
  PROVE  held \div c \in Nat /\ room \div c \in Nat /\ held \div c <= room \div c
<1>1. PICK a \in Nat : a = held \div c /\ a * c <= held
  BY WholeFrames
<1>2. PICK b \in Nat : b = room \div c /\ room < (b + 1) * c
  BY WholeFrames
<1>3. SUFFICES a <= b
  BY <1>1, <1>2
<1>4. SUFFICES ASSUME b + 1 <= a
               PROVE  FALSE
  BY <1>1, <1>2
<1>5. (b + 1) * c \in Nat /\ a * c \in Nat /\ (b + 1) * c <= a * c
  BY <1>4, FramesToSamples
<1> QED
  BY <1>1, <1>2, <1>5

\* The samples of a number of frames, as a function the provers need not look
\* into: they only ever add its values.
Samples(frames, c) == frames * c

LEMMA SamplesAdd ==
  ASSUME NEW c \in Nat \ {0}, NEW a \in Nat, NEW b \in Nat
  PROVE  /\ Samples(a, c) \in Nat /\ Samples(b, c) \in Nat
         /\ Samples(a + b, c) = Samples(a, c) + Samples(b, c)
BY FramesToSamples DEF Samples

\* What the steps below need to know of the counters.
LEMMA Counters ==
  ASSUME BridgeInv
  PROVE  /\ channels \in Nat \ {0} /\ Capacity \in Nat /\ Len(queue) \in Nat
         /\ captured \in Nat /\ overrun \in Nat
         /\ \A n \in 0 .. unseenPops : n \in Nat /\ Len(queue) + n <= Capacity
BY BridgeAssumption DEF BridgeInv, BridgeTypes, ReaderInv

-----------------------------------------------------------------------------
LEMMA BridgeStarts == BridgeInit => BridgeInv
<1> SUFFICES ASSUME BridgeInit
             PROVE  BridgeInv
  OBVIOUS
<1>1. channels \in Nat \ {0}
  BY BridgeAssumption DEF BridgeInit
<1>2. 0 * channels = 0
  BY <1>1, SMTT(30)
<1>3. BridgeTypes
  BY BridgeAssumption DEF BridgeInit, BridgeTypes, Silence, StreamSample
<1> QED
  BY <1>2, <1>3, BridgeAssumption
     DEF BridgeInit, BridgeInv, ReaderInv, MonoInv, EverySampleAccounted

\* The frames a write accepts and the frames it counts as overrun are together
\* the frames it was given.
LEMMA WriteBeginStep ==
  ASSUME BridgeInv, NEW frames \in 1 .. MaxBlock, WriteBegin(frames)
  PROVE  BridgeInv'
<1>1. PICK n \in 0 .. unseenPops :
        /\ Ring!ProducerLook(n)
        /\ wLeft' = Smaller(frames, FreeFrames(n)) * channels
        /\ wNext' = [frame |-> captured + 1, ch |-> 1]
        /\ overrun' = overrun + (frames - Smaller(frames, FreeFrames(n)))
  BY DEF WriteBegin
<1>2. frames \in Nat /\ n \in Nat /\ Len(queue) + n \in Nat
  BY Counters, BridgeAssumption
<1>3. PICK free \in Nat : /\ free = FreeFrames(n)
                          /\ channels = 1 => free = Capacity - (Len(queue) + n)
  <2>1. PICK held \in Nat : held = Len(queue) + n /\ held <= Capacity
    BY <1>2, Counters
  <2>2. FreeFrames(n) = Capacity \div channels - held \div channels
    BY <2>1 DEF FreeFrames, Ring!ProducerSize
  <2>3. /\ held \div channels \in Nat /\ Capacity \div channels \in Nat
        /\ held \div channels <= Capacity \div channels
    BY <2>1, HeldFrames, Counters
  <2>4. channels = 1 => held \div channels = held /\ Capacity \div channels = Capacity
    BY <2>1, WholeFrames, Counters
  <2> QED
    BY <2>1, <2>2, <2>3, <2>4
<1>4. PICK w \in Nat : /\ w = Smaller(frames, FreeFrames(n))
                       /\ w <= frames /\ w <= free
  BY <1>2, <1>3 DEF Smaller
<1>5. PICK d \in Nat : d = frames - w /\ frames = w + d
  BY <1>2, <1>4
<1>6. wLeft' = w * channels /\ overrun' = overrun + d
  BY <1>1, <1>4, <1>5
<1>7. /\ wLeft = 0 /\ captured' = captured + frames /\ captured' <= MaxFrames
      /\ UNCHANGED <<queue, unseenPushes, out, lost, channels, rVars>>
      /\ unseenPops' = n
  BY <1>1, Counters, <1>2, BridgeAssumption DEF WriteBegin, Ring!ProducerLook
<1>8. BridgeTypes'
  <2>1. w * channels \in Nat
    BY <1>4, FramesToSamples, Counters
  <2>2. wNext' \in StreamSample
    BY <1>1, Counters DEF StreamSample
  <2>3. captured' \in 0 .. MaxFrames /\ overrun' \in Nat
    BY <1>2, <1>5, <1>6, <1>7, Counters, BridgeAssumption, SMTT(30)
  <2> QED
    BY <1>2, <1>6, <1>7, <2>1, <2>2, <2>3 DEF BridgeInv, BridgeTypes, rVars
<1>9. ReaderInv'
  BY <1>2, <1>7, Counters DEF BridgeInv, ReaderInv, rVars
<1>10. MonoInv'
  <2>1. PICK p \in Nat : p = w * channels /\ (channels = 1 => p = w)
    BY <1>4, FramesToSamples, Counters
  <2>2. channels = 1 => p + Len(queue) + n <= Capacity /\ lost = 0
    BY <1>2, <1>3, <1>4, <2>1, Counters, SMTT(30) DEF BridgeInv, MonoInv
  <2> QED
    BY <1>6, <1>7, <2>1, <2>2 DEF MonoInv
<1>11. EverySampleAccounted'
  <2>1. /\ Samples(captured + frames, channels)
             = Samples(captured, channels) + Samples(frames, channels)
        /\ Samples(captured, channels) \in Nat /\ Samples(frames, channels) \in Nat
    BY <1>2, SamplesAdd, Counters
  <2>2. /\ Samples(w + d, channels) = Samples(w, channels) + Samples(d, channels)
        /\ Samples(w, channels) \in Nat /\ Samples(d, channels) \in Nat
    BY <1>4, <1>5, SamplesAdd, Counters, ZenonT(30)
  <2>3. /\ Samples(overrun + d, channels)
             = Samples(overrun, channels) + Samples(d, channels)
        /\ Samples(overrun, channels) \in Nat
    BY <1>5, SamplesAdd, Counters, ZenonT(30)
  <2>4. Samples(captured, channels)
          = Samples(overrun, channels) + popped + Len(queue) + wLeft + lost
    BY DEF BridgeInv, EverySampleAccounted, Samples
  <2>5. popped \in Nat /\ lost \in Nat /\ Len(queue) \in Nat /\ wLeft = 0
    BY <1>7, Counters DEF BridgeInv, BridgeTypes
  <2>6. Samples(frames, channels) = Samples(w + d, channels)
    BY <1>5
  <2>7. PICK c \in Nat, f \in Nat, o \in Nat, a \in Nat, b \in Nat :
          /\ c = Samples(captured, channels) /\ f = Samples(frames, channels)
          /\ o = Samples(overrun, channels)
          /\ a = Samples(w, channels) /\ b = Samples(d, channels)
    <3> HIDE DEF Samples
    <3> QED
      BY <2>1, <2>2, <2>3
  <2>8. f = a + b /\ c = o + popped + Len(queue) + lost
    <3> HIDE DEF Samples
    <3> QED
      BY <2>2, <2>4, <2>5, <2>6, <2>7, SMTT(30)
  <2>9. c + f = (o + b) + popped + Len(queue) + a + lost
    BY <2>5, <2>8
  <2>10. /\ Samples(captured + frames, channels) = c + f
         /\ Samples(overrun + d, channels) = o + b
    BY <2>1, <2>3, <2>7
  <2> QED
    BY <1>6, <1>7, <2>7, <2>9, <2>10 DEF EverySampleAccounted, Samples, rVars
<1> QED
  BY <1>8, <1>9, <1>10, <1>11 DEF BridgeInv

\* A push that is refused moves its sample to those lost; with one channel none
\* is refused.
LEMMA WritePushStep ==
  ASSUME BridgeInv, WritePush
  PROVE  BridgeInv'
<1>1. PICK n \in 0 .. unseenPops :
        \/ Ring!Push(wNext, n) /\ lost' = lost
        \/ /\ ~(Ring!ProducerSize(n) < Capacity)
           /\ Ring!ProducerLook(n)
           /\ lost' = lost + 1
  BY DEF WritePush
<1>2. /\ wLeft > 0 /\ wLeft' = wLeft - 1
      /\ UNCHANGED <<captured, overrun, channels, rVars>>
  BY DEF WritePush
<1>3. wNext' \in StreamSample
  <2>1. wNext \in [frame : Nat, ch : Nat]
    BY DEF BridgeInv, BridgeTypes, StreamSample
  <2>2. [wNext EXCEPT !.ch = @ + 1] \in [frame : Nat, ch : Nat]
    BY <2>1
  <2>3. [frame |-> wNext.frame + 1, ch |-> 1] \in [frame : Nat, ch : Nat]
    BY <2>1
  <2>4. Following(wNext) \in StreamSample
    BY <2>2, <2>3, Zenon DEF Following, StreamSample
  <2> QED
    BY <2>4 DEF WritePush
<1>4. CASE Ring!Push(wNext, n) /\ lost' = lost
  <2>1. /\ queue' = Append(queue, wNext)
        /\ unseenPops' = n /\ unseenPushes' = unseenPushes + 1
        /\ Len(queue) + n < Capacity
    BY <1>4 DEF Ring!Push, Ring!ProducerSize
  <2>2. queue' \in Seq(StreamSample) /\ Len(queue') = Len(queue) + 1
    BY <2>1 DEF BridgeInv, BridgeTypes
  <2>3. BridgeTypes'
    BY <1>2, <1>3, <1>4, <2>1, <2>2, Counters DEF BridgeInv, BridgeTypes, rVars
  <2>4. ReaderInv' /\ MonoInv'
    BY <1>2, <1>4, <2>1, <2>2, Counters
       DEF BridgeInv, BridgeTypes, ReaderInv, MonoInv, rVars
  <2>5. EverySampleAccounted'
    <3>1. PICK a \in Int, b \in Int : a = captured * channels /\ b = overrun * channels
      BY FramesToSamples, Counters
    <3> QED
      BY <1>2, <1>4, <2>2, <3>1, Counters, SMTT(30)
         DEF BridgeInv, BridgeTypes, EverySampleAccounted, rVars
  <2> QED
    BY <2>3, <2>4, <2>5 DEF BridgeInv
<1>5. CASE /\ ~(Ring!ProducerSize(n) < Capacity)
           /\ Ring!ProducerLook(n)
           /\ lost' = lost + 1
  <2>1. /\ UNCHANGED <<queue, unseenPushes>> /\ unseenPops' = n
        /\ lost' = lost + 1
        /\ ~(Len(queue) + n < Capacity)
    BY <1>5 DEF Ring!ProducerLook, Ring!ProducerSize
  <2>2. BridgeTypes'
    BY <1>2, <1>3, <2>1, Counters DEF BridgeInv, BridgeTypes, rVars
  <2>3. ReaderInv'
    BY <1>2, <2>1, Counters DEF BridgeInv, ReaderInv, rVars
  <2>4. channels # 1
    BY <1>2, <2>1, Counters DEF BridgeInv, BridgeTypes, MonoInv
  <2>5. MonoInv'
    BY <1>2, <2>4 DEF MonoInv
  <2>6. EverySampleAccounted'
    <3>1. captured * channels = overrun * channels + popped + Len(queue) + wLeft + lost
      BY DEF BridgeInv, EverySampleAccounted
    <3>2. PICK o \in Nat, c \in Nat : o = overrun * channels /\ c = captured * channels
      <4>1. overrun * channels \in Nat
        BY FramesToSamples, Counters
      <4>2. captured * channels \in Nat
        BY FramesToSamples, Counters
      <4> QED
        BY <4>1, <4>2
    <3>3. popped \in Nat /\ lost \in Nat /\ wLeft \in Nat /\ Len(queue) \in Nat
      BY DEF BridgeInv, BridgeTypes
    <3>4. c = o + popped + Len(queue) + wLeft + lost
      BY <3>1, <3>2
    <3>5. c = o + popped + Len(queue) + (wLeft - 1) + (lost + 1)
      BY <3>3, <3>4
    <3> QED
      BY <1>2, <2>1, <3>2, <3>5 DEF EverySampleAccounted, rVars
  <2> QED
    BY <2>2, <2>3, <2>5, <2>6 DEF BridgeInv
<1> QED
  BY <1>1, <1>4, <1>5

\* The frames a read takes are there, in samples.
LEMMA ReadBeginStep ==
  ASSUME BridgeInv, NEW frames \in 1 .. MaxBlock, ReadBegin(frames)
  PROVE  BridgeInv'
<1>1. PICK n \in 0 .. unseenPushes :
        /\ Ring!ConsumerLook(n)
        /\ rLeft' = Smaller(frames, Ring!ConsumerSize(n) \div channels) * channels
        /\ underrun' = underrun
             + (frames - Smaller(frames, Ring!ConsumerSize(n) \div channels))
        /\ underrun' <= MaxMissing
  BY DEF ReadBegin
<1>2. PICK size \in Nat : size = Ring!ConsumerSize(n) /\ size = Len(queue) - n
  BY Counters DEF BridgeInv, BridgeTypes, ReaderInv, Ring!ConsumerSize
<1>3. PICK available \in Nat : /\ available = size \div channels
                               /\ available * channels <= size
  BY WholeFrames, Counters
<1>4. PICK r \in Nat : /\ r = Smaller(frames, available)
                       /\ r <= available /\ r <= frames
  BY BridgeAssumption, <1>3 DEF Smaller
<1>5. rLeft' = r * channels /\ underrun' = underrun + (frames - r)
  BY <1>1, <1>2, <1>3, <1>4
<1>6. r * channels \in Nat /\ r * channels <= available * channels
      /\ available * channels \in Nat
  BY <1>3, <1>4, FramesToSamples, Counters
<1>7. UNCHANGED <<queue, unseenPops, failedPops, popped, channels, wVars>>
      /\ unseenPushes' = n
  BY <1>1 DEF ReadBegin, Ring!ConsumerLook
<1>8. n \in Nat /\ rLeft' \in Nat /\ rLeft' + n <= Len(queue)
  BY <1>2, <1>3, <1>5, <1>6, Counters, SMTT(30) DEF BridgeInv, BridgeTypes
<1>9. underrun' \in 0 .. MaxMissing
  BY <1>1, <1>4, <1>5, BridgeAssumption, SMTT(30) DEF BridgeInv, BridgeTypes
<1>10. BridgeTypes'
  BY <1>7, <1>8, <1>9 DEF BridgeInv, BridgeTypes, wVars
<1>11. ReaderInv' /\ MonoInv'
  BY <1>7, <1>8 DEF BridgeInv, ReaderInv, MonoInv, wVars
<1>12. EverySampleAccounted'
  BY <1>7 DEF BridgeInv, EverySampleAccounted, wVars
<1> QED
  BY <1>10, <1>11, <1>12 DEF BridgeInv

LEMMA ReadPopStep ==
  ASSUME BridgeInv, ReadPop
  PROVE  BridgeInv'
<1>1. PICK n \in 0 .. unseenPushes :
        \/ Ring!Pop(n) /\ popped' = popped + 1 /\ failedPops' = failedPops
        \/ ~(Ring!ConsumerSize(n) > 0)
  BY DEF ReadPop
<1>2. Len(queue) > 0 /\ Ring!ConsumerSize(n) > 0
  BY <1>1, Counters DEF ReadPop, BridgeInv, BridgeTypes, ReaderInv, Ring!ConsumerSize
<1>3. popped' = popped + 1 /\ failedPops' = failedPops
      /\ queue' = Tail(queue) /\ unseenPops' = unseenPops + 1 /\ unseenPushes' = n
  BY <1>1, <1>2 DEF Ring!Pop
<1>4. queue' \in Seq(StreamSample) /\ Len(queue') = Len(queue) - 1
  BY <1>2, <1>3 DEF BridgeInv, BridgeTypes
<1>5. rLeft' = rLeft - 1 /\ rLeft > 0 /\ UNCHANGED <<underrun, channels, wVars>>
  BY DEF ReadPop
<1>6. BridgeTypes'
  BY <1>3, <1>4, <1>5 DEF BridgeInv, BridgeTypes, wVars
<1>7. ReaderInv' /\ MonoInv'
  BY <1>3, <1>4, <1>5, Counters DEF BridgeInv, BridgeTypes, ReaderInv, MonoInv, wVars
<1>8. EverySampleAccounted'
  <2>1. PICK a \in Int, b \in Int : a = captured * channels /\ b = overrun * channels
    BY FramesToSamples, Counters
  <2> QED
    BY <1>3, <1>4, <1>5, <2>1, Counters
       DEF BridgeInv, BridgeTypes, EverySampleAccounted, wVars
<1> QED
  BY <1>6, <1>7, <1>8 DEF BridgeInv

\* The inductive invariant holds, for all capacities, channel counts and blocks.
THEOREM BridgeInvariant == BridgeSpec => []BridgeInv
<1>1. BridgeInv /\ UNCHANGED bridgeVars => BridgeInv'
  BY DEF BridgeInv, BridgeTypes, ReaderInv, MonoInv, EverySampleAccounted,
         bridgeVars, ringVars, wVars, rVars
<1>2. BridgeInv /\ [BridgeNext]_bridgeVars => BridgeInv'
  BY <1>1, WriteBeginStep, WritePushStep, ReadBeginStep, ReadPopStep DEF BridgeNext
<1> QED
  BY BridgeStarts, <1>2, PTL DEF BridgeSpec

\* No pop inside read() fails, whatever the channel count and the interleaving.
THEOREM BridgeReadNeverStarved == BridgeSpec => []ReadNeverStarved
<1>1. BridgeInv => ReadNeverStarved
  BY DEF BridgeInv, ReaderInv, ReadNeverStarved
<1> QED
  BY <1>1, BridgeInvariant, PTL

\* No sample disappears but in the two places where samples are dropped.
THEOREM BridgeAccounted == BridgeSpec => []EverySampleAccounted
<1>1. BridgeInv => EverySampleAccounted
  BY DEF BridgeInv
<1> QED
  BY <1>1, BridgeInvariant, PTL

\* And with one channel there is only one such place, overrun_frames_.
THEOREM BridgeMonoLosesNothing == BridgeSpec => []MonoLosesNothing
<1>1. BridgeInv => MonoLosesNothing
  BY DEF BridgeInv, MonoInv, MonoLosesNothing
<1> QED
  BY <1>1, BridgeInvariant, PTL
-----------------------------------------------------------------------------
(* The order of the stream.                                                *)

\* The stream seen from its two ends.
LEMMA DeliveredStream ==
  ASSUME queue \in Seq(StreamSample), out \in StreamSample
  PROVE  /\ Delivered \in Seq(StreamSample) /\ Len(Delivered) = Len(queue) + 1
         /\ Delivered[1] = out
         /\ \A i \in 1 .. Len(queue) : Delivered[i + 1] = queue[i]
BY DEF Delivered

\* A push adds the sample at one end, a pop takes one away at the other.
LEMMA DeliveredPush ==
  ASSUME queue \in Seq(StreamSample), out \in StreamSample, NEW v \in StreamSample,
         queue' = Append(queue, v), out' = out
  PROVE  /\ Len(Delivered') = Len(Delivered) + 1 /\ Delivered'[Len(Delivered) + 1] = v
         /\ \A i \in 1 .. Len(Delivered) : Delivered'[i] = Delivered[i]
BY DEF Delivered

LEMMA DeliveredPop ==
  ASSUME queue \in Seq(StreamSample), out \in StreamSample, queue # <<>>,
         queue' = Tail(queue), out' = Head(queue)
  PROVE  /\ Len(Delivered') = Len(Delivered) - 1 /\ Len(Delivered') \in Nat
         /\ \A i \in 1 .. Len(Delivered') : Delivered'[i] = Delivered[i + 1]
<1>1. /\ Tail(queue) \in Seq(StreamSample) /\ Len(Tail(queue)) = Len(queue) - 1
      /\ \A i \in 1 .. Len(Tail(queue)) : Tail(queue)[i] = queue[i + 1]
      /\ Head(queue) = queue[1] /\ Head(queue) \in StreamSample /\ Len(queue) \in Nat
  OBVIOUS
<1>2. Delivered' = <<Head(queue)>> \o Tail(queue)
  BY DEF Delivered
<1>3. /\ Len(Delivered') = Len(queue) /\ Delivered'[1] = queue[1]
      /\ \A i \in 1 .. Len(Tail(queue)) : Delivered'[i + 1] = queue[i + 1]
  BY <1>1, <1>2
<1>4. \A i \in 1 .. Len(queue) : Delivered'[i] = queue[i]
  <2> TAKE i \in 1 .. Len(queue)
  <2>1. CASE i = 1
    BY <1>3, <2>1
  <2>2. CASE i # 1
    <3>1. i - 1 \in 1 .. Len(Tail(queue)) /\ (i - 1) + 1 = i
      BY <1>1, <2>2
    <3> QED
      BY <1>3, <3>1
  <2> QED
    BY <2>1, <2>2
<1> QED
  BY <1>1, <1>3, <1>4, DeliveredStream

LEMMA StreamInit == BridgeInit => StreamInv
<1> SUFFICES ASSUME BridgeInit
             PROVE  StreamInv
  OBVIOUS
<1>1. queue \in Seq(StreamSample) /\ out \in StreamSample /\ out.frame = 0
  BY DEF BridgeInit, Silence, StreamSample
<1>2. Len(Delivered) = 1 /\ Delivered[1] = out
  BY <1>1, DeliveredStream DEF BridgeInit
<1>3. WriterInv /\ OrderInv
  BY <1>1, <1>2 DEF BridgeInit, WriterInv, OrderInv
<1> QED
  BY <1>1, <1>3 DEF StreamInv

\* A write accepts whole frames.
LEMMA Accepted ==
  ASSUME BridgeInv, NEW n \in 0 .. unseenPops, NEW frames \in Nat
  PROVE  Smaller(frames, FreeFrames(n)) \in 0 .. frames
<1>1. PICK held \in Nat : held = Len(queue) + n /\ held <= Capacity
  BY Counters
<1>2. FreeFrames(n) = Capacity \div channels - held \div channels
  BY <1>1 DEF FreeFrames, Ring!ProducerSize
<1>3. /\ held \div channels \in Nat /\ Capacity \div channels \in Nat
      /\ held \div channels <= Capacity \div channels
  BY <1>1, HeldFrames, Counters
<1>4. FreeFrames(n) \in Nat
  BY <1>2, <1>3
<1> QED
  BY <1>4 DEF Smaller

\* A write begins with whole frames behind all that was captured before it.
LEMMA WriteBeginKeepsStream ==
  ASSUME BridgeInv, StreamInv, NEW frames \in 1 .. MaxBlock, WriteBegin(frames)
  PROVE  StreamInv'
<1>1. PICK n \in 0 .. unseenPops :
        /\ Ring!ProducerLook(n)
        /\ wLeft' = Smaller(frames, FreeFrames(n)) * channels
        /\ wNext' = [frame |-> captured + 1, ch |-> 1]
  BY DEF WriteBegin
<1>2. frames \in Nat
  BY BridgeAssumption
<1>3. PICK w \in 0 .. frames : wLeft' = w * channels
  BY <1>1, <1>2, Accepted
<1>4. /\ wLeft = 0 /\ captured' = captured + frames
      /\ UNCHANGED <<queue, out, channels, lost, popped, block, rLeft>>
  BY <1>1 DEF WriteBegin, Ring!ProducerLook, rVars
<1>5. /\ queue \in Seq(StreamSample) /\ out \in StreamSample
      /\ Delivered' = Delivered /\ Len(Delivered) \in Nat
      /\ \A i \in 1 .. Len(Delivered) : Delivered[i] \in StreamSample
  BY <1>4, DeliveredStream DEF BridgeInv, BridgeTypes, StreamInv, Delivered
<1>6. \A i \in 1 .. Len(Delivered) :
        Delivered[i].frame \in Nat /\ Delivered[i].frame <= captured
  BY <1>5 DEF StreamInv, WriterInv, StreamSample
<1>7. WriterInv'
  <2>1. \A i \in 1 .. Len(Delivered) : Delivered[i].frame <= captured'
    BY <1>2, <1>4, <1>6, Counters
  <2>2. \A i \in 1 .. Len(Delivered) : Before(Delivered[i], wNext')
    BY <1>1, <1>6, Counters DEF Before
  <2>3. wNext'.ch \in 1 .. channels
    BY <1>1, Counters
  <2>4. WholeFramesLeft'
    <3>1. w \in 0 .. captured' + 1 /\ wNext'.frame + w <= captured' + 1
      BY SMTT(30), <1>1, <1>2, <1>4, Counters
    <3>2. wLeft' + wNext'.ch = w * channels' + 1
      BY <1>1, <1>3, <1>4
    <3> QED
      BY <3>1, <3>2 DEF WholeFramesLeft
  <2> QED
    BY <1>4, <1>5, <2>1, <2>2, <2>3, <2>4 DEF WriterInv
<1>8. OrderInv'
  BY <1>5 DEF StreamInv, OrderInv, Before
<1> QED
  BY <1>4, <1>5, <1>7, <1>8 DEF StreamInv

\* The sample to be pushed is behind all others, and of a captured frame.
LEMMA NextIsCaptured ==
  ASSUME BridgeInv, StreamInv, wLeft > 0
  PROVE  wNext.frame <= captured
<1>1. PICK f \in 0 .. captured + 1 : /\ wNext.frame + f <= captured + 1
                                     /\ wLeft + wNext.ch = f * channels + 1
  BY DEF StreamInv, WriterInv, WholeFramesLeft
<1>2. wNext.ch \in Nat \ {0} /\ wLeft \in Nat /\ wNext.frame \in Nat
  BY Counters DEF StreamInv, WriterInv, BridgeInv, BridgeTypes, StreamSample
<1>3. f # 0
  <2>1. 0 * channels = 0
    BY Counters, SMTT(30)
  <2> QED
    BY <1>1, <1>2, <2>1
<1> QED
  BY <1>1, <1>2, <1>3, Counters

\* What follows it in the input is behind it, and the frames to go stay whole.
LEMMA FollowingSample ==
  ASSUME BridgeInv, StreamInv, WritePush
  PROVE  /\ wNext' \in StreamSample
         /\ Before(wNext, wNext')
         /\ wLeft' > 0 => wNext'.ch \in 1 .. channels /\ WholeFramesLeft'
<1>1. PICK f \in 0 .. captured + 1 : /\ wNext.frame + f <= captured + 1
                                     /\ wLeft + wNext.ch = f * channels + 1
  BY DEF WritePush, StreamInv, WriterInv, WholeFramesLeft
<1>2. /\ wLeft > 0 /\ wLeft' = wLeft - 1 /\ UNCHANGED <<captured, channels>>
      /\ wNext' = Following(wNext)
  BY DEF WritePush
<1>3. /\ wNext \in [frame : Nat, ch : Nat] /\ wLeft \in Nat
      /\ wNext.ch \in 1 .. channels /\ wNext.frame \in Nat
  BY <1>2 DEF BridgeInv, BridgeTypes, StreamSample, StreamInv, WriterInv
<1>4. CASE wNext.ch < channels
  <2>1. wNext' = [wNext EXCEPT !.ch = @ + 1]
    BY <1>2, <1>4 DEF Following
  <2>2. /\ wNext' \in StreamSample
        /\ wNext'.frame = wNext.frame /\ wNext'.ch = wNext.ch + 1
    BY <1>3, <2>1 DEF StreamSample
  <2>3. wNext'.ch \in 1 .. channels /\ Before(wNext, wNext')
    BY <1>3, <1>4, <2>2, Counters DEF Before
  <2>4. wLeft' + wNext'.ch = wLeft + wNext.ch
    BY <1>2, <1>3, <2>2
  <2>5. WholeFramesLeft'
    BY <1>1, <1>2, <2>2, <2>4 DEF WholeFramesLeft
  <2> QED
    BY <2>2, <2>3, <2>5
<1>5. CASE wNext.ch = channels
  <2>1. wNext' = [frame |-> wNext.frame + 1, ch |-> 1]
    BY <1>2, <1>3, <1>5, Counters DEF Following
  <2>2. wNext' \in StreamSample /\ Before(wNext, wNext')
    BY <1>3, <2>1 DEF StreamSample, Before
  <2>3. ASSUME wLeft' > 0
        PROVE  WholeFramesLeft'
    <3>1. f # 0
      <4>1. 0 * channels = 0
        BY Counters, SMTT(30)
      <4> QED
        BY <1>1, <1>3, <2>3, <1>2, <4>1
    <3>2. PICK g \in Nat : f = g + 1
      BY <3>1, Counters
    <3>3. PICK s \in Nat : s = g * channels /\ f * channels = s + channels
      <4>1. g * channels \in Nat /\ (g + 1) * channels = g * channels + 1 * channels
            /\ 1 * channels = channels
        BY FramesToSamples, Counters, SMTT(30)
      <4> QED
        BY <3>2, <4>1
    <3>4. wLeft' + wNext'.ch = g * channels + 1
      <4>1. wLeft + channels = (s + channels) + 1
        BY <1>1, <1>5, <3>3
      <4>2. wLeft = s + 1
        BY <1>3, <4>1, Counters
      <4>3. wLeft' + wNext'.ch = s + 1
        BY <1>2, <2>1, <4>2
      <4> QED
        BY <3>3, <4>3
    <3>5. g \in 0 .. captured + 1 /\ wNext'.frame + g <= captured + 1
      BY SMTT(30), <1>1, <1>3, <2>1, <3>2, Counters
    <3> QED
      BY <1>2, <3>4, <3>5 DEF WholeFramesLeft
  <2>4. wNext'.ch \in 1 .. channels
    BY <2>1, Counters
  <2> QED
    BY <2>2, <2>3, <2>4
<1> QED
  BY <1>3, <1>4, <1>5, Counters

\* A push keeps the order, taken or refused.
LEMMA WritePushKeepsStream ==
  ASSUME BridgeInv, StreamInv, WritePush
  PROVE  StreamInv'
<1>1. PICK n \in 0 .. unseenPops :
        \/ Ring!Push(wNext, n) /\ lost' = lost
        \/ /\ ~(Ring!ProducerSize(n) < Capacity)
           /\ Ring!ProducerLook(n)
           /\ lost' = lost + 1
  BY DEF WritePush
<1>2. /\ wLeft > 0 /\ wLeft' = wLeft - 1 /\ wLeft \in Nat
      /\ UNCHANGED <<captured, channels, popped, block, rLeft>>
  BY DEF WritePush, rVars, BridgeInv, BridgeTypes
<1>3. /\ queue \in Seq(StreamSample) /\ out \in StreamSample /\ wNext \in StreamSample
      /\ Len(Delivered) \in Nat
      /\ \A i \in 1 .. Len(Delivered) : Delivered[i] \in StreamSample
      /\ \A i \in 1 .. Len(Delivered) :
           Delivered[i].frame <= captured /\ Before(Delivered[i], wNext)
  BY <1>2, DeliveredStream DEF BridgeInv, BridgeTypes, StreamInv, WriterInv
<1>4. \A i \in 1 .. Len(Delivered) : Before(Delivered[i], wNext')
  <2>1. wNext' \in StreamSample /\ Before(wNext, wNext')
    BY FollowingSample
  <2>2. \A s \in StreamSample : Before(s, wNext) => Before(s, wNext')
    BY <1>3, <2>1 DEF Before, StreamSample
  <2> QED
    BY <1>3, <2>2
<1>5. wNext.frame <= captured
  BY <1>2, NextIsCaptured
<1>6. CASE Ring!Push(wNext, n) /\ lost' = lost
  <2>1. queue' = Append(queue, wNext) /\ out' = out
    BY <1>6 DEF Ring!Push
  <2>2. /\ Len(Delivered') = Len(Delivered) + 1
        /\ Delivered'[Len(Delivered) + 1] = wNext
        /\ \A i \in 1 .. Len(Delivered) : Delivered'[i] = Delivered[i]
    BY <1>3, <2>1, DeliveredPush
  <2>3. WriterInv'
    <3>1. \A i \in 1 .. Len(Delivered') : Delivered'[i].frame <= captured
      BY <1>3, <1>5, <2>2
    <3>2. \A i \in 1 .. Len(Delivered') : Before(Delivered'[i], wNext')
      BY <1>3, <1>4, <2>2, FollowingSample
    <3> QED
      BY <1>2, <3>1, <3>2, FollowingSample DEF WriterInv
  <2>4. OrderInv'
    <3> SUFFICES ASSUME NEW j \in 1 .. Len(Delivered'), NEW i \in 1 .. j - 1
                 PROVE  Before(Delivered'[i], Delivered'[j])
      BY DEF OrderInv, Before
    <3>1. CASE j = Len(Delivered) + 1
      BY <1>3, <2>2, <3>1
    <3>2. CASE j # Len(Delivered) + 1
      <4>1. j \in 1 .. Len(Delivered) /\ i \in 1 .. Len(Delivered)
        <5>1. PICK len \in Nat : len = Len(Delivered) /\ j \in 1 .. len + 1
          BY <1>3, <2>2
        <5>2. j \in 1 .. len /\ i \in 1 .. len
          BY <3>2, <5>1
        <5> QED
          BY <5>1, <5>2
      <4>2. Before(Delivered[i], Delivered[j])
        BY <4>1 DEF StreamInv, OrderInv
      <4> QED
        BY <2>2, <4>1, <4>2
    <3> QED
      BY <3>1, <3>2
  <2> QED
    BY <1>3, <2>1, <2>3, <2>4 DEF StreamInv
<1>7. CASE Ring!ProducerLook(n) /\ lost' = lost + 1
  <2>1. /\ UNCHANGED <<queue, out>>
        /\ Delivered' = Delivered
    BY <1>7 DEF Ring!ProducerLook, BridgeInv, BridgeTypes, Delivered
  <2>2. WriterInv'
    BY <1>2, <1>3, <1>4, <2>1, FollowingSample DEF WriterInv
  <2>3. OrderInv'
    BY <2>1 DEF StreamInv, OrderInv, Before
  <2> QED
    BY <1>3, <2>1, <2>2, <2>3 DEF StreamInv
<1> QED
  BY <1>1, <1>6, <1>7

\* A read begins without touching the stream.
LEMMA ReadBeginKeepsStream ==
  ASSUME BridgeInv, StreamInv, NEW frames \in 1 .. MaxBlock, ReadBegin(frames)
  PROVE  StreamInv'
<1>1. UNCHANGED <<queue, out, channels, captured, wLeft, wNext>>
  BY DEF ReadBegin, Ring!ConsumerLook, wVars
<1>2. Delivered' = Delivered
  BY <1>1 DEF Delivered
<1>3. WriterInv' /\ OrderInv'
  BY <1>1, <1>2 DEF StreamInv, WriterInv, WholeFramesLeft, OrderInv, Before
<1> QED
  BY <1>1, <1>3 DEF StreamInv

\* A pop hands out the sample at the head.
LEMMA ReadPopKeepsStream ==
  ASSUME BridgeInv, StreamInv, ReadPop
  PROVE  StreamInv'
<1>1. PICK n \in 0 .. unseenPushes :
        \/ /\ Ring!Pop(n) /\ block' = Append(block, Head(queue))
           /\ popped' = popped + 1
        \/ ~(Ring!ConsumerSize(n) > 0)
  BY DEF ReadPop
<1>2. /\ rLeft > 0 /\ rLeft' = rLeft - 1 /\ rLeft \in Nat
      /\ UNCHANGED <<channels, captured, wLeft, wNext, lost>>
  BY DEF ReadPop, wVars, BridgeInv, BridgeTypes
<1>3. Len(queue) > 0 /\ Ring!ConsumerSize(n) > 0
  BY <1>1, <1>2, Counters DEF BridgeInv, BridgeTypes, ReaderInv, Ring!ConsumerSize
<1>4. /\ queue \in Seq(StreamSample) /\ out \in StreamSample /\ queue # <<>>
      /\ popped' = popped + 1 /\ popped \in Nat
      /\ queue' = Tail(queue) /\ out' = Head(queue)
      /\ block' = Append(block, Head(queue))
  BY <1>1, <1>3 DEF Ring!Pop, StreamInv, BridgeInv, BridgeTypes
<1>5. /\ Len(queue') = Len(queue) - 1 /\ Len(queue) \in Nat
      /\ out' = queue[1] /\ out' \in StreamSample
      /\ \A i \in 1 .. Len(queue') : queue'[i] = queue[i + 1]
  BY <1>3, <1>4
<1>6. /\ Len(Delivered') = Len(Delivered) - 1 /\ Len(Delivered') \in Nat
      /\ \A i \in 1 .. Len(Delivered') : Delivered'[i] = Delivered[i + 1]
      /\ Len(Delivered) \in Nat
  BY <1>4, DeliveredPop, DeliveredStream
<1>7. \A i \in 1 .. Len(Delivered') : i + 1 \in 1 .. Len(Delivered)
  BY <1>6
<1>8. WriterInv'
  BY <1>2, <1>6, <1>7 DEF StreamInv, WriterInv, WholeFramesLeft, Before
<1>9. OrderInv'
  <2> SUFFICES ASSUME NEW j \in 1 .. Len(Delivered'), NEW i \in 1 .. j - 1
               PROVE  Before(Delivered'[i], Delivered'[j])
    BY DEF OrderInv, Before
  <2>1. /\ j + 1 \in 1 .. Len(Delivered) /\ i + 1 \in 1 .. (j + 1) - 1
        /\ i \in 1 .. Len(Delivered')
    BY <1>6
  <2>2. Before(Delivered[i + 1], Delivered[j + 1])
    BY <2>1 DEF StreamInv, OrderInv
  <2> QED
    BY <1>6, <2>1, <2>2
<1> QED
  BY <1>5, <1>8, <1>9 DEF StreamInv

\* The order of the stream is kept, for any number of channels.
THEOREM BridgeStream == BridgeSpec => []StreamInv
<1>1. StreamInv /\ UNCHANGED bridgeVars => StreamInv'
  BY DEF StreamInv, WriterInv, WholeFramesLeft, OrderInv, Delivered, Before,
         bridgeVars, ringVars, wVars, rVars
<1>2. BridgeInv /\ StreamInv /\ [BridgeNext]_bridgeVars => StreamInv'
  BY <1>1, WriteBeginKeepsStream, WritePushKeepsStream, ReadBeginKeepsStream,
     ReadPopKeepsStream DEF BridgeNext
<1> QED
  BY StreamInit, <1>2, BridgeInvariant, PTL DEF BridgeSpec

\* What the playback thread gets is in capture order and nothing comes twice,
\* whatever was dropped in between.
THEOREM BridgeInOrder == BridgeSpec => []InOrder
<1>1. ASSUME BridgeInv, StreamInv
      PROVE  InOrder
  <2> DEFINE tail == IF wLeft > 0 THEN <<wNext>> ELSE <<>>
             stream == Delivered \o tail
  <2>1. /\ Delivered \in Seq(StreamSample) /\ tail \in Seq(StreamSample)
        /\ Len(Delivered) \in Nat /\ Len(tail) \in 0 .. 1
        /\ wLeft > 0 <=> Len(tail) = 1
        /\ wLeft > 0 => tail[1] = wNext
    BY <1>1, DeliveredStream DEF StreamInv, BridgeInv, BridgeTypes
  <2>2. /\ Len(stream) = Len(Delivered) + Len(tail)
        /\ \A i \in 1 .. Len(Delivered) : stream[i] = Delivered[i]
        /\ wLeft > 0 => stream[Len(Delivered) + 1] = wNext
    BY <2>1
  <2>3. ASSUME NEW i \in 1 .. Len(stream) - 1
        PROVE  Before(stream[i], stream[i + 1])
    <3>1. i \in 1 .. Len(Delivered) /\ i + 1 \in 1 .. Len(Delivered) + 1
      BY <2>1, <2>2
    <3>2. CASE i + 1 \in 1 .. Len(Delivered)
      <4>1. i \in 1 .. (i + 1) - 1
        BY <3>1
      <4>2. Before(Delivered[i], Delivered[i + 1])
        BY <1>1, <3>2, <4>1 DEF StreamInv, OrderInv
      <4> QED
        BY <2>2, <3>1, <3>2, <4>2
    <3>3. CASE i + 1 = Len(Delivered) + 1
      <4>1. wLeft > 0
        BY <2>1, <2>2, <3>1, <3>3
      <4> QED
        BY <1>1, <2>2, <3>1, <3>3, <4>1 DEF StreamInv, WriterInv
    <3> QED
      BY <2>1, <3>1, <3>2, <3>3
  <2> QED
    BY <2>3 DEF InOrder, Delivered
<1> QED
  BY <1>1, BridgeInvariant, BridgeStream, PTL
========================================================================
