---------------------------- MODULE RecorderProofs ----------------------------
(***************************************************************************)
(* Proofs about Recorder: for every ring, batch and block size and every   *)
(* set of channel counts the invariant RecorderInv holds; with it a frame  *)
(* that was found to fit does fit, control and worker never own the file   *)
(* at once, and the file that is left is a faithful one.                   *)
(***************************************************************************)
EXTENDS Recorder, TLAPS

-----------------------------------------------------------------------------
(* Lemmas about the operators.                                             *)

\* A number is c times its quotient and its remainder, and only so.
LEMMA Remainder ==
  ASSUME NEW c \in Nat \ {0}, NEW q \in Nat, NEW r \in 0 .. c - 1
  PROVE  (q * c + r) % c = r
BY SMTT(30)

LEMMA Quotient ==
  ASSUME NEW c \in Nat \ {0}, NEW p \in Nat
  PROVE  /\ p % c \in 0 .. c - 1
         /\ \E q \in Nat : p = q * c + (p % c)
<1>1. p % c \in 0 .. c - 1 /\ p \div c \in Nat
  BY SMTT(30)
<1>2. p = (p \div c) * c + (p % c)
  BY SMTT(30)
<1> QED
  BY <1>1, <1>2

LEMMA NextRemainder ==
  ASSUME NEW c \in Nat \ {0}, NEW p \in Nat
  PROVE  (p + 1) % c = IF p % c = c - 1 THEN 0 ELSE (p % c) + 1
<1>1. PICK q \in Nat, r \in 0 .. c - 1 : r = p % c /\ p = q * c + r
  BY Quotient
<1>2. CASE r = c - 1
  <2>1. p + 1 = (q + 1) * c + 0
    <3>1. (q + 1) * c = q * c + c
      BY SMTT(30)
    <3> QED
      BY <1>1, <1>2, <3>1
  <2>2. ((q + 1) * c + 0) % c = 0
    BY <1>1, <1>2, Remainder
  <2> QED
    BY <1>1, <1>2, <2>1, <2>2
<1>3. CASE r # c - 1
  <2>1. p + 1 = q * c + (r + 1) /\ r + 1 \in 0 .. c - 1
    BY <1>1, <1>3
  <2> QED
    BY <1>1, <1>3, <2>1, Remainder
<1> QED
  BY <1>2, <1>3

LEMMA FramesKeepRemainder ==
  ASSUME NEW c \in Nat \ {0}, NEW p \in Nat, NEW f \in Nat
  PROVE  (p + f * c) % c = p % c
<1>1. PICK q \in Nat, r \in 0 .. c - 1 : r = p % c /\ p = q * c + r
  BY Quotient
<1>2. p + f * c = (q + f) * c + r
  <2>1. (q + f) * c = q * c + f * c
    BY SMTT(30)
  <2> QED
    BY <1>1, <2>1
<1>3. ((q + f) * c + r) % c = r
  <2>1. q + f \in Nat
    OBVIOUS
  <2> QED
    BY <2>1, Remainder
<1> QED
  BY <1>1, <1>2, <1>3

\* A saturated counter is a counter.
LEMMA Saturates ==
  ASSUME NEW n \in Nat
  PROVE  Saturate(n) \in 0 .. MaxCount
BY RecorderAssumption DEF Saturate, Smaller

\* The two counters of a file, samples and frames, saturate together: whole
\* frames added to each leave the one what the other says.
LEMMA SaturatedFrames ==
  ASSUME NEW c \in Nat \ {0}, NEW w \in 0 .. MaxCount, NEW n \in Nat, n % c = 0
  PROVE  Saturate(Saturate(w * c) + n) = Saturate(Saturate(w + n \div c) * c)
<1> DEFINE q == n \div c
<1>1. q \in Nat /\ n = q * c
  <2>1. n \div c \in Nat /\ n = (n \div c) * c + (n % c)
    BY SMTT(30)
  <2> QED
    BY <2>1
<1>2. w * c \in Nat /\ q * c \in Nat /\ (w + q) * c = w * c + q * c
  BY <1>1, SMTT(30)
<1>3. w <= w * c /\ q <= q * c
  BY <1>1, SMTT(30)
<1>4. CASE w + q <= MaxCount
  <2>1. Saturate(w + q) = w + q
    BY <1>1, <1>4, RecorderAssumption DEF Saturate, Smaller
  <2>2. Saturate(Saturate(w * c) + q * c) = Saturate(w * c + q * c)
    <3> HIDE DEF q
    <3> DEFINE x == w * c
               y == q * c
    <3>1. x \in Nat /\ y \in Nat
      BY <1>2
    <3> HIDE DEF x, y
    <3>2. Saturate(Saturate(x) + y) = Saturate(x + y)
      BY <3>1, RecorderAssumption DEF Saturate, Smaller
    <3> QED
      BY <3>2 DEF x, y
  <2> QED
    BY <1>1, <1>2, <2>1, <2>2
<1>5. CASE w + q > MaxCount
  <2>1. Saturate(w + q) = MaxCount
    BY <1>1, <1>5, RecorderAssumption DEF Saturate, Smaller
  <2>2. Saturate(MaxCount * c) = MaxCount
    <3>1. MaxCount * c \in Nat /\ MaxCount <= MaxCount * c
      BY RecorderAssumption, SMTT(30)
    <3> QED
      BY <3>1, RecorderAssumption DEF Saturate, Smaller
  <2>3. Saturate(Saturate(w * c) + q * c) = MaxCount
    <3> HIDE DEF q
    <3> DEFINE x == w * c
               y == q * c
    <3>1. x \in Nat /\ y \in Nat /\ w <= x /\ q <= y /\ q \in Nat
      BY <1>1, <1>2, <1>3
    <3> HIDE DEF x, y
    <3>2. Saturate(Saturate(x) + y) = MaxCount
      BY <1>5, <3>1, RecorderAssumption DEF Saturate, Smaller
    <3> QED
      BY <3>2 DEF x, y
  <2> QED
    BY <1>1, <2>1, <2>2, <2>3
<1> QED
  BY <1>1, <1>4, <1>5, RecorderAssumption

\* The types of what the invariant counts.
LEMMA Amounts ==
  ASSUME TypeOK
  PROVE  /\ Len(queue) \in Nat /\ Len(scratch) \in Nat /\ Capacity \in Nat
         /\ channels \in Nat /\ aChannels \in Nat /\ aCh \in Nat
         /\ channels # 0 => channels \in Nat \ {0}
<1>1. /\ queue \in Seq(Sample) /\ scratch \in Seq(Sample)
      /\ channels \in ChannelCounts \cup {0}
      /\ aChannels \in ChannelCounts \cup {0} /\ aCh \in 1 .. Capacity
  BY DEF TypeOK
<1>2. ChannelCounts \cup {0} \subseteq Nat /\ Capacity \in Nat
  BY RecorderAssumption
<1> QED
  BY <1>1, <1>2

\* A batch is whole frames, and all of it is in the ring.
LEMMA BatchFits ==
  ASSUME TypeOK, channels # 0
  PROVE  Batch \in Nat /\ Batch <= Len(queue) /\ Batch % channels = 0
<1> DEFINE c == channels
           n == Len(queue)
           f == Smaller(DrainFrames, n \div c)
<1>1. c \in Nat \ {0} /\ n \in Nat
  BY RecorderAssumption DEF TypeOK
<1> HIDE DEF c, n
<1>2. n \div c \in Nat /\ (n \div c) * c <= n
  BY <1>1, SMTT(30)
<1>3. f \in Nat /\ f <= n \div c
  BY <1>2, RecorderAssumption DEF Smaller
<1> HIDE DEF f
<1>4. f * c \in Nat /\ f * c <= (n \div c) * c
  BY <1>1, <1>2, <1>3, SMTT(30)
<1>5. (f * c + 0) % c = 0
  BY <1>1, <1>3, Remainder
<1>6. Batch = f * c
  BY DEF Batch, f, n, c
<1> QED
  BY <1>1, <1>2, <1>4, <1>5, <1>6 DEF n, c

\* A pop takes the oldest sample of the ring to the end of the batch.
LEMMA PopMoves ==
  ASSUME TypeOK, BatchInv, PumpPop
  PROVE  /\ Len(queue') = Len(queue) - 1 /\ Len(queue) > 0
         /\ \A i \in 1 .. Len(queue') : queue'[i] = queue[i + 1]
         /\ Len(scratch') = Len(scratch) + 1
         /\ \A i \in 1 .. Len(scratch) : scratch'[i] = scratch[i]
         /\ scratch'[Len(scratch) + 1] = queue[1]
<1>1. queue \in Seq(Sample) /\ queue # <<>> /\ scratch \in Seq(Sample)
  BY DEF PumpPop, TypeOK, BatchInv
<1>2. queue' = Tail(queue) /\ scratch' = Append(scratch, Head(queue))
  BY DEF PumpPop
<1> QED
  BY <1>1, <1>2

\* A file just opened, and one whose header could not be written.
LEMMA NewFiles == NewFile \in File /\ [NewFile EXCEPT !.open = FALSE] \in File
<1>1. 0 \in 0 .. MaxCount
  BY RecorderAssumption
<1>2. NewFile \in File
  BY <1>1 DEF NewFile, File
<1> QED
  BY <1>2 DEF File

-----------------------------------------------------------------------------
(* The invariant holds at first, and every action keeps it.                *)

\* Nothing has been recorded yet, and no thread is at work.
LEMMA RecorderInit == Init => RecorderInv
<1> SUFFICES ASSUME Init
             PROVE  RecorderInv
  OBVIOUS
<1>1. TypeOK
  <2>1. file \in File
    BY NewFiles DEF Init
  <2>2. /\ queue \in Seq(Sample) /\ Len(queue) <= Capacity
        /\ scratch \in Seq(Sample)
    BY RecorderAssumption DEF Init
  <2>3. /\ 0 \in 0 .. MaxCount /\ 0 \in 0 .. MaxStarts /\ 0 \in 0 .. MaxBlock
        /\ 0 \in 0 .. Capacity /\ 1 \in 1 .. Capacity
    BY RecorderAssumption
  <2> QED
    BY <2>1, <2>2, <2>3, Zenon DEF Init, TypeOK
<1>2. HandoverInv
  BY DEF Init, HandoverInv, Spawning, Finishing
<1>3. WriteInv
  BY DEF Init, WriteInv, FrameAlwaysFits
<1>4. BatchInv
  BY DEF Init, BatchInv
<1>5. FileInv
  BY DEF Init, FileInv
<1>6. OwnInv
  BY DEF Init, OwnInv, NewFile
<1>7. PhaseInv
  BY DEF Init, PhaseInv, NewFile
<1> QED
  BY <1>1, <1>2, <1>3, <1>4, <1>5, <1>6, <1>7 DEF RecorderInv

\* A call changes nothing but where control is.
LEMMA CallStep ==
  ASSUME RecorderInv, NEW n \in ChannelCounts \cup {0}, Call(n)
  PROVE  RecorderInv'
<1> USE DEF RecorderInv
<1>1. TypeOK'
  BY DEF Call, TypeOK, shared, aVars, wVars
<1>2. HandoverInv'
  BY DEF Call, HandoverInv, Spawning, Finishing, shared, wVars
<1>3. WriteInv'
  BY DEF Call, WriteInv, FrameAlwaysFits, shared, aVars, wVars
<1>4. BatchInv'
  BY DEF Call, BatchInv, shared, wVars
<1>5. FileInv'
  BY DEF Call, FileInv, shared, wVars
<1>6. OwnInv'
  BY DEF Call, OwnInv, Spawning, Finishing, shared, aVars, wVars
<1>7. PhaseInv'
  BY DEF Call, PhaseInv, OneWidth, ChannelAt, shared, aVars, wVars
<1> QED
  BY <1>1, <1>2, <1>3, <1>4, <1>5, <1>6, <1>7

\* From here on no write() begins, and the worker is on its way out.
LEMMA StopSignalStep ==
  ASSUME RecorderInv, StopSignal
  PROVE  RecorderInv'
<1> USE DEF RecorderInv
<1>1. TypeOK'
  <2>1. CASE wPc = "none"
    BY <2>1 DEF StopSignal, TypeOK, AfterStop, aVars, wVars
  <2>2. CASE wPc # "none"
    <3>1. cPc' = "join" /\ stopRequested' = TRUE /\ running' = running
          /\ active' = FALSE
      BY <2>2 DEF StopSignal
    <3>2. straddled' \in BOOLEAN
      BY DEF StopSignal
    <3> QED
      <4>1. UNCHANGED <<queue, channels, written, dropped, file, cNext, starts,
                        aVars, wVars>>
        BY DEF StopSignal
      <4>2. cPc' \in {"idle", "stop", "join", "open", "launch", "spawn",
                      "terminated"}
        BY <3>1
      <4>3. active' \in BOOLEAN /\ running' \in BOOLEAN /\ stopRequested' \in BOOLEAN
        BY <3>1 DEF TypeOK
      <4> QED
        BY <3>2, <4>1, <4>2, <4>3, ZenonT(30) DEF TypeOK, aVars, wVars
  <2> QED
    BY <2>1, <2>2
<1>2. HandoverInv'
  BY DEF StopSignal, HandoverInv, AfterStop, Spawning, Finishing, wVars
<1>3. WriteInv'
  BY DEF StopSignal, WriteInv, AfterStop, FrameAlwaysFits, aVars, wVars
<1>4. BatchInv'
  BY DEF StopSignal, BatchInv, wVars
<1>5. FileInv'
  BY DEF StopSignal, FileInv, AfterStop, wVars
<1>6. OwnInv'
  BY DEF StopSignal, OwnInv, Spawning, Finishing, aVars, wVars
<1>7. PhaseInv'
  BY DEF StopSignal, PhaseInv, OneWidth, ChannelAt, aVars, wVars
<1> QED
  BY <1>1, <1>2, <1>3, <1>4, <1>5, <1>6, <1>7

\* The worker has left an empty ring behind.
LEMMA StopJoinStep ==
  ASSUME RecorderInv, StopJoin
  PROVE  RecorderInv'
<1> USE DEF RecorderInv
<1>1. TypeOK'
  BY DEF StopJoin, TypeOK, AfterStop, aVars
<1>2. HandoverInv'
  BY DEF StopJoin, HandoverInv, AfterStop, Spawning, Finishing
<1>3. WriteInv'
  BY DEF StopJoin, WriteInv, AfterStop, FrameAlwaysFits, aVars
<1>4. BatchInv'
  BY DEF StopJoin, BatchInv
<1>5. FileInv'
  BY DEF StopJoin, FileInv, AfterStop
<1>6. OwnInv'
  BY DEF StopJoin, OwnInv, Spawning, Finishing, aVars
<1>7. PhaseInv'
  BY DEF StopJoin, PhaseInv, OneWidth, ChannelAt, aVars
<1> QED
  BY <1>1, <1>2, <1>3, <1>4, <1>5, <1>6, <1>7

\* A start() that fails leaves the recorder idle.
LEMMA StartOpenFailsStep ==
  ASSUME RecorderInv, StartOpenFails
  PROVE  RecorderInv'
<1> USE DEF RecorderInv
<1>1. TypeOK'
  BY DEF StartOpenFails, TypeOK, shared, aVars, wVars
<1>2. HandoverInv'
  BY DEF StartOpenFails, HandoverInv, Spawning, Finishing, shared, wVars
<1>3. WriteInv'
  BY DEF StartOpenFails, WriteInv, FrameAlwaysFits, shared, aVars, wVars
<1>4. BatchInv'
  BY DEF StartOpenFails, BatchInv, shared, wVars
<1>5. FileInv'
  BY DEF StartOpenFails, FileInv, shared, wVars
<1>6. OwnInv'
  BY DEF StartOpenFails, OwnInv, Spawning, Finishing, shared, aVars, wVars
<1>7. PhaseInv'
  BY DEF StartOpenFails, PhaseInv, OneWidth, ChannelAt, shared, aVars, wVars
<1> QED
  BY <1>1, <1>2, <1>3, <1>4, <1>5, <1>6, <1>7

\* The format changes only under an empty ring and an idle audio thread, unless a
\* write() has outlived its recording.
LEMMA StartOpenStep ==
  ASSUME RecorderInv, StartOpen
  PROVE  RecorderInv'
<1> USE DEF RecorderInv
<1>1. TypeOK'
  <2>1. file' \in File
    BY NewFiles DEF StartOpen
  <2>2. starts' \in 0 .. MaxStarts
    <3>1. starts < MaxStarts /\ starts \in Nat
      BY DEF StartOpen, TypeOK, HandoverInv
    <3>2. starts' = starts + 1
      BY DEF StartOpen
    <3> QED
      BY <3>1, <3>2, RecorderAssumption
  <2> QED
    BY <2>1, <2>2, RecorderAssumption DEF StartOpen, TypeOK, aVars, wVars
<1>2. HandoverInv'
  BY DEF StartOpen, HandoverInv, Spawning, Finishing, wVars
<1>3. WriteInv'
  BY RecorderAssumption
     DEF StartOpen, TypeOK, WriteInv, HandoverInv, FrameAlwaysFits, aVars, wVars
<1>4. BatchInv'
  BY RecorderAssumption DEF StartOpen, TypeOK, BatchInv, HandoverInv, wVars
<1>5. FileInv'
  <2>1. /\ wPc' = "none" /\ cPc' # "spawn"
        /\ cPc' = "launch" => file' = NewFile /\ written' = 0
    BY DEF StartOpen, HandoverInv, wVars
  <2> QED
    BY <2>1 DEF FileInv, NewFile
<1>6. OwnInv'
  <2> SUFFICES ASSUME ~straddled'
               PROVE  OwnInv'
    BY DEF OwnInv
  <2>1. ~straddled /\ wPc = "none" /\ ~active /\ cPc \notin Spawning
    BY DEF StartOpen, HandoverInv, Spawning
  <2>2. queue = <<>> /\ scratch = <<>> /\ aPc = "idle"
    BY <2>1 DEF OwnInv, BatchInv
  <2>3. queue' = <<>> /\ scratch' = <<>> /\ aPc' = "idle" /\ file'.own
    BY <2>2 DEF StartOpen, aVars, wVars, NewFile
  <2> QED
    BY <2>3 DEF OwnInv
<1>7. PhaseInv'
  <2> SUFFICES ASSUME OneWidth'
               PROVE  PhaseInv'
    BY DEF PhaseInv
  <2>1. /\ OneWidth /\ wPc = "none" /\ ~active /\ scratch = <<>>
        /\ cPc \notin Spawning
    BY DEF StartOpen, OneWidth, HandoverInv, BatchInv, Spawning
  <2>2. channels' = cNext /\ channels' # 0 /\ channels' \in ChannelCounts
        /\ file'.aligned
    BY DEF StartOpen, HandoverInv, NewFile, TypeOK
  <2>3. CASE channels = channels'
    BY <2>1, <2>2, <2>3, RecorderAssumption
       DEF StartOpen, PhaseInv, ChannelAt, TypeOK, aVars, wVars
  <2>4. CASE channels # channels'
    <3>1. queue = <<>> /\ aPc = "idle"
      <4>1. CASE channels = 0
        BY <2>1, <4>1 DEF PhaseInv
      <4>2. CASE channels # 0
        <5>1. ~straddled
          BY <2>2, <2>4, <4>2 DEF StartOpen, OneWidth, TypeOK
        <5> QED
          BY <2>1, <5>1 DEF OwnInv
      <4> QED
        BY <4>1, <4>2
    <3>2. queue' = <<>> /\ aPc' = "idle" /\ scratch' = <<>>
      BY <2>1, <3>1 DEF StartOpen, aVars, wVars
    <3>3. (Len(scratch') + Len(queue')) % channels' = 0
      <4>1. channels' \in Nat \ {0} /\ Len(scratch') + Len(queue') = 0
        BY <2>2, <3>2, RecorderAssumption
      <4> QED
        BY <4>1, Remainder
    <3> QED
      BY <2>2, <3>2, <3>3 DEF PhaseInv
  <2> QED
    BY <2>3, <2>4
<1> QED
  BY <1>1, <1>2, <1>3, <1>4, <1>5, <1>6, <1>7

\* write() is let in, and finds the format of an empty file.
LEMMA StartLaunchStep ==
  ASSUME RecorderInv, StartLaunch
  PROVE  RecorderInv'
<1> USE DEF RecorderInv
<1>1. TypeOK'
  BY ZenonT(30) DEF StartLaunch, TypeOK, aVars, wVars
<1>2. HandoverInv'
  BY DEF StartLaunch, HandoverInv, Spawning, Finishing, wVars
<1>3. WriteInv'
  BY DEF StartLaunch, WriteInv, FrameAlwaysFits, aVars, wVars
<1>4. BatchInv'
  BY DEF StartLaunch, BatchInv, wVars
<1>5. FileInv'
  BY DEF StartLaunch, FileInv, HandoverInv, wVars
<1>6. OwnInv'
  BY DEF StartLaunch, OwnInv, HandoverInv, Spawning, Finishing, aVars, wVars
<1>7. PhaseInv'
  BY DEF StartLaunch, PhaseInv, OneWidth, ChannelAt, aVars, wVars
<1> QED
  BY <1>1, <1>2, <1>3, <1>4, <1>5, <1>6, <1>7

\* The worker begins with an empty file, which it owns from here on.
LEMMA StartWorkerStep ==
  ASSUME RecorderInv, StartWorker
  PROVE  RecorderInv'
<1> USE DEF RecorderInv
<1>1. TypeOK'
  BY DEF StartWorker, TypeOK, shared, aVars
<1>2. HandoverInv'
  BY DEF StartWorker, HandoverInv, Spawning, Finishing, shared
<1>3. WriteInv'
  BY DEF StartWorker, WriteInv, FrameAlwaysFits, shared, aVars
<1>4. BatchInv'
  BY RecorderAssumption
     DEF StartWorker, TypeOK, BatchInv, HandoverInv, Spawning, shared
<1>5. FileInv'
  <2>1. wPc = "none" /\ file.size = 0 /\ file.open /\ written = 0 /\ channels \in Nat
    BY RecorderAssumption DEF StartWorker, HandoverInv, Spawning, FileInv, TypeOK
  <2>2. Saturate(written * channels) = 0
    BY <2>1, RecorderAssumption DEF Saturate, Smaller
  <2> QED
    BY <2>1, <2>2 DEF StartWorker, FileInv, Saturate, Smaller, shared
<1>6. OwnInv'
  BY DEF StartWorker, OwnInv, Spawning, Finishing, shared, aVars
<1>7. PhaseInv'
  BY DEF StartWorker, PhaseInv, OneWidth, ChannelAt, shared, aVars
<1> QED
  BY <1>1, <1>2, <1>3, <1>4, <1>5, <1>6, <1>7

\* The process ends as it is.
LEMMA StartThrowsStep ==
  ASSUME RecorderInv, StartThrows
  PROVE  RecorderInv'
<1> USE DEF RecorderInv
<1>1. TypeOK'
  BY DEF StartThrows, TypeOK, shared, aVars, wVars
<1>2. HandoverInv'
  BY DEF StartThrows, HandoverInv, Spawning, Finishing, shared, wVars
<1>3. WriteInv'
  BY DEF StartThrows, WriteInv, FrameAlwaysFits, shared, aVars, wVars
<1>4. BatchInv'
  BY DEF StartThrows, BatchInv, shared, wVars
<1>5. FileInv'
  BY DEF StartThrows, FileInv, shared, wVars
<1>6. OwnInv'
  BY DEF StartThrows, OwnInv, Spawning, Finishing, shared, aVars, wVars
<1>7. PhaseInv'
  BY DEF StartThrows, PhaseInv, OneWidth, ChannelAt, shared, aVars, wVars
<1> QED
  BY <1>1, <1>2, <1>3, <1>4, <1>5, <1>6, <1>7

\* A write() begins while a recording is on.
LEMMA WriteEnterStep ==
  ASSUME RecorderInv, NEW frames \in 1 .. MaxBlock, WriteEnter(frames)
  PROVE  RecorderInv'
<1> USE DEF RecorderInv
<1>1. TypeOK'
  BY DEF WriteEnter, TypeOK, shared, cVars, wVars
<1>2. HandoverInv'
  BY DEF WriteEnter, HandoverInv, Spawning, Finishing, shared, cVars, wVars
<1>3. WriteInv'
  BY DEF WriteEnter, WriteInv, FrameAlwaysFits, shared, cVars, wVars
<1>4. BatchInv'
  BY DEF WriteEnter, BatchInv, shared, wVars
<1>5. FileInv'
  BY DEF WriteEnter, FileInv, shared, cVars, wVars
<1>6. OwnInv'
  BY DEF WriteEnter, OwnInv, Spawning, Finishing, shared, cVars, wVars
<1>7. PhaseInv'
  BY DEF WriteEnter, PhaseInv, OneWidth, ChannelAt, HandoverInv, WriteInv, shared,
         cVars, wVars
<1> QED
  BY <1>1, <1>2, <1>3, <1>4, <1>5, <1>6, <1>7

\* It takes the channel count of its recording.
LEMMA WriteFormatStep ==
  ASSUME RecorderInv, WriteFormat
  PROVE  RecorderInv'
<1> USE DEF RecorderInv
<1>1. TypeOK'
  BY DEF WriteFormat, TypeOK, shared, cVars, wVars
<1>2. HandoverInv'
  BY DEF WriteFormat, HandoverInv, Spawning, Finishing, shared, cVars, wVars
<1>3. WriteInv'
  BY DEF WriteFormat, WriteInv, FrameAlwaysFits, shared, cVars, wVars
<1>4. BatchInv'
  BY DEF WriteFormat, BatchInv, shared, wVars
<1>5. FileInv'
  BY DEF WriteFormat, FileInv, shared, cVars, wVars
<1>6. OwnInv'
  BY DEF WriteFormat, OwnInv, Spawning, Finishing, shared, cVars, wVars
<1>7. PhaseInv'
  BY DEF WriteFormat, PhaseInv, OneWidth, ChannelAt, shared, cVars, wVars
<1> QED
  BY <1>1, <1>2, <1>3, <1>4, <1>5, <1>6, <1>7

\* Room for a whole frame is room for each of its samples.
LEMMA WriteFrameStep ==
  ASSUME RecorderInv, WriteFrame
  PROVE  RecorderInv'
<1> USE DEF RecorderInv
<1>1. TypeOK'
  <2>1. aDropped' \in 0 .. MaxCount
    <3>1. aDropped + 1 \in Nat
      BY DEF TypeOK
    <3> QED
      BY <3>1, Saturates DEF WriteFrame, TypeOK
  <2>2. aLeft' \in 0 .. MaxBlock /\ aCh' \in 1 .. Capacity
    BY RecorderAssumption DEF WriteFrame, TypeOK
  <2> QED
    BY <2>1, <2>2 DEF WriteFrame, TypeOK, shared, cVars, wVars
<1>2. HandoverInv'
  BY DEF WriteFrame, HandoverInv, Spawning, Finishing, shared, cVars, wVars
<1>3. WriteInv'
  BY RecorderAssumption
     DEF WriteFrame, TypeOK, WriteInv, HandoverInv, FrameAlwaysFits, FrameFits,
         Smaller, Saturate, shared, cVars, wVars
<1>4. BatchInv'
  BY DEF WriteFrame, BatchInv, shared, wVars
<1>5. FileInv'
  BY DEF WriteFrame, FileInv, shared, cVars, wVars
<1>6. OwnInv'
  BY DEF WriteFrame, OwnInv, Spawning, Finishing, shared, cVars, wVars
<1>7. PhaseInv'
  BY DEF WriteFrame, PhaseInv, OneWidth, ChannelAt, shared, cVars, wVars
<1> QED
  BY <1>1, <1>2, <1>3, <1>4, <1>5, <1>6, <1>7

\* Each push is in its channel and takes the room that was found.
LEMMA WritePushStep ==
  ASSUME RecorderInv, WritePush
  PROVE  RecorderInv'
<1> USE DEF RecorderInv
<1>1. TypeOK'
  <2>1. queue' \in Seq(Sample) /\ Len(queue') <= Capacity
    <3>1. [start |-> aStart, ch |-> aCh] \in Sample
      BY DEF TypeOK, Sample
    <3> QED
      BY <3>1, RecorderAssumption DEF WritePush, TypeOK
  <2>2. aLeft' \in 0 .. MaxBlock
    BY RecorderAssumption DEF WritePush, TypeOK, WriteInv
  <2>3. aCh' \in 1 .. Capacity
    BY RecorderAssumption DEF WritePush, TypeOK, WriteInv
  <2> QED
    BY <2>1, <2>2, <2>3 DEF WritePush, TypeOK, shared, cVars, wVars
<1>2. HandoverInv'
  BY DEF WritePush, HandoverInv, Spawning, Finishing, shared, cVars, wVars
<1>3. WriteInv'
  <2>1. FrameAlwaysFits'
    <3> SUFFICES ASSUME aPc' = "push"
                 PROVE  Len(queue') + (aChannels' - aCh' + 1) <= Capacity
      BY DEF FrameAlwaysFits
    <3>1. aCh' = aCh + 1 /\ aChannels' = aChannels /\ aCh <= aChannels
      BY DEF WritePush, WriteInv
    <3>2. Len(queue') \in {Len(queue), Len(queue) + 1}
      <4>1. queue \in Seq(Sample)
        BY DEF TypeOK
      <4>2. queue' \in {queue, Append(queue, [start |-> aStart, ch |-> aCh])}
        BY DEF WritePush
      <4> QED
        BY <4>1, <4>2
    <3>3. Len(queue) + (aChannels - aCh + 1) <= Capacity
      BY DEF WritePush, WriteInv, FrameAlwaysFits
    <3>4. Len(queue) \in Nat /\ aChannels \in Nat /\ aCh \in Nat
          /\ Capacity \in Nat
      BY Amounts
    <3> QED
      BY <3>1, <3>2, <3>3, <3>4
  <2>2. aPc' = "push" => aLeft' > 0 /\ aCh' <= aChannels'
    BY Amounts DEF WritePush, WriteInv
  <2> QED
    BY <2>1, <2>2 DEF WritePush, WriteInv, shared, cVars, wVars
<1>4. BatchInv'
  BY RecorderAssumption
     DEF WritePush, TypeOK, BatchInv, HandoverInv, shared, cVars, wVars
<1>5. FileInv'
  BY DEF WritePush, FileInv, shared, cVars, wVars
<1>6. OwnInv'
  BY RecorderAssumption
     DEF WritePush, TypeOK, OwnInv, HandoverInv, Spawning, Finishing, shared, cVars,
         wVars
<1>7. PhaseInv'
  <2> SUFFICES ASSUME OneWidth'
               PROVE  PhaseInv'
    BY DEF PhaseInv
  <2> DEFINE c == channels
             place == Len(scratch) + Len(queue)
  <2>1. OneWidth /\ c \in Nat \ {0} /\ aChannels = c /\ aCh = ChannelAt(place)
        /\ place \in Nat /\ scratch' = scratch /\ channels' = c
    <3>1. OneWidth /\ PhaseInv /\ scratch' = scratch /\ channels' = c /\ aPc = "push"
      BY DEF WritePush, OneWidth, shared, cVars, wVars
    <3>2. c \in Nat \ {0} /\ place \in Nat
      BY <3>1, RecorderAssumption DEF WriteInv, TypeOK
    <3> QED
      BY <3>1, <3>2 DEF PhaseInv
  <2>2. queue' = Append(queue, [start |-> aStart, ch |-> aCh])
        /\ Len(queue') = Len(queue) + 1
    BY RecorderAssumption DEF WritePush, WriteInv, FrameAlwaysFits, TypeOK
  <2>3. \A i \in 1 .. Len(queue') :
           queue'[i].ch = ChannelAt(Len(scratch) + i - 1)'
    <3> SUFFICES ASSUME NEW i \in 1 .. Len(queue')
                 PROVE  queue'[i].ch = ChannelAt(Len(scratch) + i - 1)'
      OBVIOUS
    <3>1. CASE i \in 1 .. Len(queue)
      <4>1. queue'[i] = queue[i]
        BY <2>2, <3>1 DEF TypeOK
      <4> QED
        BY <2>1, <3>1, <4>1 DEF PhaseInv, ChannelAt
    <3>2. CASE i \notin 1 .. Len(queue)
      <4>1. i = Len(queue) + 1 /\ queue'[i].ch = aCh
        BY <2>2, <3>2 DEF TypeOK
      <4>2. Len(scratch') + i - 1 = place
        BY <2>1, <4>1 DEF TypeOK
      <4> QED
        BY <2>1, <4>1, <4>2 DEF ChannelAt
    <3> QED
      BY <3>1, <3>2
  <2>4. /\ aPc' = "push" => aCh' = ChannelAt(Len(scratch) + Len(queue))'
        /\ aPc' # "push" => (Len(scratch') + Len(queue')) % c = 0
    <3>1. Len(scratch') + Len(queue') = place + 1
      BY <2>1, <2>2 DEF TypeOK
    <3>2. place % c \in 0 .. c - 1
          /\ (place + 1) % c = IF place % c = c - 1 THEN 0 ELSE (place % c) + 1
      BY <2>1, Quotient, NextRemainder
    <3>3. aCh = (place % c) + 1
      BY <2>1 DEF ChannelAt
    <3>4. CASE aCh < aChannels
      <4>1. aCh' = aCh + 1 /\ aPc' = "push" /\ channels' = c
        BY <2>1, <3>4 DEF WritePush
      <4>2. (place + 1) % c = (place % c) + 1
        BY <2>1, <3>2, <3>3, <3>4
      <4> QED
        BY <3>1, <3>3, <4>1, <4>2 DEF ChannelAt
    <3>5. CASE ~(aCh < aChannels)
      <4>1. aPc' = "frame"
        BY <3>5 DEF WritePush
      <4>2. (place + 1) % c = 0
        BY <2>1, <3>2, <3>3, <3>5
      <4> QED
        BY <3>1, <4>1, <4>2
    <3> QED
      BY <3>4, <3>5
  <2> QED
    BY <2>1, <2>3, <2>4
       DEF WritePush, PhaseInv, ChannelAt, shared, cVars, wVars
<1> QED
  BY <1>1, <1>2, <1>3, <1>4, <1>5, <1>6, <1>7

\* A write() ends between two frames.
LEMMA WriteReturnStep ==
  ASSUME RecorderInv, WriteReturn
  PROVE  RecorderInv'
<1> USE DEF RecorderInv
<1>1. TypeOK'
  <2>1. dropped + aDropped \in Nat /\ 0 \in 0 .. MaxCount
    BY RecorderAssumption DEF TypeOK
  <2>2. Saturate(dropped + aDropped) \in 0 .. MaxCount
    BY <2>1, Saturates
  <2> QED
    BY <2>1, <2>2 DEF WriteReturn, TypeOK, shared, cVars, wVars
<1>2. HandoverInv'
  BY DEF WriteReturn, HandoverInv, Spawning, Finishing, shared, cVars, wVars
<1>3. WriteInv'
  BY DEF WriteReturn, WriteInv, FrameAlwaysFits, shared, cVars, wVars
<1>4. BatchInv'
  BY DEF WriteReturn, BatchInv, shared, wVars
<1>5. FileInv'
  BY DEF WriteReturn, FileInv, shared, cVars, wVars
<1>6. OwnInv'
  BY DEF WriteReturn, OwnInv, Spawning, Finishing, shared, cVars, wVars
<1>7. PhaseInv'
  BY DEF WriteReturn, PhaseInv, OneWidth, ChannelAt, shared, cVars, wVars
<1> QED
  BY <1>1, <1>2, <1>3, <1>4, <1>5, <1>6, <1>7

\* The worker is told to finish only by a stop().
LEMMA WorkerCheckStep ==
  ASSUME RecorderInv, WorkerCheck
  PROVE  RecorderInv'
<1> USE DEF RecorderInv
<1>1. TypeOK'
  BY DEF WorkerCheck, TypeOK, shared, cVars, aVars
<1>2. HandoverInv'
  BY DEF WorkerCheck, HandoverInv, Spawning, Finishing, shared, cVars
<1>3. WriteInv'
  BY DEF WorkerCheck, WriteInv, FrameAlwaysFits, shared, cVars, aVars
<1>4. BatchInv'
  BY DEF WorkerCheck, BatchInv, shared
<1>5. FileInv'
  BY DEF WorkerCheck, FileInv, shared, cVars
<1>6. OwnInv'
  BY DEF WorkerCheck, OwnInv, Spawning, Finishing, shared, cVars, aVars
<1>7. PhaseInv'
  BY DEF WorkerCheck, PhaseInv, OneWidth, ChannelAt, shared, cVars, aVars
<1> QED
  BY <1>1, <1>2, <1>3, <1>4, <1>5, <1>6, <1>7

\* Waking up changes nothing.
LEMMA WorkerWakeStep ==
  ASSUME RecorderInv, WorkerWake
  PROVE  RecorderInv'
<1> USE DEF RecorderInv
<1>1. TypeOK'
  BY DEF WorkerWake, TypeOK, shared, cVars, aVars
<1>2. HandoverInv'
  BY DEF WorkerWake, HandoverInv, Spawning, Finishing, shared, cVars
<1>3. WriteInv'
  BY DEF WorkerWake, WriteInv, FrameAlwaysFits, shared, cVars, aVars
<1>4. BatchInv'
  BY DEF WorkerWake, BatchInv, shared
<1>5. FileInv'
  BY DEF WorkerWake, FileInv, shared, cVars
<1>6. OwnInv'
  BY DEF WorkerWake, OwnInv, Spawning, Finishing, shared, cVars, aVars
<1>7. PhaseInv'
  BY DEF WorkerWake, PhaseInv, OneWidth, ChannelAt, shared, cVars, aVars
<1> QED
  BY <1>1, <1>2, <1>3, <1>4, <1>5, <1>6, <1>7

\* A batch is whole frames; without one, a ring that nobody writes to is empty.
LEMMA PumpBeginStep ==
  ASSUME RecorderInv, PumpBegin
  PROVE  RecorderInv'
<1> USE DEF RecorderInv
<1>1. TypeOK'
  <2>1. wLeft' \in 0 .. Capacity
    BY BatchFits, RecorderAssumption DEF PumpBegin, TypeOK, WriteInv
  <2> QED
    BY <2>1 DEF PumpBegin, TypeOK, shared, cVars, aVars
<1>2. HandoverInv'
  BY DEF PumpBegin, HandoverInv, Spawning, Finishing, shared, cVars
<1>3. WriteInv'
  BY DEF PumpBegin, WriteInv, FrameAlwaysFits, shared, cVars, aVars
<1>4. BatchInv'
  <2>1. CASE Len(queue) >= channels
    <3>1. wLeft' = Batch /\ wPc' = "pop" /\ queue' = queue /\ scratch' = scratch
          /\ channels' = channels /\ scratch = <<>>
      BY <2>1 DEF PumpBegin, BatchInv, shared
    <3>2. Batch \in Nat /\ Batch <= Len(queue) /\ Batch % channels = 0
      BY BatchFits DEF PumpBegin, WriteInv
    <3>3. Len(scratch') + wLeft' = Batch
      BY <3>1, <3>2
    <3> QED
      BY <3>1, <3>2, <3>3 DEF BatchInv
  <2>2. CASE ~(Len(queue) >= channels)
    BY <2>2 DEF PumpBegin, BatchInv
  <2> QED
    BY <2>1, <2>2
<1>5. FileInv'
  BY DEF PumpBegin, FileInv, shared, cVars
<1>6. OwnInv'
  <2> SUFFICES ASSUME ~straddled'
               PROVE  OwnInv'
    BY DEF OwnInv
  <2>1. ~straddled /\ queue' = queue /\ scratch' = scratch
    BY DEF PumpBegin, cVars
  <2>2. ASSUME wPc' \in Finishing
        PROVE  queue = <<>>
    <3>1. wDraining /\ Len(queue) < channels
      BY <2>2, RecorderAssumption DEF PumpBegin, TypeOK, Finishing
    <3>2. ~active /\ aPc = "idle"
      BY <2>1, <3>1 DEF PumpBegin, HandoverInv, OwnInv
    <3>3. channels \in Nat \ {0} /\ (Len(scratch) + Len(queue)) % channels = 0
          /\ Len(scratch) = 0
      BY <2>1, <3>2, RecorderAssumption
         DEF PumpBegin, PhaseInv, OneWidth, WriteInv, BatchInv, TypeOK
    <3>4. Len(queue) \in 0 .. channels - 1
      BY <3>1, <3>3 DEF TypeOK
    <3>5. (0 * channels + Len(queue)) % channels = Len(queue)
      BY <3>3, <3>4, Remainder
    <3>6. Len(queue) = 0
      BY <3>3, <3>4, <3>5
    <3> QED
      BY <3>6 DEF TypeOK
  <2> QED
    BY <2>1, <2>2 DEF PumpBegin, OwnInv, shared, cVars, aVars
<1>7. PhaseInv'
  BY DEF PumpBegin, PhaseInv, OneWidth, ChannelAt, shared, cVars, aVars
<1> QED
  BY <1>1, <1>2, <1>3, <1>4, <1>5, <1>6, <1>7

\* A pop moves the boundary between batch and ring, and not the frames.
LEMMA PumpPopStep ==
  ASSUME RecorderInv, PumpPop
  PROVE  RecorderInv'
<1> USE DEF RecorderInv
<1>1. TypeOK'
  <2>1. queue # <<>>
    BY DEF PumpPop, TypeOK, BatchInv
  <2>2. Head(queue) \in Sample /\ Tail(queue) \in Seq(Sample)
        /\ Len(Tail(queue)) = Len(queue) - 1
    BY <2>1 DEF TypeOK
  <2>3. scratch' \in Seq(Sample) /\ queue' \in Seq(Sample) /\ Len(queue') <= Capacity
    BY <2>2, RecorderAssumption DEF PumpPop, TypeOK
  <2>4. wLeft' \in 0 .. Capacity
    BY RecorderAssumption DEF PumpPop, TypeOK
  <2> QED
    BY <2>3, <2>4 DEF PumpPop, TypeOK, shared, cVars, aVars
<1>2. HandoverInv'
  BY DEF PumpPop, HandoverInv, Spawning, Finishing, shared, cVars
<1>3. WriteInv'
  <2>1. queue # <<>>
    BY DEF PumpPop, TypeOK, BatchInv
  <2>2. Len(queue') = Len(queue) - 1
    BY <2>1 DEF PumpPop, TypeOK
  <2> QED
    <3>1. FrameAlwaysFits'
      <4>1. Len(queue) \in Nat /\ aChannels \in Nat /\ aCh \in Nat
            /\ Capacity \in Nat
        BY RecorderAssumption DEF TypeOK
      <4>2. aPc' = aPc /\ aChannels' = aChannels /\ aCh' = aCh
        BY DEF PumpPop, aVars
      <4>3. aPc = "push" => Len(queue) + (aChannels - aCh + 1) <= Capacity
        BY DEF WriteInv, FrameAlwaysFits
      <4> QED
        BY <2>2, <4>1, <4>2, <4>3 DEF FrameAlwaysFits
    <3> QED
      BY <3>1 DEF PumpPop, WriteInv, shared, cVars, aVars
<1>4. BatchInv'
  BY RecorderAssumption
     DEF PumpPop, TypeOK, BatchInv, HandoverInv, shared, cVars
<1>5. FileInv'
  BY DEF PumpPop, FileInv, shared, cVars
<1>6. OwnInv'
  <2> SUFFICES ASSUME ~straddled'
               PROVE  OwnInv'
    BY DEF OwnInv
  <2>1. ~straddled /\ OwnInv
    BY DEF PumpPop, cVars
  <2>2. \A i \in 1 .. Len(queue') : queue'[i].start = starts
    <3> SUFFICES ASSUME NEW i \in 1 .. Len(queue')
                 PROVE  queue'[i].start = starts
      OBVIOUS
    <3>1. i + 1 \in 1 .. Len(queue) /\ queue'[i] = queue[i + 1]
      BY PopMoves DEF TypeOK
    <3> QED
      BY <2>1, <3>1 DEF OwnInv
  <2>3. \A i \in 1 .. Len(scratch') : scratch'[i].start = starts
    <3> SUFFICES ASSUME NEW i \in 1 .. Len(scratch')
                 PROVE  scratch'[i].start = starts
      OBVIOUS
    <3>1. CASE i \in 1 .. Len(scratch)
      BY <2>1, <3>1, PopMoves DEF OwnInv
    <3>2. CASE i \notin 1 .. Len(scratch)
      <4>1. i = Len(scratch) + 1 /\ 1 \in 1 .. Len(queue)
        BY <3>2, PopMoves, Amounts
      <4> QED
        BY <2>1, <4>1, PopMoves DEF OwnInv
    <3> QED
      BY <3>1, <3>2
  <2> QED
    BY <2>1, <2>2, <2>3
       DEF PumpPop, OwnInv, Spawning, Finishing, shared, cVars, aVars
<1>7. PhaseInv'
  <2> SUFFICES ASSUME OneWidth'
               PROVE  PhaseInv'
    BY DEF PhaseInv
  <2>1. OneWidth /\ PhaseInv /\ channels # 0 /\ channels' = channels
    BY DEF PumpPop, OneWidth, WriteInv, shared, cVars
  <2>2. \A i \in 1 .. Len(queue') :
           queue'[i].ch = ChannelAt(Len(scratch) + i - 1)'
    <3> SUFFICES ASSUME NEW i \in 1 .. Len(queue')
                 PROVE  queue'[i].ch = ChannelAt(Len(scratch) + i - 1)'
      OBVIOUS
    <3>1. i + 1 \in 1 .. Len(queue) /\ queue'[i] = queue[i + 1]
          /\ Len(scratch') = Len(scratch) + 1
      <4>1. Len(queue') = Len(queue) - 1 /\ Len(queue) \in Nat
        BY PopMoves DEF TypeOK
      <4> QED
        BY <4>1, PopMoves
    <3>2. queue[i + 1].ch = ChannelAt(Len(scratch) + (i + 1) - 1)
      BY <2>1, <3>1 DEF PhaseInv
    <3>3. Len(scratch) + (i + 1) - 1 = Len(scratch') + i - 1
      BY <3>1, Amounts
    <3> QED
      BY <2>1, <3>1, <3>2, <3>3 DEF ChannelAt
  <2>3. \A i \in 1 .. Len(scratch') : scratch'[i].ch = ChannelAt(i - 1)'
    <3> SUFFICES ASSUME NEW i \in 1 .. Len(scratch')
                 PROVE  scratch'[i].ch = ChannelAt(i - 1)'
      OBVIOUS
    <3>1. CASE i \in 1 .. Len(scratch)
      BY <2>1, <3>1, PopMoves DEF PhaseInv, ChannelAt
    <3>2. CASE i \notin 1 .. Len(scratch)
      <4>1. i = Len(scratch) + 1 /\ 1 \in 1 .. Len(queue)
            /\ scratch'[Len(scratch) + 1] = queue[1]
        BY <3>2, PopMoves, Amounts
      <4>2. queue[1].ch = ChannelAt(Len(scratch) + 1 - 1)
        BY <2>1, <4>1 DEF PhaseInv
      <4> QED
        BY <2>1, <4>1, <4>2 DEF ChannelAt
    <3> QED
      BY <3>1, <3>2
  <2>4. Len(scratch') + Len(queue') = Len(scratch) + Len(queue)
    <3>1. Len(queue) \in Nat /\ Len(scratch) \in Nat
      BY DEF TypeOK
    <3>2. Len(queue') = Len(queue) - 1 /\ Len(scratch') = Len(scratch) + 1
      BY PopMoves
    <3> QED
      BY <3>1, <3>2
  <2> QED
    BY <2>1, <2>2, <2>3, <2>4
       DEF PumpPop, PhaseInv, ChannelAt, shared, cVars, aVars
<1> QED
  BY <1>1, <1>2, <1>3, <1>4, <1>5, <1>6, <1>7

\* Whole frames leave, so that the ring begins with a frame again.
LEMMA PumpWriteStep ==
  ASSUME RecorderInv, PumpWrite
  PROVE  RecorderInv'
<1> USE DEF RecorderInv
<1>1. TypeOK'
  <2>1. Len(scratch) \in Nat /\ channels \in Nat \ {0}
    BY Amounts DEF PumpWrite, WriteInv
  <2>2. written' \in 0 .. MaxCount
    <3>1. Len(scratch) \div channels \in Nat /\ written \in Nat
      <4>1. written \in Nat
        BY DEF TypeOK
      <4>2. ASSUME NEW n \in Nat, NEW c \in Nat \ {0}
            PROVE  n \div c \in Nat
        BY SMTT(30)
      <4> QED
        BY <2>1, <4>1, <4>2
    <3>2. written + Len(scratch) \div channels \in Nat
      BY <3>1
    <3> QED
      BY <3>2, Saturates DEF PumpWrite
  <2>3. file' \in File
    <3>1. file.size + Len(scratch) \in Nat
      <4>1. file.size \in Nat
        BY DEF TypeOK, File
      <4> QED
        BY <2>1, <4>1
    <3>2. Saturate(file.size + Len(scratch)) \in 0 .. MaxCount
      BY <3>1, Saturates
    <3> QED
      BY <3>2 DEF PumpWrite, TypeOK, File
  <2> QED
    BY <2>2, <2>3 DEF PumpWrite, TypeOK, shared, cVars, aVars
<1>2. HandoverInv'
  BY DEF PumpWrite, HandoverInv, Spawning, Finishing, shared, cVars
<1>3. WriteInv'
  BY DEF PumpWrite, WriteInv, FrameAlwaysFits, shared, cVars, aVars
<1>4. BatchInv'
  BY DEF PumpWrite, BatchInv, shared
<1>5. FileInv'
  <2>1. channels \in Nat \ {0} /\ Len(scratch) \in Nat /\ Len(scratch) % channels = 0
        /\ written \in 0 .. MaxCount /\ file.size = Saturate(written * channels)
    <3>1. /\ channels \in Nat \ {0} /\ Len(scratch) \in Nat
          /\ written \in 0 .. MaxCount
      <4>1. wPc = "pop"
        BY DEF PumpWrite
      <4> QED
        BY <4>1, Amounts DEF WriteInv, TypeOK
    <3>2. Len(scratch) % channels = 0
      <4>1. wLeft = 0 /\ (Len(scratch) + wLeft) % channels = 0
        BY DEF PumpWrite, BatchInv
      <4>2. Len(scratch) + wLeft = Len(scratch)
        BY <3>1, <4>1
      <4> QED
        BY <4>1, <4>2
    <3>3. file.size = Saturate(written * channels)
      BY DEF PumpWrite, FileInv
    <3> QED
      BY <3>1, <3>2, <3>3
  <2>2. Saturate(Saturate(written * channels) + Len(scratch))
          = Saturate(Saturate(written + Len(scratch) \div channels) * channels)
    BY <2>1, SaturatedFrames
  <2>3. file'.size = Saturate(file.size + Len(scratch)) /\ file'.open = file.open
        /\ written' = Saturate(written + Len(scratch) \div channels)
        /\ channels' = channels /\ wPc' = "pump" /\ cPc' = cPc
    BY DEF PumpWrite, TypeOK, File, shared, cVars
  <2>4. file'.size = Saturate(written' * channels')
    BY <2>1, <2>2, <2>3
  <2>5. file.open /\ cPc \notin {"launch", "spawn"}
    BY DEF PumpWrite, FileInv, HandoverInv, Spawning
  <2> QED
    BY <2>3, <2>4, <2>5 DEF FileInv, Saturate, Smaller
<1>6. OwnInv'
  <2> SUFFICES ASSUME ~straddled'
               PROVE  OwnInv'
    BY DEF OwnInv
  <2>1. ~straddled /\ scratch' = <<>>
    BY DEF PumpWrite, cVars
  <2>2. file'.own
    <3>1. file.own /\ \A i \in DOMAIN scratch : scratch[i].start = starts
      BY <2>1 DEF OwnInv, TypeOK
    <3>2. file'.own = (file.own /\ \A i \in DOMAIN scratch :
                                       scratch[i].start = starts)
      BY DEF PumpWrite, TypeOK, File
    <3> QED
      BY <3>1, <3>2
  <2> QED
    BY <2>1, <2>2 DEF PumpWrite, OwnInv, Spawning, Finishing, shared, cVars, aVars
<1>7. PhaseInv'
  <2> SUFFICES ASSUME OneWidth'
               PROVE  PhaseInv'
    BY DEF PhaseInv
  <2> DEFINE c == channels
             b == Len(scratch)
  <2>1. OneWidth /\ PhaseInv /\ c \in Nat \ {0} /\ b \in Nat /\ b % c = 0
        /\ channels' = c /\ queue' = queue /\ scratch' = <<>>
    <3>1. wPc = "pop" /\ wLeft = 0 /\ channels' = c /\ queue' = queue
          /\ scratch' = <<>> /\ OneWidth
      BY DEF PumpWrite, OneWidth, shared, cVars
    <3>2. c \in Nat \ {0} /\ b \in Nat /\ (b + wLeft) % c = 0
      BY <3>1, Amounts DEF WriteInv, BatchInv
    <3>3. b + wLeft = b
      BY <3>1, <3>2
    <3> QED
      BY <3>1, <3>2, <3>3
  <2>2. ASSUME NEW n \in Nat
        PROVE  (b + n) % c = n % c
    <3>1. PICK q \in Nat : b = q * c + 0
      BY <2>1, Quotient
    <3>2. b + n = n + q * c /\ (n + q * c) % c = n % c
      <4>1. q * c \in Nat
        BY <2>1
      <4>2. (n + q * c) % c = n % c
        BY <2>1, FramesKeepRemainder
      <4> QED
        BY <3>1, <4>1, <4>2
    <3> QED
      BY <3>2
  <2>3. \A i \in 1 .. Len(queue') :
           queue'[i].ch = ChannelAt(Len(scratch) + i - 1)'
    <3> SUFFICES ASSUME NEW i \in 1 .. Len(queue)
                 PROVE  queue[i].ch = ((i - 1) % c) + 1
      BY <2>1 DEF ChannelAt
    <3>1. i - 1 \in Nat /\ b + i - 1 = b + (i - 1)
      BY <2>1 DEF TypeOK
    <3>2. queue[i].ch = ((b + i - 1) % c) + 1
      BY <2>1 DEF PhaseInv, ChannelAt
    <3> QED
      BY <2>2, <3>1, <3>2
  <2>4. Len(queue) \in Nat /\ (b + Len(queue)) % c = Len(queue) % c
        /\ Len(scratch') + Len(queue') = Len(queue)
    <3>1. Len(queue) \in Nat
      BY DEF TypeOK
    <3> QED
      BY <2>1, <2>2, <3>1
  <2>5. file'.aligned
    <3>1. DOMAIN scratch = 1 .. Len(scratch) /\ file.aligned
      BY <2>1 DEF PhaseInv, TypeOK
    <3>2. \A i \in DOMAIN scratch : scratch[i].ch = ((i - 1) % channels) + 1
      BY <2>1, <3>1 DEF PhaseInv, ChannelAt
    <3>3. file'.aligned = (file.aligned /\ \A i \in DOMAIN scratch :
                             scratch[i].ch = ((i - 1) % channels) + 1)
      BY DEF PumpWrite, TypeOK, File
    <3> QED
      BY <3>1, <3>2, <3>3
  <2> QED
    BY <2>1, <2>3, <2>4, <2>5
       DEF PumpWrite, PhaseInv, ChannelAt, shared, cVars, aVars
<1> QED
  BY <1>1, <1>2, <1>3, <1>4, <1>5, <1>6, <1>7

\* The header gets the size of the file.
LEMMA FinalizeStep ==
  ASSUME RecorderInv, Finalize
  PROVE  RecorderInv'
<1> USE DEF RecorderInv
<1>1. TypeOK'
  <2>1. file' \in File
    <3>1. written * channels \in Nat
      BY RecorderAssumption DEF TypeOK
    <3>2. Saturate(written * channels) \in 0 .. MaxCount
      BY <3>1, Saturates
    <3> QED
      BY <3>2 DEF Finalize, TypeOK, File
  <2> QED
    BY <2>1 DEF Finalize, TypeOK, shared, cVars, aVars
<1>2. HandoverInv'
  BY DEF Finalize, HandoverInv, Spawning, Finishing, shared, cVars
<1>3. WriteInv'
  BY DEF Finalize, WriteInv, FrameAlwaysFits, shared, cVars, aVars
<1>4. BatchInv'
  BY DEF Finalize, BatchInv, shared
<1>5. FileInv'
  BY RecorderAssumption
     DEF Finalize, TypeOK, FileInv, HandoverInv, Spawning, Smaller, Saturate,
         shared, cVars
<1>6. OwnInv'
  BY DEF Finalize, OwnInv, Spawning, Finishing, shared, cVars, aVars
<1>7. PhaseInv'
  BY DEF Finalize, PhaseInv, OneWidth, ChannelAt, shared, cVars, aVars
<1> QED
  BY <1>1, <1>2, <1>3, <1>4, <1>5, <1>6, <1>7

-----------------------------------------------------------------------------
(* The theorems.                                                           *)

\* The invariant of the three threads holds in every reachable state.
THEOREM RecorderInvariant == Spec => []RecorderInv
<1>1. RecorderInv /\ UNCHANGED vars => RecorderInv'
  <2> SUFFICES ASSUME RecorderInv, UNCHANGED vars
               PROVE  RecorderInv'
    OBVIOUS
  <2> USE DEF vars, shared, cVars, aVars, wVars
  <2>1. TypeOK' /\ HandoverInv' /\ BatchInv'
    BY DEF RecorderInv, TypeOK, HandoverInv, BatchInv
  <2>2. WriteInv' /\ FileInv'
    BY DEF RecorderInv, WriteInv, FrameAlwaysFits, FileInv
  <2>3. OwnInv' /\ PhaseInv'
    BY DEF RecorderInv, OwnInv, PhaseInv, OneWidth, ChannelAt
  <2> QED
    BY <2>1, <2>2, <2>3 DEF RecorderInv
<1>2. RecorderInv /\ Control => RecorderInv'
  BY CallStep, StopSignalStep, StopJoinStep, StartOpenFailsStep, StartOpenStep,
     StartLaunchStep, StartWorkerStep, StartThrowsStep DEF Control
<1>3. RecorderInv /\ Audio => RecorderInv'
  BY WriteEnterStep, WriteFormatStep, WriteFrameStep, WritePushStep,
     WriteReturnStep DEF Audio, Write
<1>4. RecorderInv /\ Worker => RecorderInv'
  BY WorkerCheckStep, WorkerWakeStep, PumpBeginStep, PumpPopStep, PumpWriteStep,
     FinalizeStep DEF Worker
<1>5. RecorderInv /\ [Next]_vars => RecorderInv'
  BY <1>1, <1>2, <1>3, <1>4 DEF Next
<1> QED
  BY RecorderInit, <1>5, PTL DEF Spec

\* The room that write() found for a frame is still there at each of its
\* pushes, though push()'s result is never looked at: the worker only makes room.
THEOREM RecorderFrameFits == Spec => []FrameAlwaysFits
<1>1. RecorderInv => FrameAlwaysFits
  BY DEF RecorderInv, WriteInv
<1> QED
  BY <1>1, RecorderInvariant, PTL

\* The plain members shared by control and worker are never touched by both.
THEOREM RecorderFileOwner == Spec => []FileHasOneOwner
<1>1. RecorderInv => FileHasOneOwner
  BY DEF RecorderInv, HandoverInv, Spawning, Finishing, FileHasOneOwner
<1> QED
  BY <1>1, RecorderInvariant, PTL

\* A file's samples are in their channels and are its own, and its header is
\* true of them; only a write() that outlives its recording spoils the first two.
THEOREM RecorderFileFaithful == Spec => []FileIsFaithful
<1>1. ASSUME RecorderInv
      PROVE  FileAligned
  <2>1. CASE OneWidth
    BY <1>1, <2>1 DEF RecorderInv, PhaseInv, FileAligned
  <2>2. CASE ~OneWidth
    BY <2>2 DEF OneWidth, FileAligned
  <2> QED
    BY <2>1, <2>2
<1>2. ASSUME RecorderInv
      PROVE  HeaderMatchesFile
  <2>1. wPc \notin {"none", "exited"} => file.open
    BY <1>2 DEF RecorderInv, FileInv
  <2> QED
    BY <1>2, <2>1 DEF RecorderInv, FileInv, HeaderMatchesFile
<1>3. RecorderInv => FileHasOwnFrames
  BY DEF RecorderInv, OwnInv, FileHasOwnFrames
<1>4. RecorderInv => FileIsFaithful
  BY <1>1, <1>2, <1>3 DEF FileIsFaithful
<1> QED
  BY <1>4, RecorderInvariant, PTL
=============================================================================
