------------------------------ MODULE Recorder ------------------------------
(***************************************************************************)
(* Recorder (engine/src/recorder.cpp): three threads around one SPSC ring. *)
(*   control  calls start() and stop(), one call at a time;                *)
(*   audio    the playback callback, calls write() and never blocks;       *)
(*   worker   one thread per recording, drains the ring into the WAV file. *)
(*                                                                         *)
(* The ring is the queue of module Fifo with up-to-date views.  A sample   *)
(* is known by the recording during which it was captured and its channel. *)
(* The file is known by how many samples it holds and whether they are all *)
(* its own and all in their channel.  Counters saturate at MaxCount, so    *)
(* that the audio thread may write for ever.                               *)
(***************************************************************************)
EXTENDS Integers, Sequences

CONSTANTS Capacity,       \* kCapacity, in samples
          DrainFrames,    \* kDrainFrames
          ChannelCounts,  \* channel counts start() is called with
          MaxBlock,       \* largest frame count of a callback
          MaxStarts,      \* bound: calls of start() in a behaviour
          MaxCount        \* bound: value at which the counters saturate

ASSUME RecorderAssumption ==
  /\ Capacity \in Nat \ {0} /\ DrainFrames \in Nat \ {0}
  /\ ChannelCounts \subseteq 1 .. Capacity /\ ChannelCounts # {}
  /\ MaxBlock \in Nat \ {0} /\ MaxStarts \in Nat /\ MaxCount \in Nat

VARIABLES
  queue,          \* input_
  active,         \* active_: the audio thread may write
  running,        \* running_: what recording() reports
  channels,       \* channels_
  stopRequested,  \* stop_requested_
  written,        \* frames_written_
  dropped,        \* frames_dropped_
  file,           \* the file last opened: see File below
  cPc, cNext,     \* control: where it is; the channels of a start(), 0 in stop()
  starts,         \* number of recordings started
  straddled,      \* has a stop() met a write() that had passed its test?
  aPc, aLeft, aChannels, aCh, aDropped, aStart,  \* locals of write()
  wPc, wDraining, wLeft, scratch                 \* locals of the worker

cVars == <<cPc, cNext, starts, straddled>>
aVars == <<aPc, aLeft, aChannels, aCh, aDropped, aStart>>
wVars == <<wPc, wDraining, wLeft, scratch>>
shared == <<active, running, channels, stopRequested>>
vars == <<queue, shared, written, dropped, file, cVars, aVars, wVars>>

Sample == [start : 0 .. MaxStarts, ch : 1 .. Capacity]

\* size: samples in the data chunk; header: the size its header claims; own:
\* all captured since this file's start(); aligned: all in their channel.
File == [open : BOOLEAN, size : 0 .. MaxCount, header : 0 .. MaxCount,
         own : BOOLEAN, aligned : BOOLEAN]
NewFile == [open |-> TRUE, size |-> 0, header |-> 0,
            own |-> TRUE, aligned |-> TRUE]

Smaller(a, b) == IF a < b THEN a ELSE b
Saturate(n) == Smaller(n, MaxCount)

Init ==
  /\ queue = <<>>
  /\ active = FALSE /\ running = FALSE /\ channels = 0 /\ stopRequested = FALSE
  /\ written = 0 /\ dropped = 0
  /\ file = [NewFile EXCEPT !.open = FALSE]
  /\ cPc = "idle" /\ cNext = 0 /\ starts = 0 /\ straddled = FALSE
  /\ aPc = "idle" /\ aLeft = 0 /\ aChannels = 0 /\ aCh = 1 /\ aDropped = 0
  /\ aStart = 0
  /\ wPc = "none" /\ wDraining = FALSE /\ wLeft = 0 /\ scratch = <<>>

-----------------------------------------------------------------------------
(* The control thread.                                                     *)

\* Where control goes when the stop() part of the call is over.
AfterStop == IF cNext = 0 THEN "idle" ELSE "open"

\* stop(), or start(n) which begins with one.
Call(n) ==
  /\ cPc = "idle"
  /\ n # 0 => starts < MaxStarts
  /\ cPc' = "stop"
  /\ cNext' = n
  /\ UNCHANGED <<queue, shared, written, dropped, file, starts, straddled,
                 aVars, wVars>>

\* stop(), a signal that lets the audio thread go on writing.
StopSignal_StillActive ==
  /\ cPc = "stop"
  /\ straddled' = (straddled \/ aPc # "idle")
  /\ IF wPc = "none"
       THEN running' = FALSE /\ cPc' = AfterStop /\ UNCHANGED stopRequested
       ELSE stopRequested' = TRUE /\ cPc' = "join" /\ UNCHANGED running
  /\ UNCHANGED <<queue, active, channels, written, dropped, file, cNext,
                 starts, aVars, wVars>>

\* stop(), under the mutex.  A joinable worker is told to finish.
StopSignal ==
  /\ cPc = "stop"
  /\ active' = FALSE
  /\ straddled' = (straddled \/ aPc # "idle")
  /\ IF wPc = "none"
       THEN running' = FALSE /\ cPc' = AfterStop /\ UNCHANGED stopRequested
       ELSE stopRequested' = TRUE /\ cPc' = "join" /\ UNCHANGED running
  /\ UNCHANGED <<queue, channels, written, dropped, file, cNext, starts,
                 aVars, wVars>>

\* A stop() that does not wait for the worker.
StopJoin_Detach ==
  /\ cPc = "join"
  /\ running' = FALSE
  /\ cPc' = AfterStop
  /\ UNCHANGED <<queue, active, channels, stopRequested, written, dropped,
                 file, cNext, starts, straddled, aVars, wVars>>

\* stop(): worker_.join() has returned.
StopJoin ==
  /\ cPc = "join" /\ wPc = "exited"
  /\ wPc' = "none"
  /\ running' = FALSE
  /\ cPc' = AfterStop
  /\ UNCHANGED <<queue, active, channels, stopRequested, written, dropped,
                 file, cNext, starts, straddled, aVars, wDraining, wLeft,
                 scratch>>

\* start(): the file does not open.  Nothing else has changed.
StartOpenFails ==
  /\ cPc = "open"
  /\ cPc' = "idle"
  /\ UNCHANGED <<queue, shared, written, dropped, file, cNext, starts,
                 straddled, aVars, wVars>>

\* start(): format and counters set, the placeholder header written, or not.
StartOpen ==
  /\ cPc = "open"
  /\ channels' = cNext
  /\ written' = 0 /\ dropped' = 0
  /\ starts' = starts + 1
  /\ \/ file' = NewFile /\ cPc' = "launch"
     \/ file' = [NewFile EXCEPT !.open = FALSE] /\ cPc' = "idle"
  /\ UNCHANGED <<queue, active, running, stopRequested, cNext, straddled, aVars,
                 wVars>>

\* start(): the flags.  From here on write() is let in.
StartLaunch ==
  /\ cPc = "launch"
  /\ stopRequested' = FALSE
  /\ running' = TRUE /\ active' = TRUE
  /\ cPc' = "spawn"
  /\ UNCHANGED <<queue, channels, written, dropped, file, cNext, starts,
                 straddled, aVars, wVars>>

\* start(): the worker is created.
StartWorker ==
  /\ cPc = "spawn"
  /\ wPc' = "check" /\ wDraining' = FALSE
  /\ cPc' = "idle"
  /\ UNCHANGED <<queue, shared, written, dropped, file, cNext, starts, straddled,
                 aVars, wLeft, scratch>>

\* start(): there is no thread to be had.  std::thread throws, nothing between
\* here and the caller's thread function catches it, and the process ends.
StartThrows ==
  /\ cPc = "spawn"
  /\ cPc' = "terminated"
  /\ UNCHANGED <<queue, shared, written, dropped, file, cNext, starts, straddled,
                 aVars, wVars>>

-----------------------------------------------------------------------------
(* The audio thread.                                                       *)

\* write(frames) finds active_ set.
WriteEnter(frames) ==
  /\ aPc = "idle" /\ active
  /\ aPc' = "format"
  /\ aLeft' = frames
  /\ aStart' = starts
  /\ UNCHANGED <<queue, shared, written, dropped, file, cVars, aChannels, aCh,
                 aDropped, wVars>>

\* It loads channels_.
WriteFormat ==
  /\ aPc = "format"
  /\ aChannels' = channels
  /\ aPc' = "frame"
  /\ UNCHANGED <<queue, shared, written, dropped, file, cVars, aLeft, aCh,
                 aDropped, aStart, wVars>>

\* Whether the next frame fits whole.
FrameFits_OneSample == Len(queue) < Capacity
FrameFits == ~(Len(queue) + aChannels > Capacity)

\* It looks for room for the next frame, and drops the frame when there is not.
WriteFrame ==
  /\ aPc = "frame" /\ aLeft > 0
  /\ IF FrameFits
       THEN aPc' = "push" /\ aCh' = 1 /\ UNCHANGED <<aLeft, aDropped>>
       ELSE /\ aDropped' = Saturate(aDropped + 1) /\ aLeft' = aLeft - 1
            /\ UNCHANGED <<aPc, aCh>>
  /\ UNCHANGED <<queue, shared, written, dropped, file, cVars, aChannels,
                 aStart, wVars>>

\* It pushes one sample of the frame; a push on a full ring does nothing.
WritePush ==
  /\ aPc = "push"
  /\ queue' = IF Len(queue) < Capacity
                THEN Append(queue, [start |-> aStart, ch |-> aCh])
                ELSE queue
  /\ IF aCh < aChannels
       THEN aCh' = aCh + 1 /\ UNCHANGED <<aPc, aLeft>>
       ELSE aPc' = "frame" /\ aLeft' = aLeft - 1 /\ UNCHANGED aCh
  /\ UNCHANGED <<shared, written, dropped, file, cVars, aChannels, aDropped,
                 aStart, wVars>>

\* It adds its drops to the counter and returns.
WriteReturn ==
  /\ aPc = "frame" /\ aLeft = 0
  /\ dropped' = Saturate(dropped + aDropped)
  /\ aDropped' = 0
  /\ aPc' = "idle"
  /\ UNCHANGED <<queue, shared, written, file, cVars, aLeft, aChannels, aCh,
                 aStart, wVars>>

-----------------------------------------------------------------------------
(* The worker thread.                                                      *)

\* A worker that finishes the file as soon as it is told to.
WorkerCheck_NoFinalPump ==
  /\ wPc = "check"
  /\ wPc' = IF stopRequested THEN "finalize" ELSE "wait"
  /\ wDraining' = stopRequested
  /\ UNCHANGED <<queue, shared, written, dropped, file, cVars, aVars, wLeft,
                 scratch>>

\* The loop condition, under the mutex; then it waits or leaves the loop.
WorkerCheck ==
  /\ wPc = "check"
  /\ wPc' = IF stopRequested THEN "pump" ELSE "wait"
  /\ wDraining' = stopRequested
  /\ UNCHANGED <<queue, shared, written, dropped, file, cVars, aVars, wLeft,
                 scratch>>

\* wait_for returns: notified, timed out, or the predicate held already.
WorkerWake ==
  /\ wPc = "wait"
  /\ wPc' = "pump"
  /\ UNCHANGED <<queue, shared, written, dropped, file, cVars, aVars,
                 wDraining, wLeft, scratch>>

\* pump(): how many samples the next batch takes, always whole frames.
Batch_AllSamples == Smaller(DrainFrames * channels, Len(queue))
Batch == Smaller(DrainFrames, Len(queue) \div channels) * channels

\* pump(): the loop condition.  The final pump is followed by finalize().
PumpBegin ==
  /\ wPc = "pump"
  /\ IF Len(queue) >= channels
       THEN wLeft' = Batch /\ wPc' = "pop"
       ELSE /\ wPc' = (IF wDraining THEN "finalize" ELSE "check")
            /\ UNCHANGED wLeft
  /\ UNCHANGED <<queue, shared, written, dropped, file, cVars, aVars,
                 wDraining, scratch>>

PumpPop ==
  /\ wPc = "pop" /\ wLeft > 0
  /\ scratch' = Append(scratch, Head(queue))
  /\ queue' = Tail(queue)
  /\ wLeft' = wLeft - 1
  /\ UNCHANGED <<shared, written, dropped, file, cVars, aVars, wPc, wDraining>>

\* pump(): the batch goes to the file.  Every batch starts on a frame.
PumpWrite ==
  /\ wPc = "pop" /\ wLeft = 0
  /\ file' = [file EXCEPT
       !.size = Saturate(@ + Len(scratch)),
       !.own = @ /\ \A i \in DOMAIN scratch : scratch[i].start = starts,
       !.aligned = @ /\ \A i \in DOMAIN scratch :
                          scratch[i].ch = ((i - 1) % channels) + 1]
  /\ written' = Saturate(written + Len(scratch) \div channels)
  /\ scratch' = <<>>
  /\ wPc' = "pump"
  /\ UNCHANGED <<queue, shared, dropped, cVars, aVars, wDraining, wLeft>>

\* finalize(): the sizes in the header are patched and the file closed.
Finalize_FromDropped ==
  /\ wPc = "finalize"
  /\ file' = [file EXCEPT !.open = FALSE,
                          !.header = Saturate((written + dropped) * channels)]
  /\ wPc' = "exited"
  /\ UNCHANGED <<queue, shared, written, dropped, cVars, aVars, wDraining,
                 wLeft, scratch>>

Finalize ==
  /\ wPc = "finalize"
  /\ file' = [file EXCEPT !.open = FALSE,
                          !.header = Saturate(written * channels)]
  /\ wPc' = "exited"
  /\ UNCHANGED <<queue, shared, written, dropped, cVars, aVars, wDraining,
                 wLeft, scratch>>

-----------------------------------------------------------------------------
Control ==
  \/ \E n \in ChannelCounts \cup {0} : Call(n)
  \/ StopSignal \/ StopJoin \/ StartOpenFails \/ StartOpen \/ StartLaunch
  \/ StartWorker \/ StartThrows
\* In a process that has ended, the audio thread too has.
Write ==
  /\ cPc # "terminated"
  /\ WriteFormat \/ WriteFrame \/ WritePush \/ WriteReturn
Audio ==
  \/ cPc # "terminated" /\ \E frames \in 1 .. MaxBlock : WriteEnter(frames)
  \/ Write
Worker ==
  WorkerCheck \/ WorkerWake \/ PumpBegin \/ PumpPop \/ PumpWrite \/ Finalize

Next == Control \/ Audio \/ Worker

Spec == Init /\ [][Next]_vars

\* The scheduler runs every thread that can run; whether the devices call back
\* and whether the user calls again is left open.
Fairness ==
  /\ WF_vars(StopSignal \/ StopJoin \/ StartOpenFails \/ StartOpen \/ StartLaunch
              \/ StartWorker \/ StartThrows)
  /\ WF_vars(Write)
  /\ WF_vars(Worker)

FairSpec == Spec /\ Fairness
-----------------------------------------------------------------------------
(* Properties.                                                             *)

\* Every variable has its type.
TypeOK ==
  /\ queue \in Seq(Sample) /\ Len(queue) <= Capacity
  /\ active \in BOOLEAN /\ running \in BOOLEAN /\ stopRequested \in BOOLEAN
  /\ channels \in ChannelCounts \cup {0}
  /\ written \in 0 .. MaxCount /\ dropped \in 0 .. MaxCount /\ file \in File
  /\ cPc \in {"idle", "stop", "join", "open", "launch", "spawn", "terminated"}
  /\ cNext \in ChannelCounts \cup {0} /\ starts \in 0 .. MaxStarts
  /\ straddled \in BOOLEAN
  /\ aPc \in {"idle", "format", "frame", "push"} /\ aLeft \in 0 .. MaxBlock
  /\ aChannels \in ChannelCounts \cup {0} /\ aCh \in 1 .. Capacity
  /\ aDropped \in 0 .. MaxCount /\ aStart \in 0 .. MaxStarts
  /\ wPc \in {"none", "check", "wait", "pump", "pop", "finalize", "exited"}
  /\ wDraining \in BOOLEAN /\ wLeft \in 0 .. Capacity /\ scratch \in Seq(Sample)

\* The audio thread tests for room once per frame and then pushes the whole
\* frame without looking at push()'s result (recorder.cpp:119-126): the frame
\* always fits, whatever the worker does in between.
FrameAlwaysFits ==
  aPc = "push" => Len(queue) + (aChannels - aCh + 1) <= Capacity

\* Every sample of a file sits in its channel, though frames are dropped and
\* the worker drains in the middle of a push.  Only a write() that outlives its
\* recording can bring in frames of another width.
FileAligned ==
  file.aligned \/ (straddled /\ \E m, n \in ChannelCounts : m # n)

\* file_, path_ and channels_ are plain members shared by control and worker:
\* control touches them only while no worker is alive.  The audio thread is let in
\* only while there is a worker to drain what it writes, or a start() that is
\* about to create one.
FileHasOneOwner ==
  /\ TypeOK
  /\ cPc \in {"open", "launch"} => wPc = "none"
  /\ active => \/ wPc \notin {"none", "finalize", "exited"}
               \/ wPc = "none" /\ cPc \in {"spawn", "terminated"}

\* A closed file's header describes exactly the samples in it, and so does
\* frames_written().
HeaderMatchesFile ==
  ~file.open /\ wPc # "none" =>
     /\ file.header = file.size
     /\ file.size = Saturate(written * channels)

\* A file holds only what was played during its own recording: stop() drains
\* what is left of the previous one.  The one leak is a write() that had passed
\* its test of active_ (recorder.cpp:108) when stop() cleared it: what it pushes
\* after the last drain stays in the ring for the next file.
FileHasOwnFrames == straddled \/ file.own

\* What the run checks of a file: its samples in their channels, its own frames
\* only, and a header that is true of them.
FileIsFaithful == FileAligned /\ HeaderMatchesFile /\ FileHasOwnFrames

\* stop() comes back: though the audio thread never stops calling write() and
\* the worker drains until the ring is empty, the worker exits.
StopReturns == cPc \in {"stop", "join"} ~> cPc \notin {"stop", "join"}

-----------------------------------------------------------------------------
(* The inductive invariant.                                                *)

\* The worker finishes the file only when told to, and it is told to only while
\* control waits for it and the audio thread is shut out.  A start() under way
\* is within the bound on them.
Finishing == {"finalize", "exited"}
Spawning == {"spawn", "terminated"}
HandoverInv ==
  /\ cPc \in {"open", "launch"} => wPc = "none" /\ ~active /\ cNext # 0
  /\ cPc \in Spawning => wPc = "none" /\ ~stopRequested
  /\ cPc \in {"stop", "join", "open"} /\ cNext # 0 => starts < MaxStarts
  /\ cPc = "join" => wPc # "none" /\ stopRequested /\ ~active
  /\ wPc # "none" /\ stopRequested => cPc = "join"
  /\ wPc = "none" => ~active \/ cPc \in Spawning
  /\ wDraining /\ wPc # "none" => stopRequested
  /\ wPc \in Finishing => wDraining

\* A write() began while the format was set, and its frame fits.
WriteInv ==
  /\ aPc # "idle" \/ active \/ wPc # "none" \/ cPc \in {"launch", "spawn"}
       => channels # 0
  /\ aPc \in {"frame", "push"} => aChannels # 0
  /\ aPc = "push" => aLeft > 0 /\ aCh <= aChannels
  /\ FrameAlwaysFits

\* The batch is there, and it is whole frames.
BatchInv ==
  /\ wPc = "pop" => /\ wLeft <= Len(queue)
                    /\ (Len(scratch) + wLeft) % channels = 0
  /\ wPc # "pop" => wLeft = 0 /\ scratch = <<>>

\* The counter of frames goes along with the file.
FileInv ==
  /\ cPc \in {"launch", "spawn"} => file.open /\ file.size = 0 /\ written = 0
  /\ wPc \notin {"none", "exited"} => file.open
  /\ wPc # "none" => file.size = Saturate(written * channels)
  /\ wPc = "exited" => file.header = file.size /\ ~file.open

\* What is in the ring, or about to be pushed, belongs to this recording.
OwnInv ==
  ~straddled =>
    /\ aPc # "idle" => active /\ aStart = starts
    /\ \A i \in 1 .. Len(queue) : queue[i].start = starts
    /\ \A i \in 1 .. Len(scratch) : scratch[i].start = starts
    /\ wPc = "none" /\ cPc \notin Spawning => queue = <<>>
    /\ wPc \in Finishing => queue = <<>>
    /\ file.own

\* Every frame has one width: no write() outlives its recording, or all
\* recordings have the same.
OneWidth == ~straddled \/ \A m, n \in ChannelCounts : m = n

\* The samples in the ring alternate between the channels, from the head of a
\* frame in the batch to the sample pushed next.
ChannelAt(place) == (place % channels) + 1
PhaseInv ==
  OneWidth =>
    /\ channels = 0 => queue = <<>> /\ aPc = "idle"
    /\ aPc \in {"frame", "push"} => aChannels = channels
    /\ \A i \in 1 .. Len(scratch) : scratch[i].ch = ChannelAt(i - 1)
    /\ \A i \in 1 .. Len(queue) : queue[i].ch = ChannelAt(Len(scratch) + i - 1)
    /\ aPc = "push" => aCh = ChannelAt(Len(scratch) + Len(queue))
    /\ aPc # "push" /\ channels # 0 => (Len(scratch) + Len(queue)) % channels = 0
    /\ file.aligned

RecorderInv ==
  /\ TypeOK /\ HandoverInv /\ WriteInv /\ BatchInv /\ FileInv /\ OwnInv /\ PhaseInv
=============================================================================
