------------------------------ MODULE Playback -------------------------------
(***************************************************************************)
(* playback_callback() (engine/src/engine.cpp) and the metronome in it     *)
(* (engine/include/gitar/metronome.hpp), on a thread of the audio library, *)
(* while the control side loads models and sets the metronome: it holds    *)
(* engine_mutex and so does one thing at a time, the callback goes on.     *)
(*                                                                         *)
(* A model is known by the number of its load.  Of a frame, what has been  *)
(* done to it matters; of a click, the frame it begins at; of a tempo, the *)
(* number of frames between its beats.  The engine runs all the time: its  *)
(* start and stop are in module Engine, what read() delivers in Bridge and *)
(* what becomes of the recorded block in Recorder.                         *)
(*                                                                         *)
(* Definitions are named so that a module can extend SpscRing and Seqlock  *)
(* as well.                                                                *)
(***************************************************************************)
EXTENDS Integers, FiniteSets, Sequences

CONSTANTS Blocks,    \* the frame counts the audio library asks for
          Period,    \* size of mono_scratch
          Tempos,    \* frames between two beats
          MaxLoads   \* bound: models and cabinet IRs loaded

ASSUME PlaybackAssumption ==
  /\ Blocks \subseteq Nat \ {0} /\ Period \in Nat \ {0}
  /\ Tempos \subseteq Nat \ {0} /\ MaxLoads \in Nat

Stages == {"model", "cab"}
None == 0
Ready == [at |-> "ready"]

VARIABLES
  stage,     \* model and cab: the atomic shared pointers
  loads,     \* number of models made so far
  freed,     \* those that are gone
  control,   \* what the control side is in the middle of
  enabled,   \* enabled_
  tempo,     \* bpm_, as the interval it stands for
  pc,        \* where the callback is
  held,      \* the callback's own shared pointers
  frames,    \* what was done to each frame of the block
  chains,    \* the pairs of model and cab the block went through
  offset,    \* offset
  left,      \* frames the metronome still has to do of its chunk
  active,    \* active_
  until,     \* samples_until_beat_
  due,       \* history: the interval the latest beat began with
  since,     \* history: frames from that beat to the beginning of this block
  rhythm     \* history: "on"; "off" after a block without the metronome;
             \* "adrift" when it then goes on without a beat

models == <<stage, loads, freed>>
knobs == <<enabled, tempo>>
block == <<frames, chains, offset, left>>
beat == <<active, until, due, since, rhythm>>
playbackVars == <<models, control, knobs, pc, held, block, beat>>

PlaybackInit ==
  /\ stage = [s \in Stages |-> None] /\ loads = 0 /\ freed = {}
  /\ control = Ready
  /\ enabled = FALSE /\ tempo \in Tempos
  /\ pc = "idle" /\ held = [s \in Stages |-> None]
  /\ frames = <<>> /\ chains = {} /\ offset = 0 /\ left = 0
  /\ active = FALSE /\ until = 0
  /\ due = 0 /\ since = 0 /\ rhythm = "off"

-----------------------------------------------------------------------------
(* The control side.  A model goes with its last shared pointer.           *)

\* The callback's pointers are plain ones.
Dropped_NotShared(old) == {old} \ {None}

Dropped(old) == {old} \ ({None} \cup {held[s] : s \in Stages})

Publish(s, m) ==
  /\ stage' = [stage EXCEPT ![s] = m]
  /\ freed' = freed \cup Dropped(stage[s])

\* load_model(), load_cab_ir(): a new model is read ...
LoadBegin(s) ==
  /\ control = Ready /\ loads < MaxLoads
  /\ loads' = loads + 1
  /\ control' = [at |-> "loading", stage |-> s]
  /\ UNCHANGED <<stage, freed, knobs, pc, held, block, beat>>

\* ... and takes the place of the old one, ...
LoadDone ==
  /\ control.at = "loading"
  /\ Publish(control.stage, loads)
  /\ control' = Ready
  /\ UNCHANGED <<loads, knobs, pc, held, block, beat>>

\* ... unless the file does not load.
LoadFails ==
  /\ control.at = "loading"
  /\ freed' = freed \cup {loads}
  /\ control' = Ready
  /\ UNCHANGED <<stage, loads, knobs, pc, held, block, beat>>

Clear(s) ==
  /\ control = Ready
  /\ Publish(s, None)
  /\ UNCHANGED <<loads, control, knobs, pc, held, block, beat>>

\* set_metronome(): the switch, then the tempo.
SetEnabled(on, t) ==
  /\ control = Ready
  /\ enabled' = on
  /\ control' = [at |-> "tempo", tempo |-> t]
  /\ UNCHANGED <<models, tempo, pc, held, block, beat>>

SetTempo ==
  /\ control.at = "tempo"
  /\ tempo' = control.tempo
  /\ control' = Ready
  /\ UNCHANGED <<models, enabled, pc, held, block, beat>>

-----------------------------------------------------------------------------
(* The callback.  Each pass goes over the block in chunks of the scratch   *)
(* buffer's size.                                                          *)

Length == Len(frames)
Chunk == IF Period < Length - offset THEN Period ELSE Length - offset
Positions == offset + 1 .. offset + Chunk

Units == {"chain", "gain", "click"}

\* What `unit` does to the frames at the given positions.
Apply(unit, positions) ==
  [i \in DOMAIN frames |-> IF i \in positions THEN Append(frames[i], unit)
                                              ELSE frames[i]]

\* The block is read from the bridge.
Enter(n) ==
  /\ pc = "idle"
  /\ pc' = "model"
  /\ frames' = [i \in 1 .. n |-> <<>>]
  /\ chains' = {} /\ offset' = 0 /\ left' = 0
  /\ UNCHANGED <<models, control, knobs, held, beat>>

Take(s, next) ==
  /\ held' = [held EXCEPT ![s] = stage[s]]
  /\ pc' = next
  /\ UNCHANGED <<models, control, knobs, block, beat>>

TakeModel == pc = "model" /\ Take("model", "cab")
TakeCab == pc = "cab" /\ Take("cab", "chain")

\* A chain that looks for its model again in every chunk.
Chain_Reloads ==
  /\ pc = "chain" /\ offset < Length
  /\ frames' = Apply("chain", Positions)
  /\ chains' = chains \cup {stage}
  /\ offset' = offset + Chunk
  /\ UNCHANGED <<models, control, knobs, pc, held, left, beat>>

\* Gate, model, cab and EQ for one chunk.
Chain ==
  /\ pc = "chain" /\ offset < Length
  /\ frames' = Apply("chain", Positions)
  /\ chains' = chains \cup {held}
  /\ offset' = offset + Chunk
  /\ UNCHANGED <<models, control, knobs, pc, held, left, beat>>

\* After the last chunk the gain, on the whole block, and the question whether
\* the metronome is on.
Gain ==
  /\ pc = "chain" /\ offset = Length
  /\ frames' = Apply("gain", DOMAIN frames)
  /\ offset' = 0
  /\ pc' = IF enabled THEN "chunk" ELSE "record"
  /\ rhythm' = IF enabled THEN rhythm ELSE "off"
  /\ UNCHANGED <<models, control, knobs, held, chains, left, active, until, due,
                 since>>

-----------------------------------------------------------------------------
(* Metronome::process(), once for each chunk.                              *)

\* A beat at frame `at` of the block.
Beat(at) ==
  /\ due' = tempo
  /\ since' = -at
  /\ rhythm' = "on"

\* The switch is looked at again: off ends the rhythm.  The first chunk after
\* that begins with a beat.
ProcessBegin ==
  /\ pc = "chunk" /\ offset < Length
  /\ active' = enabled
  /\ left' = IF enabled THEN Chunk ELSE 0
  /\ pc' = "frame"
  /\ \/ /\ enabled /\ ~active
        /\ until' = tempo /\ Beat(offset)
     \/ /\ enabled /\ active
        /\ rhythm' = IF rhythm = "off" /\ until # 0 THEN "adrift" ELSE rhythm
        /\ UNCHANGED <<until, due, since>>
     \/ /\ ~enabled
        /\ rhythm' = "off"
        /\ UNCHANGED <<until, due, since>>
  /\ UNCHANGED <<models, control, knobs, held, frames, chains, offset>>

\* A frame after which the beat is counted down before it is looked for.
Frame_CountsFirst ==
  /\ pc = "frame" /\ left > 0
  /\ left' = left - 1
  /\ IF until <= 1 THEN until' = tempo /\ Beat(offset + Chunk - left)
                   ELSE until' = until - 1 /\ UNCHANGED <<due, since, rhythm>>
  /\ UNCHANGED <<models, control, knobs, pc, held, frames, chains, offset, active>>

Frame ==
  /\ pc = "frame" /\ left > 0
  /\ left' = left - 1
  /\ IF until = 0 THEN until' = tempo - 1 /\ Beat(offset + Chunk - left)
                  ELSE until' = until - 1 /\ UNCHANGED <<due, since, rhythm>>
  /\ UNCHANGED <<models, control, knobs, pc, held, frames, chains, offset, active>>

\* The clicks are added to the block: nothing, where the switch was off.
Mix ==
  /\ pc = "frame" /\ left = 0
  /\ frames' = Apply("click", Positions)
  /\ offset' = offset + Chunk
  /\ pc' = IF offset' = Length THEN "record" ELSE "chunk"
  /\ UNCHANGED <<models, control, knobs, held, chains, left, beat>>

\* The block goes to the recorder, and the callback's pointers go.
Leave ==
  /\ pc = "record"
  /\ pc' = "idle"
  /\ since' = IF rhythm = "on" THEN since + Length ELSE 0
  /\ held' = [s \in Stages |-> None]
  /\ freed' = freed \cup ({held[s] : s \in Stages} \ ({None} \cup {stage[s] : s \in Stages}))
  /\ frames' = <<>> /\ chains' = {} /\ offset' = 0
  /\ UNCHANGED <<stage, loads, control, knobs, left, active, until, due, rhythm>>

-----------------------------------------------------------------------------
Control ==
  \/ \E s \in Stages : LoadBegin(s) \/ Clear(s)
  \/ LoadDone \/ LoadFails
  \/ \E on \in BOOLEAN, t \in Tempos : SetEnabled(on, t)
  \/ SetTempo

Callback ==
  \/ \E n \in Blocks : Enter(n)
  \/ TakeModel \/ TakeCab \/ Chain \/ Gain
  \/ ProcessBegin \/ Frame \/ Mix \/ Leave

PlaybackNext == Control \/ Callback

PlaybackSpec == PlaybackInit /\ [][PlaybackNext]_playbackVars
-----------------------------------------------------------------------------
(* Properties.                                                             *)

Models == 1 .. loads

\* Every variable has its type.
PlaybackTypes ==
  /\ stage \in [Stages -> Models \cup {None}] /\ held \in [Stages -> Models \cup {None}]
  /\ loads \in 0 .. MaxLoads /\ freed \subseteq Models
  /\ control \in {Ready} \cup [at : {"loading"}, stage : Stages]
                         \cup [at : {"tempo"}, tempo : Tempos]
  /\ enabled \in BOOLEAN /\ active \in BOOLEAN /\ tempo \in Tempos
  /\ pc \in {"idle", "model", "cab", "chain", "chunk", "frame", "record"}
  /\ frames \in Seq(Seq(Units)) /\ offset \in 0 .. Length /\ left \in 0 .. Period
  /\ until \in Nat /\ due \in Nat /\ since \in Int
  /\ rhythm \in {"on", "off", "adrift"}

\* "The callback never observes a half-built model.  shared_ptr keeps the old
\* model alive until the callback that loaded it has finished" (engine.cpp:73),
\* and no longer: what neither side holds any more has been freed.
Loading == IF control.at = "loading" THEN {loads} ELSE {}
ModelsWholeAndAlive ==
  /\ PlaybackTypes
  /\ \A s \in Stages : held[s] \notin freed \cup Loading /\ stage[s] \notin freed
  /\ Models \subseteq freed \cup Loading \cup {stage[s] : s \in Stages}
                                         \cup {held[s] : s \in Stages}

\* However the library's frame count and the scratch buffer's size go together,
\* the recorder gets a block of which every frame went once through the chain,
\* the gain and, if at all, the metronome, in that order, and through the same
\* model and cab, though these may be replaced meanwhile.
BlockProcessedWhole ==
  pc = "record" =>
    /\ Cardinality(chains) = 1
    /\ \A i \in DOMAIN frames : frames[i] = frames[1]
    /\ frames[1] \in {<<"chain", "gain">>, <<"chain", "gain", "click">>}

\* In the stream that is played, over chunks and blocks of any size, a beat
\* follows the last one after the interval that was set when the last began:
\* between blocks, the frames since that beat and those to the next add up to
\* it.  Left out: a metronome that was off in between.
BeatsInTime == pc = "idle" /\ rhythm = "on" => since + until = due

\* "The first beat after enabling is immediate" (metronome.hpp:12): a metronome
\* that was off for a block and is on again begins with a beat.
FirstBeatImmediate == rhythm # "adrift"

-----------------------------------------------------------------------------
(* The inductive invariant.                                                *)

\* The owners of a model: the two stages share none, and the callback has none
\* but inside a block.
OwnersInv ==
  /\ Loading \cap freed = {} /\ None \notin Loading
  /\ \A s \in Stages : stage[s] \notin freed \cup Loading
                     /\ held[s] \notin freed \cup Loading
  /\ stage["model"] = stage["cab"] => stage["model"] = None
  /\ pc \in {"idle", "model"} => held["model"] = None
  /\ pc \in {"idle", "model", "cab"} => held["cab"] = None
  /\ Models \subseteq freed \cup Loading \cup {stage[s] : s \in Stages}
                                         \cup {held[s] : s \in Stages}

\* How far the block is: what was done to frame i of it.
DoneTo(i) ==
  CASE pc \in {"idle", "model", "cab"} -> <<>>
    [] pc = "chain" -> IF i <= offset THEN <<"chain">> ELSE <<>>
    [] OTHER -> IF i <= offset THEN <<"chain", "gain", "click">>
                              ELSE <<"chain", "gain">>
BlockInv ==
  /\ pc # "idle" => Length > 0
  /\ pc \in {"model", "cab"} => offset = 0
  /\ pc \in {"chunk", "frame"} => offset < Length
  /\ pc = "record" => offset \in {0, Length}
  /\ \A i \in 1 .. Length : frames[i] = DoneTo(i)
  /\ chains = IF pc \in {"idle", "model", "cab"} \/ (pc = "chain" /\ offset = 0)
              THEN {} ELSE {held}

\* How far the metronome is in the block, and how far the next beat is from
\* there.
Position ==
  CASE pc \in {"idle", "model", "cab", "chain"} -> 0
    [] pc = "chunk" -> offset
    [] pc = "frame" -> offset + Chunk - left
    [] pc = "record" -> Length
BeatInv ==
  /\ rhythm = "on" => active /\ since + Position + until = due
  /\ pc = "frame" => left <= Chunk /\ (left > 0 => active)

PlaybackInv == PlaybackTypes /\ OwnersInv /\ BlockInv /\ BeatInv
=============================================================================
