------------------------------- MODULE Engine -------------------------------
(***************************************************************************)
(* Engine (engine/src/engine.cpp): the devices, the DSP units between them *)
(* and the settings, operated by control-side threads while the capture    *)
(* and playback callbacks run on threads of the audio library.             *)
(*                                                                         *)
(* start() and stop() are split where a callback or another caller can see *)
(* a difference.  The server thread calls under engine_mutex.  main()      *)
(* (engine/src/main.cpp) calls start() at most once, without the mutex     *)
(* and perhaps while the server thread is in a call, and stop() at the     *)
(* end, when the server thread has been joined.  The units are made and    *)
(* freed together.  Of a setting, the clamped value matters.               *)
(***************************************************************************)
EXTENDS Integers, FiniteSets

CONSTANTS Callers,   \* control-side threads
          Unlocked,  \* those that do not take engine_mutex
          Values,    \* values of a setting
          Channels,  \* channel counts
          Paths,     \* files of models and cabinet IRs
          None

\* "unit" stands for gate, EQ and metronome, which are handled alike; start()
\* records the gain at another place.
Kinds == {"gain", "unit"}
Stages == {"model", "cab"}
Devices == {"capture", "playback"}
Config == [channels : Channels, set : [Kinds -> Values],
           load : [Stages -> Paths \cup {None}]]

ASSUME EngineAssumption ==
  /\ Unlocked \subseteq Callers /\ Unlocked # Callers
  /\ Values # {} /\ Channels \subseteq Nat \ {0}
  /\ None \notin Paths /\ None \notin Config /\ None \notin Callers

CONSTANTS Configs,   \* the configurations start() is called with
          Default    \* the EngineConfig and settings of a new engine

ASSUME ConfigAssumption == Configs \cup {Default} \subseteq Config

VARIABLES
  mutex,      \* who holds engine_mutex
  pc,         \* where each caller is inside start() or stop()
  goal,       \* the configuration it is starting; None when it only releases
  config,     \* config
  context,    \* context_ready
  device,     \* the two devices: "none", "ready" or "started"
  units,      \* are bridge .. metronome and the scratch buffers there?
  unit,       \* the settings the units work with
  requested,  \* requested_gain .. requested_metronome_bpm
  stage,      \* model and cab
  path,       \* model_path and cab_ir_path
  running,    \* running
  recording,  \* channels of the recording in progress, 0 when there is none
  inside,     \* which callbacks are running
  leaked,     \* has a device been initialised over a live one?
  overlapped  \* history: has a call begun while another thread was in one?

control == <<mutex, pc, goal>>
audio == <<context, device, units, running, leaked>>
settings == <<config, unit, requested, stage, path>>
vars == <<control, audio, settings, recording, inside, overlapped>>

Init ==
  /\ mutex = None
  /\ pc = [c \in Callers |-> "idle"] /\ goal = [c \in Callers |-> None]
  /\ config = Default
  /\ context = FALSE /\ units = FALSE /\ running = FALSE /\ leaked = FALSE
  /\ device = [d \in Devices |-> "none"]
  /\ unit = Default.set /\ requested = Default.set
  /\ stage = [s \in Stages |-> None] /\ path = [s \in Stages |-> None]
  /\ recording = 0
  /\ inside = {} /\ overlapped = FALSE

-----------------------------------------------------------------------------
(* Calls and returns.                                                      *)

InCall(c) == pc[c] \notin {"idle", "serving", "over"}

\* A call begins.
Enter(c) ==
  /\ pc[c] = "idle" /\ (c \in Unlocked \/ mutex = None)
  /\ overlapped' = (overlapped \/ \E other \in Callers \ {c} : InCall(other))

Goto(c, label) == pc' = [pc EXCEPT ![c] = label]

\* start(cfg), or stop() for None: both begin with release().
Call(c, cfg) ==
  /\ Enter(c)
  /\ mutex' = IF c \in Unlocked THEN mutex ELSE c
  /\ goal' = [goal EXCEPT ![c] = cfg]
  /\ Goto(c, "uninit_capture")
  /\ UNCHANGED <<audio, settings, recording, inside>>

\* main() after its start(), or without one when it was given no audio options:
\* server.stop() joins the server thread, engine.stop() follows.
Shutdown(c) ==
  /\ pc[c] \in {"idle", "serving"} /\ \A o \in Callers \ {c} : pc[o] = "idle"
  /\ pc' = [o \in Callers |-> IF o = c THEN "uninit_capture" ELSE "over"]
  /\ UNCHANGED <<mutex, goal, audio, settings, recording, inside, overlapped>>

Ending(c) == \A o \in Callers \ {c} : pc[o] = "over"

Return(c) ==
  /\ Goto(c, CASE c \notin Unlocked -> "idle"
                [] c \in Unlocked /\ ~Ending(c) -> "serving"
                [] c \in Unlocked /\ Ending(c) -> "over")
  /\ goal' = [goal EXCEPT ![c] = None]
  /\ mutex' = IF c \in Unlocked THEN mutex ELSE None

Continue(c, label) == Goto(c, label) /\ UNCHANGED <<mutex, goal>>

\* An error path of start() that only reports.
Fail_NoRelease(c) == Return(c)

\* An error path of start(): release() and return false.
Fail(c) ==
  /\ goal' = [goal EXCEPT ![c] = None]
  /\ Goto(c, "uninit_capture")
  /\ UNCHANGED mutex

-----------------------------------------------------------------------------
(* release().  ma_device_uninit() returns when no callback is running.     *)

\* A release that does not wait for the callback.
Uninit_NoWait(c, d, label, next) ==
  /\ pc[c] = label
  /\ device' = [device EXCEPT ![d] = "none"]
  /\ Continue(c, next)
  /\ UNCHANGED <<context, units, running, leaked, settings, recording, inside, overlapped>>

Uninit(c, d, label, next) ==
  /\ pc[c] = label
  /\ d \notin inside
  /\ device' = [device EXCEPT ![d] = "none"]
  /\ Continue(c, next)
  /\ UNCHANGED <<context, units, running, leaked, settings, recording, inside, overlapped>>

UninitCapture(c) == Uninit(c, "capture", "uninit_capture", "uninit_playback")

\* A release() that leaves the playback device for the next start().
UninitPlayback_Skipped(c) ==
  /\ pc[c] = "uninit_playback"
  /\ Continue(c, "reset")
  /\ UNCHANGED <<audio, settings, recording, inside, overlapped>>

UninitPlayback(c) == Uninit(c, "playback", "uninit_playback", "reset")

\* The rest of release(): the context, the units, running.
Reset(c) ==
  /\ pc[c] = "reset"
  /\ context' = FALSE /\ units' = FALSE /\ running' = FALSE
  /\ IF goal[c] = None THEN Return(c) ELSE Continue(c, "load_model")
  /\ UNCHANGED <<device, leaked, settings, recording, inside, overlapped>>

-----------------------------------------------------------------------------
(* start() after its release().                                            *)

\* One stage of the chain: no file clears it, a file replaces it or fails.
Load(c, s) ==
  LET p == goal[c].load[s] IN
    /\ stage' = [stage EXCEPT ![s] = p]
    /\ path' = [path EXCEPT ![s] = p]
    /\ UNCHANGED <<unit, requested>>

LoadModel(c) ==
  /\ pc[c] = "load_model"
  /\ config' = goal[c]
  /\ \/ Load(c, "model") /\ Continue(c, "load_cab")
     \/ /\ goal[c].load["model"] # None /\ Fail(c)
        /\ UNCHANGED <<unit, requested, stage, path>>
  /\ UNCHANGED <<audio, recording, inside, overlapped>>

LoadCab(c) ==
  /\ pc[c] = "load_cab"
  /\ \/ Load(c, "cab") /\ Continue(c, "units")
     \/ /\ goal[c].load["cab"] # None /\ Fail(c)
        /\ UNCHANGED <<unit, requested, stage, path>>
  /\ UNCHANGED <<config, audio, recording, inside, overlapped>>

\* The context, then the units with their settings.  The gain is not recorded
\* among the requested settings yet.
CreateUnits(c) ==
  /\ pc[c] = "units"
  /\ \/ /\ context' = TRUE /\ units' = TRUE
        /\ unit' = goal[c].set
        /\ requested' = [goal[c].set EXCEPT !["gain"] = requested["gain"]]
        /\ Continue(c, "init_capture")
     \/ Fail(c) /\ UNCHANGED <<context, units, unit, requested>>
  /\ UNCHANGED <<device, running, leaked, config, stage, path, recording, inside,
                 overlapped>>

\* ma_device_init(), which may fail.  Both devices are looked up before the
\* first of them is initialised: a failing lookup fails there.
InitDevice(c, d, next) ==
  \/ /\ device' = [device EXCEPT ![d] = "ready"]
     /\ leaked' = (leaked \/ device[d] # "none")
     /\ Continue(c, next)
  \/ Fail(c) /\ UNCHANGED <<device, leaked>>

InitCapture(c) ==
  /\ pc[c] = "init_capture"
  /\ InitDevice(c, "capture", "init_playback")
  /\ UNCHANGED <<context, units, running, settings, recording, inside, overlapped>>

InitPlayback(c) ==
  /\ pc[c] = "init_playback"
  /\ InitDevice(c, "playback", "gain")
  /\ UNCHANGED <<context, units, running, settings, recording, inside, overlapped>>

\* The requested gain follows once both devices are there.
RecordGain(c) ==
  /\ pc[c] = "gain"
  /\ requested' = [requested EXCEPT !["gain"] = unit["gain"]]
  /\ Continue(c, "start_capture")
  /\ UNCHANGED <<audio, config, unit, stage, path, recording, inside, overlapped>>

\* ma_device_start(): from here on the callback may run.
StartCapture(c) ==
  /\ pc[c] = "start_capture"
  /\ \/ /\ device' = [device EXCEPT !["capture"] = "started"]
        /\ Continue(c, "start_playback")
     \/ Fail(c) /\ UNCHANGED device
  /\ UNCHANGED <<context, units, running, leaked, settings, recording, inside, overlapped>>

StartPlayback(c) ==
  /\ pc[c] = "start_playback"
  /\ \/ /\ device' = [device EXCEPT !["playback"] = "started"]
        /\ running' = TRUE
        /\ Return(c)
     \/ Fail(c) /\ UNCHANGED <<device, running>>
  /\ UNCHANGED <<context, units, leaked, settings, recording, inside, overlapped>>

-----------------------------------------------------------------------------
(* The other calls, each under the mutex from beginning to end.            *)

\* A setter that talks to the unit only.
Set_UnitOnly(c, k, v) ==
  /\ Enter(c)
  /\ IF units THEN unit' = [unit EXCEPT ![k] = v] /\ UNCHANGED requested
              ELSE requested' = [requested EXCEPT ![k] = v] /\ UNCHANGED unit
  /\ UNCHANGED <<control, audio, config, stage, path, recording, inside>>

\* set_gain, set_gate_.., set_eq, set_metronome: recorded, and passed on to the
\* unit when there is one.
Set(c, k, v) ==
  /\ Enter(c)
  /\ requested' = [requested EXCEPT ![k] = v]
  /\ unit' = IF units THEN [unit EXCEPT ![k] = v] ELSE unit
  /\ UNCHANGED <<control, audio, config, stage, path, recording, inside>>

\* load_model and load_cab_ir.  When the file does not load nothing changes.
Replace(c, s, p) ==
  /\ Enter(c)
  /\ stage' = [stage EXCEPT ![s] = p]
  /\ path' = [path EXCEPT ![s] = p]
  /\ UNCHANGED <<control, audio, config, unit, requested, recording, inside>>

\* start_recording() (with the channel count of the last configuration), or
\* stop_recording().  A file that does not open leaves no recording.
Record(c) ==
  /\ Enter(c)
  /\ recording' \in {config.channels, 0}
  /\ UNCHANGED <<control, audio, settings, inside>>

-----------------------------------------------------------------------------
(* The callbacks.  A device calls back only while it is started.           *)

CallbackEnter(d) ==
  /\ device[d] = "started" /\ d \notin inside
  /\ inside' = inside \cup {d}
  /\ UNCHANGED <<control, audio, settings, recording, overlapped>>

CallbackLeave(d) ==
  /\ d \in inside
  /\ inside' = inside \ {d}
  /\ UNCHANGED <<control, audio, settings, recording, overlapped>>

-----------------------------------------------------------------------------
Release(c) == UninitCapture(c) \/ UninitPlayback(c) \/ Reset(c)
Start(c) ==
  \/ LoadModel(c) \/ LoadCab(c) \/ CreateUnits(c) \/ InitCapture(c)
  \/ InitPlayback(c) \/ RecordGain(c) \/ StartCapture(c) \/ StartPlayback(c)
Adjust(c) ==
  \/ \E k \in Kinds, v \in Values : Set(c, k, v)
  \/ \E s \in Stages, p \in Paths \cup {None} : Replace(c, s, p)
  \/ Record(c)

\* The process has ended.
Exited == (\A c \in Callers : pc[c] = "over") /\ UNCHANGED vars

Next ==
  \/ \E c \in Callers :
       \/ \E cfg \in Configs : Call(c, cfg)
       \/ c \notin Unlocked /\ (Call(c, None) \/ Adjust(c))
       \/ c \in Unlocked /\ Shutdown(c)
       \/ Release(c) \/ Start(c)
  \/ \E d \in Devices : CallbackEnter(d) \/ CallbackLeave(d)
  \/ Exited

Spec == Init /\ [][Next]_vars
-----------------------------------------------------------------------------
(* Properties.  The first three leave out what comes after main() and the   *)
(* server thread were in a call at once: nothing in the code prevents it, and *)
(* none of them would hold.                                                *)

Labels == {"idle", "uninit_capture", "uninit_playback", "reset", "load_model",
           "load_cab", "units", "init_capture", "init_playback", "gain",
           "start_capture", "start_playback", "serving", "over"}

\* Every variable has its type.
TypeOK ==
  /\ mutex \in Callers \cup {None}
  /\ pc \in [Callers -> Labels]
  /\ goal \in [Callers -> Configs \cup {None}]
  /\ config \in Config /\ recording \in Channels \cup {0}
  /\ context \in BOOLEAN /\ units \in BOOLEAN /\ running \in BOOLEAN
  /\ leaked \in BOOLEAN /\ overlapped \in BOOLEAN
  /\ device \in [Devices -> {"none", "ready", "started"}]
  /\ unit \in [Kinds -> Values] /\ requested \in [Kinds -> Values]
  /\ stage \in [Stages -> Paths \cup {None}] /\ path \in [Stages -> Paths \cup {None}]
  /\ inside \subseteq Devices

\* "Owns a capture device and a playback device" (engine.hpp:64): through failed
\* starts, restarts and the start of main() a device is never initialised over
\* one that is still live.
OneDevicePair == TypeOK /\ (leaked => overlapped)

\* No callback runs while the units it uses through raw pointers are freed or
\* not built yet.
CallbackHasUnits == inside # {} => units \/ overlapped

\* Between calls the engine is either running as a whole or not there at all: no
\* failed start leaves a device, the context or a unit behind, and the process
\* ends with the engine gone, whoever started it last.
There == running /\ units /\ context /\ \A d \in Devices : device[d] = "started"
Gone == /\ ~running /\ ~units /\ ~context /\ inside = {}
        /\ \A d \in Devices : device[d] = "none"
AllOrNothing ==
  /\ ~overlapped /\ (\A c \in Callers : ~InCall(c)) => There \/ Gone
  /\ ~overlapped /\ (\A c \in Callers : pc[c] = "over") => Gone

\* What the getters report.
Reported == IF units THEN unit ELSE requested

\* Stopping a running engine changes none of the settings it reports.
StopKeepsSettings ==
  [][running /\ ~running' /\ ~overlapped => Reported' = Reported]_vars

\* "Recording taps the final interleaved output" (engine.hpp:72): the playback
\* callback hands the recorder frames of the width it was started with.
RecordingTapsOutput ==
  "playback" \in inside /\ recording # 0 => recording = config.channels

-----------------------------------------------------------------------------
(* The inductive invariant.                                                *)

\* A goal is a configuration for as long as start() needs it.
Releasing == {"uninit_capture", "uninit_playback", "reset"}
Starting == {"load_model", "load_cab", "units", "init_capture", "init_playback",
             "gain", "start_capture", "start_playback"}
GoalInv ==
  \A c \in Callers :
    /\ pc[c] \in Starting => goal[c] # None
    /\ ~InCall(c) => goal[c] = None

\* One call at a time; and when main() has got past the end of the server
\* thread, its last call is the only one.
CallInv ==
  /\ \A c, o \in Callers : InCall(c) /\ InCall(o) => c = o
  /\ \A c \in Callers : pc[c] = "serving" => c \in Unlocked
  /\ (\E c \in Callers : pc[c] = "over") =>
       \A c \in Callers :
         /\ pc[c] # "over" => pc[c] \in Releasing /\ goal[c] = None
         /\ InCall(c) => c \in Unlocked

\* What is there at each step of the only call.
DeviceInv ==
  /\ \A d \in inside : device[d] = "started"
  /\ (\E d \in Devices : device[d] # "none") => units /\ context
  /\ (\A c \in Callers : ~InCall(c)) => There \/ Gone
  /\ (\A c \in Callers : pc[c] = "over") => Gone
  /\ \A c \in Callers :
       /\ pc[c] \in {"uninit_playback", "reset"} => device["capture"] = "none"
       /\ pc[c] = "reset" => device["playback"] = "none"
       /\ pc[c] \in {"load_model", "load_cab", "units"} => Gone
       /\ pc[c] \in Starting => ~running
       /\ pc[c] \in {"init_capture", "init_playback", "gain", "start_capture",
                     "start_playback"} => units /\ context
       /\ pc[c] = "init_capture" => \A d \in Devices : device[d] = "none"
       /\ pc[c] = "init_playback" =>
            device["capture"] = "ready" /\ device["playback"] = "none"
       /\ pc[c] \in {"gain", "start_capture"} =>
            \A d \in Devices : device[d] = "ready"
       /\ pc[c] = "start_playback" =>
            device["capture"] = "started" /\ device["playback"] = "ready"
  /\ ~leaked

\* A running engine works with the settings that were requested.
SettingsInv ==
  /\ running => units /\ requested = unit
  /\ \A c \in Callers :
       /\ pc[c] \in {"init_capture", "init_playback", "gain"} =>
            requested = [unit EXCEPT !["gain"] = requested["gain"]]
       /\ pc[c] \in {"start_capture", "start_playback"} => requested = unit

EngineInv ==
  /\ TypeOK /\ GoalInv
  /\ ~overlapped => CallInv /\ DeviceInv /\ SettingsInv
=============================================================================
