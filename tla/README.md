# gitar: specifications, model checking and proofs

This directory holds TLA+ specifications of [gitar](../src/README.md), a guitar
practice program: a native real-time audio engine (`engine/`), a Python control
server that spawns and drives it (`src/gitar_server/`), and a web panel. Every
module models code of the repository; `PROJECT.json` maps each definition to the
lines it stands for. All paths below are relative to the repository.

To check a module with TLC: `tlc -config MCRecorder.cfg MCRecorder`. To check the
proofs of a module with TLAPS: `tlapm BridgeProofs.tla`.

## 1. Inventory

| component | state it keeps | operations | talks to |
|---|---|---|---|
| SPSC ring, `ring_buffer.hpp` | slots, two wrapping counters | `push`, `pop`, `size`, by one producer and one consumer thread | bridge, recorder, (pitch and spectrum taps) |
| Interleaved bridge, `bridge.hpp` | a ring of samples, overrun and underrun counters | `write` (capture callback), `read` (playback callback) | engine |
| Recorder, `recorder.cpp` | a ring, three flags, channel count, counters, the WAV file, a worker thread | `start`, `stop` (control), `write` (playback callback), `worker_main` | engine |
| Seqlocks, `eq.hpp`, `spectrum_analyzer.hpp` | a version and a group of atomics each | `Band::set`/`get`, `publish`/`bands_db` | engine |
| Engine, `engine.cpp` | two devices, a context, the DSP units, the settings twice (in the units and as `requested_*`), model, cabinet IR and their paths | `start`, `stop`, setters, `load_model`, `load_cab_ir`, recording, callbacks | control server, audio library |
| Control server, `control_server.cpp` | sockets, `running`, `quit_requested`, a thread, a condition variable | `start`, `stop`, `wait`, `run`, `handle_client`, `process_line` | clients, engine |
| Engine process, `main.cpp` | the interrupt flag | `run_engine` | engine, control server |
| Playback callback and metronome, `engine.cpp`, `metronome.hpp` | scratch buffers, the shared model and cabinet, the beat counter | `playback_callback`, `Metronome::process`, `set_metronome`, loading and clearing | bridge, recorder, engine |
| Other DSP units | filter states | `process` | engine |
| Engine client and controller, `engine_client.py`, `engine_controller.py` | a socket and a buffered stream, the request counter, the child process | `connect`, `call`, `close`, `ensure_process`, `shutdown` | HTTP threads, engine process |
| Presets and configuration, `presets.py`, `config.py`, `api/presets.py` | JSON files | list, save (write a temporary file and rename it), delete, seed, apply (several engine calls) | files, controller |
| PipeWire backend, `backends/pipewire.py` | none of its own: the links of the PipeWire graph and a Guitarix process | `connect_direct`, `connect_amp`, `disconnect`, `load_tone`, `status`, `set_volume`, `measure_level` | `pw-link`, `pactl`, `pgrep`, `pkill`, `guitarix` |
| HTTP application, `api/app.py`, `api/engine.py` | the backend, the lazily created controller | routes, the status WebSocket | everything in Python |
| Web panel, `web/app.js` | what was last shown, the sliders, timers, a reconnecting socket | `refreshEngineStatus`, posts, `renderEngineStatus`, `connectWs`, `visibilitychange` | HTTP application |
| legacy command `gitar`, installers | none | shell scripts | the same tools as the backend |

What is hard in this system:

* **Concurrency in the engine.** Two audio callbacks, a recorder thread, the
  server thread and `main()` share one process; the audio threads may not
  block, so everything between them and the rest is lock-free.
* **Concurrency in the server.** FastAPI runs the synchronous routes on a pool
  of threads, which all share one `EngineController`, one `EngineClient` and so
  one stream, without a lock.
* **Concurrency in the browser.** Every request of the panel is its own
  connection: a poll of twice a second and the user's posts overtake each other,
  and each answer is shown as the present state.
* **Failure.** `Engine::start` can fail at nine places; a client may vanish or
  stop reading at any time; the engine process may crash or never answer; a
  save may be interrupted; an external command may fail.
* **Time.** `stop()` waits for threads that wait for I/O; a read of the engine
  client times out while the answer is still on its way.

What makes each component correct is stated as properties in section 3, and in
the `hazards` of `PROJECT.json` line by line.

## 2. Modules

    Fifo <--implements-- SpscRing        abstract bounded queue / the real ring
      ^                     AudioProofs
      | instance
    Bridge  (BridgeProofs)               the queue between the callbacks
    Recorder (RecorderProofs)            control, audio and worker threads
    Seqlock (AudioProofs)                version counter around atomics
    Engine (EngineProofs)                devices, units, settings, callers
    Playback (AudioProofs)               the playback callback and its metronome
    ControlServer (ServerProofs)         owner, server thread, clients
    EngineController                     HTTP threads, client, engine process
      (EngineControllerProofs)
    Presets (ServerProofs)               preset files: requests and installer
    PipeWire (PipeWireProofs)            routes, Guitarix, HTTP threads
    WebPanel (WebPanelProofs)            page, requests, answers, server

**Fifo** is what a single-producer single-consumer queue promises when each side
may lag behind the other: a bounded queue and, for each side, how many of the
other's operations it has not seen. **SpscRing** is `SpscRingBuffer` with
`push_impl` and `pop` split at their atomic accesses: load the counters, touch
the slot, publish. `head` and `tail` wrap at `Modulus`; an acquire load returns
any value between the one loaded before and the current one, which is what
coherence gives; the release/acquire pairs are what makes the slots plain memory.
`SpscRing` implements `Fifo` under the mapping `queue <- Queue`,
`unseenPops <- tail - tailSeen`, `unseenPushes <- head - headSeen`.

**Bridge** uses `Fifo` as the ring (`Ring == INSTANCE Fifo`), so what is proved
of the bridge holds of the bridge over the real ring. `write` and `read` are
split into the decision how many frames to move and one push or pop per sample,
so the callbacks interleave inside a frame. Samples carry the number of their
frame and their channel. `queue`, `unseenPops`, `unseenPushes`, `out` are the
ring; `wLeft`, `wNext`, `lost` belong to `write`, `rLeft`, `block`, `failedPops`
to `read`, where `lost` and `failedPops` count results the code does not look at.
Its top-level definitions have names of their own (`BridgeInit`, `BridgeNext`),
because a model extends it together with `Engine`.

**Recorder** has one label per step between which another thread can act: for
control `stop`, `join`, `open`, `launch`, `spawn`; for the audio thread `format`, `frame`,
`push`; for the worker `check`, `wait`, `pump`, `pop`, `finalize`. A sample is
known by the recording during which its `write` began and its channel; a file by
its size, the size in its header, whether all samples are its own and whether
all sit in their channel. `start` sets the flags (`StartLaunch`, `recorder.cpp:77-83`)
before it creates the worker (`StartWorker`), and `write` is let in between; when
there is no thread to be had (`StartThrows`) the exception goes uncaught and the
process ends. The ring is a queue with up-to-date views: the
recorder's uses of stale counts are those already covered by `SizeIsSafe`.

**Seqlock** is the protocol of both seqlocks. A store takes place when it
becomes visible. `pending` holds the stores of the update in progress; the final
even version waits for all others (release store), whereas a cell may become
visible before the odd version (a release store does not hold later relaxed
stores back), which sets `overtaken`. On x86 stores are not reordered and
`overtaken` stays false.

**Engine** splits `start` and `release` where a callback or another caller can
see a difference. Every setter, load and record call is one action under
`engine_mutex`, because nobody but the callbacks runs meanwhile; the callbacks
are `CallbackEnter` and `CallbackLeave`, and `ma_device_uninit` waits for
theirs. `Unlocked` are the callers that do not take the mutex: in the program,
`main()`, which starts the engine after the server thread has begun to serve
(`main.cpp:70`), and stops it at the end, when the server thread has been joined
(`Shutdown`). The settings are two kinds because `start` records the gain at
another place than the others. `overlapped` remembers that one of the two entered
a call while the other was inside one.

**Playback** is what happens inside a callback that `Engine` only lets in and
out. The control side holds `engine_mutex`, so it does one thing at a time, and
each of its steps may fall between any two of the callback's: reading the block,
loading the two shared pointers, one chunk of the chain, the gain, one chunk of
`Metronome::process` frame by frame, the recorder. `held` are the callback's
shared pointers, `freed` the models whose last pointer has gone. Of each frame
the model remembers what was done to it, of the click where a beat begins:
`due`, `since` and `rhythm` are history variables that measure, in the stream
that is played, the distance of two beats.

**ControlServer** has the owner (`start`, `stop`, `wait`), the server thread
(`run`, `handle_client`), and clients that connect, send, hang up, or do nothing.
`request_stop` is three steps, on whichever thread runs it, and the condition
variable is modelled with the window between test and sleep ("drowsy"). A request
is a call, a quit, or a line ("overflow") with a number that no `double` holds, which
`json::parse` refuses with another exception than the one `process_line` expects
(`ParseThrows`): it ends the process.

**EngineController** has worker threads that run `ensure_process` and `call`
unsynchronised, the thread of the application that runs `shutdown`, and engine
processes that boot, listen, answer, crash, or stay mute. A call is known by its
number, which is also its request id and names the process it spawns and the
connection it makes. A timeout may strike whenever no line is there; a stream
that has timed out raises on every further read from the socket, as `SocketIO`
does; two threads inside `readline` on one stream may tear a line.

**Presets** has the threads of the HTTP server and the separate process `gitard
presets install`, which share a directory and no lock. Writing a preset is
three steps (`mkstemp`, write, rename), of which each may fail and between which
a process may crash; applying one is a read and five calls of the engine. A
request is a record of what an actor is about to do. `edited` remembers what the
user wants in each file, `raced` which names were saved while the installer,
having found no such file, was about to write one; `applied` is the preset of
the last apply, if nothing else has reached the engine since.

**PipeWire** takes an operation of the backend as a plan, the sequence of steps
it has yet to take, because all four operations are made of the same few:
validate, remove and make links, stop and start Guitarix, wait, send an RPC, and
the two reads of a status. Each step is one command that another thread,
Guitarix or the user may precede or follow. A Guitarix process is first its
wrapper `pw-jack`, which `pgrep -x guitarix` does not find, then running, with or
without ports, then dying; it saves its settings when it exits and starts with
those last saved. A link is there while both its ports are. `trouble` collects
what befell an operation that no backend could make up for, or that this one
does not; the properties name what they leave out.

**WebPanel** is the page: the timer of `refreshEngineStatus`, which asks whether
or not the last answer has come, the EQ sliders, one per band, with their delayed
post, the buttons, the status socket with its reconnect, and a page that is hidden
and shown. A request is sent, handled or refused, and answered or failed; each
step may come in any order for the requests under way. `Fails` is every error the
API answers with: a request may fail once, the engine having done what it was
asked or not, and all of them fail once the engine has died or the server's stream
to it has timed out (`stream`), because the server then never connects again. A
server may go down and come back, and with it the engine; the first message of a
socket, or any later one, may fail (`SnapshotFails`). Stop and the gain stand for
the other posts, of which the second is answered by `{"gain": x}`, which
`renderEngineStatus` takes for a status without `running`. `wanted` remembers, per
band, what the user set and the page has not displaced itself.

## 3. Runs

| run | bounds | shows |
|---|---|---|
| `audio` | `SpscRing`: 2 slots, counters modulo 6, 3 values; `Seqlock`: 3 cells, 3 updates; `Playback`: blocks of 1 and 3 frames, scratch buffer of 2, beats every 2 or 3 frames, 2 loads | `NoDataRace`, `SizeIsSafe`, implements `Fifo` (`FifoSpec`); `NoTornRead`, `NoStaleRead`, `ReadReturns`; `ModelsWholeAndAlive`, `BlockProcessedWhole`, `BeatsInTime` |
| `stream` | `Engine`: the server thread and `main()`, 2 configurations, 2 values per setting, 1 file; `Bridge`: ring of 4, 1 or 2 channels, blocks up to 2 frames, 6 frames captured, 2 of silence | `CallbackHasUnits`, `AllOrNothing`, `OneDevicePair`, `StopKeepsSettings`; `ReadNeverStarved`, `InOrder`, `EverySampleAccounted`, `MonoLosesNothing` |
| `alignment` | the bridge with 2 channels | `FramesStayAligned` is **violated** |
| `recorder` | ring of 4, batches of 2 frames, 1 or 2 channels, 2 recordings, counters saturating at 4 | `FrameAlwaysFits`, `FileHasOneOwner`, `FileIsFaithful`, `StopReturns` |
| `recording` | the engine of `stream` | `RecordingTapsOutput` is **violated** |
| `metronome` | blocks of 1 and 2 frames | `FirstBeatImmediate` is **violated** |
| `servers` | `ControlServer`: 2 clients, 3 requests; `Presets`: 2 threads, 3 requests, 2 installations, 1 crash, 2 names | `DescriptorsInOrder`, `ReturnsWhenTold`, `ConnectionKept`, `StopReturns`, `QuitStops`; `CrashKeepsOldOrNew`, `EditsSurvive`, `AppliedWhole` |
| `process_line` | 2 clients, 1 request | `ErrorsDoNotKill` is **violated** |
| `wait` | 2 clients, 1 request | `QuitUnblocksWait` is **violated** |
| `engine_controller` | 2 threads, 3 calls and the final quit | `OwnResponse`, `ConnectionsInStep`, `ShutdownLeavesNoEngine` |
| `pipewire` | 2 threads, 3 operations, 2 Guitarix processes, 1 event | `EndsInRoute`, `ToneSurvivesRestart` |
| `web_panel` | 2 bands of 2 positions, 2 requests under way, 2 events | `EditNotOverwritten`, `EqReachesEngine`, `PanelCatchesUp`, `PillIsTrue` |

The modules `MCAudio`, `MCStream` and `MCServer` extend several specifications
that share no state, and let one of them move in each behaviour (`focus`). Their state
spaces add up instead of multiplying, and every property is checked in the
behaviours of its own specification. `MCWebPanel` does the same with the parts of one
specification that hardly touch: with the sliders in focus nobody hides the page,
with the card nobody moves a slider, with the socket nobody uses the card; the
server and the requests belong to all three, and out of focus the socket does what
the server's coming and going makes it do.

The type invariants of `Recorder`, `Engine`, `Playback`, `ControlServer`,
`EngineController`, `PipeWire` and `WebPanel` are conjuncts of `FileHasOneOwner`,
`OneDevicePair`, `ModelsWholeAndAlive`, `DescriptorsInOrder`,
`ConnectionsInStep`, `EndsInRoute` and `EditNotOverwritten`. In the other modules
the types are part of the inductive invariant (`RingInv`, `BridgeInv`,
`SeqlockInv`, `PresetInv`), which is proved for all constants (section 4) and
needs no run. `FileIsFaithful` is made of `FileAligned`, `HeaderMatchesFile` and
`FileHasOwnFrames`; `DescriptorsInOrder` of `ShutdownHitsOpenSocket` and
`NoDescriptorLeak`.

Why the bounds are enough:

* the ring: with two slots and three laps per wrap of the counters, full,
  empty, wrapped and stale views occur in every combination; three values tell
  a swapped, repeated and lost item apart. Nothing else is bounded: the state
  space is finite by itself, and the proofs cover every size.
* the bridge: a ring of two stereo frames is full after two callbacks; six frames
  go round it three times, so drops and silence precede and follow each other.
  `MaxFrames` and `MaxMissing` bound the two counters that never decrease.
* `recorder`: a ring of two stereo frames overflows in one block of two with one
  frame left; two recordings are what is needed for one to leak into the next.
  Counters saturate instead of stopping the audio thread, so `StopReturns` is
  checked against a callback that never pauses.
* the seqlock: three updates during a read suffice for a cell from before, one
  from during and one from after.
* the engine: two values tell an old setting from a new one; the configurations
  cover both channel counts and the failing load of each stage. Nothing is
  bounded: the server thread calls as often as it likes, `main()` once, as in the
  program.
* the playback callback: a block smaller than the scratch buffer and one of a whole and a
  part of it; beats closer than a block and as far apart; two loads are an old
  model and a new one. No counter is bounded but the loads.
* the control server: the second client is there to wait in the backlog; three
  requests are a call before a quit and one behind it, in one `recv` or in several.
* `engine_controller`: two calls race, the third finds what they left. Workers
  are interchangeable, which the symmetry uses; no liveness is checked there.
* `pipewire`: an operation of interest comes third, after two that may have
  overlapped, failed or lost their Guitarix. An event is an operation that begins
  while another runs, a crash, an unplugged device or a changed configuration;
  one of them per behaviour keeps the state space small. The second process is
  the one that a wrapper not yet found by `pgrep` makes possible. A stereo and a
  mono output have two and one direct links.
* `web_panel`: of two requests one overtakes the other, a stale answer meets a
  newer one, and a failure an answer. Two bands are one the user moves and one he
  does not, or has moved before. Two events are an edit of each band, an edit followed
  by a start, a failure or the end of the engine, or a restart of the server;
  hiding, polling and the sliders' pressing and focus are not bounded.
* the presets: two requests and the installer race for one file, the third finds
  what they left; a second installation finds edits of the first; with two names
  the installer stands at one while the user edits the other.

Deadlock is checked in `audio`, `stream`, `recording`, `metronome` and `web_panel`. In
the other runs the system may stop: the bridge alone (`alignment`), `EngineController`,
`PipeWire` and `Presets` when their bounds are used up, `ControlServer` when all clients
are gone and the owner sleeps in `wait()` without having been woken or when the process
has ended, `Recorder` when the process has ended because no worker could be created.
In `stream` the bridge may stay where it is when its bounds are used up. `Engine` ends
when the process does, which `Exited` says.

### What the violated properties say

Five sentences of the repository are not true of the code. Each has a run of its
own, and a finding in `PROJECT.json` with the places.

* `alignment`: `bridge.hpp:12-14` says that "whole frames are dropped or inserted at
  the edges instead of letting the buffer overflow and corrupt channel alignment".
  `size()` seen by `write` in the middle of a frame's pops rounds down to one frame
  less than is still there (`bridge.hpp:23`); `write` then accepts a frame for which
  there is not quite room, the last `push` is refused unnoticed, and all later frames
  have their channels shifted. A single channel cannot be hit (`MonoLosesNothing`).
* `recording`: `engine.hpp:72` says "Recording taps the final interleaved output", and
  that a recording outlives a restart. A restart with another channel count keeps it
  going with frames of the old width, so that `Recorder::write` strides beyond the
  block, or leaves a part of it out.
* `metronome`: `engine.cpp:200` calls `Metronome::process` only while the
  metronome is enabled, so `process` never sees that it was switched off and
  leaves `active_` set. Switched on again it finishes the old interval before it
  clicks; `metronome.hpp:12` says "The first beat after enabling is immediate."
* `process_line`: `test_control_server.cpp:425` says "protocol errors are reported and do
  not kill the connection". `process_line` expects a `parse_error`, but `json::parse`
  refuses a number that is too large with an `out_of_range`, which nobody catches on
  the server thread. What holds all the same is `ConnectionKept` and `ReturnsWhenTold`.
* `wait`: `test_control_server.cpp:471` says "quit acknowledges and unblocks wait()".
  `request_stop` clears `running` and notifies without `wait_mutex`, so the notification
  may fall between the test and the sleep of `wait()`, which then sleeps on. The
  program itself does not call `wait()`: `main()` polls `running()`.

### What the passing properties leave out

These behaviours are in the models, and in the passing runs, as exceptions that
the properties name:

* `overlapped` in `Engine`: `main.cpp:70` calls `engine.start` without the mutex
  after the control server is up. A `start` request served at that moment
  initialises the devices a second time over live ones.
* `adrift` in `Playback` (`BeatsInTime`): see the violated property of `metronome`.
* `straddled` (`FileHasOwnFrames`, `FileAligned`): a `write` that passed its test
  of `active_` before `stop()` cleared it may push after the last drain, and
  what it pushes starts the next file.
* `overtaken` (`NoTornRead`, `NoStaleRead`): the orders of the C++ memory model
  do not keep a cell's store behind the odd version.
* `overlapped` in `EngineController` (`ShutdownLeavesNoEngine`, `ConnectionsInStep`):
  two calls at once may each find no process and spawn one; the controller remembers one of them.
* `terminated` (`ConnectionKept`, `FileHasOneOwner`): the process ends on an exception that
  nobody catches, with all it has; see `process_line` above, and `StartThrows`.
* a connection that is lost stays lost: a call that times out, or whose engine
  has died, leaves the client "connected", so no later call reconnects or
  respawns (`engine_controller.py:72`). `OwnResponse` and `ConnectionsInStep` hold all
  the same, because every further call raises.
* `raced` (`EditsSurvive`): a preset saved between the installer's test of its
  name and the rename is overwritten.
* `gave_up`, `abandoned` (`EndsInRoute`, `ToneSurvivesRestart`): when
  Guitarix does not exit within the twelve seconds of `_stop_guitarix`, the
  caller goes on as if it had; a start that follows takes the dying process
  for a running one.
* `unheard` (`ToneSurvivesRestart`): `_rpc` does not wait for an answer; a
  Guitarix slower than the fixed pauses is stopped before it has heard.
* `wrapper` (`ToneSurvivesRestart`): a Guitarix that is still its wrapper is not
  stopped, because `pgrep` does not find it, and appears afterwards.
* `wanted` (`EqReachesEngine`): every post of the panel says something of every band. A
  band that the user set, and that an answer from before has moved back on the screen
  before he edits another band, goes out as it stands on the screen; the engine has
  then lost the first of the two edits. The same befalls a drag that ends without
  a `change` event, when an answer comes before the timer posts. The property speaks of
  what a post carries as the user set it. Besides, two posts under way that
  disagree may be handled in either order, the panel's Start sends no EQ and so makes it
  flat, and a post that fails is not repeated. No document says what the panel owes
  to an edit.
* `Calm` (`PanelCatchesUp`): the answer to a gain shows a running engine as
  stopped until the next poll, and an old answer may be shown after a newer one;
  the property speaks of what the card shows in the end. When the server has lost
  the engine, what the card shows in the end is that it is offline, for as long as
  the server runs: it never reconnects (see above).

Two things the models make simpler than they are:

* `ExposePorts` in `PipeWire` makes all ports of a Guitarix appear at once.
  `_wait_for_ports` (`pipewire.py:183-185`) looks for `amp:in_0` and `fx:out_1` only; that a
  link is tried to another port which is not there yet is not in the model.
* A `RuntimeError` of a client that is not connected (`CallNotConnected`) would escape the
  `except` of `shutdown()` (`engine_controller.py:119`). In the model, as in the program,
  `shutdown()` calls `quit` only after it found a socket, and runs when no worker is left
  that could close it.

### Fairness

* `Recorder`: weak fairness of the worker, of `stop()`'s steps and of a `write`
  under way: each is a thread that runs, blocked by nothing but the join. New
  calls of `start`, `stop` or `write` need never come.
* `Seqlock`: weak fairness of the reader and of the stores of an update under
  way; new updates and reads need never begin, and an endless stream of updates
  is excluded by `MaxUpdates`, not by fairness: `ReadReturns` says that a read
  ends once the updates pause.
* `ControlServer`: weak fairness of the server thread except for a response to a
  client that does not read (`SendOk` has none), and of the owner inside `stop`
  and on its way out of `wait`. `poll` has a timeout, so the server thread runs
  whether or not a client does anything. Clients have no fairness.
* `WebPanel`: weak fairness of the poll timer, of the handling, failing and delivery of
  each request and of the socket's steps: the browser fires its timers, and a
  request is answered or fails. Strong fairness of the EQ's delayed post: a
  place among the requests under way may be taken by polls again and again, and
  a browser sends in the order it was asked. The user has no fairness, and a
  server that is down need not come back: `PillIsTrue` and `PanelCatchesUp` are
  conditional on what the user and the server do in the end.

`Bridge`, `SpscRing`, `Engine`, `Playback`, `EngineController`, `PipeWire` and
`Presets` have safety properties only.

## 4. Proofs

All theorems hold for every value of the constants that satisfies the module's
named assumption. Every safety property of the passing runs is one of them.
Liveness under fairness and ENABLED are beyond the prover: `StopReturns`,
`QuitStops`, `ReadReturns`, `EqReachesEngine`, `PanelCatchesUp`
and `PillIsTrue` stay with TLC.

**AudioProofs** about `SpscRing` (assumption `RingAssumption`: the capacity
divides the range of the counters and is smaller than it).

* `RingInvariant`: `Spec => []RingInv`. `RingInv` is inductive: besides the types
  it says that tail-as-seen, tail, head-as-seen and head follow each other within
  one lap (`WindowOrdered`), and that a thread inside an operation holds its slot
  (`SlotsHeld`). Without the first, a stale view could be a lap old, and its
  difference would mean nothing.
* `RingNoDataRace`, `RingSizeIsSafe`: consequences of it.
* `RingImplementsFifo`: `Spec => FifoSpec`. Each step maps to a step of `Fifo` or
  a stutter; lemmas about modular counters carry the argument.

**BridgeProofs** (`BridgeAssumption`: positive sizes).

* `BridgeInvariant`: `BridgeSpec => []BridgeInv`: types, the reader's reservation
  (`rLeft` is covered by what is certainly in the queue), the writer's in the mono
  case, and the account of samples.
* `BridgeReadNeverStarved`, `BridgeMonoLosesNothing`, `BridgeAccounted` follow.
  The products of frames and channels are the hard part for the provers; they
  are isolated in lemmas.
* `BridgeStream`: `BridgeSpec => []StreamInv`, about the stream the reader sees, which
  is what it got so far followed by the queue. Any two of its samples are in order
  (`OrderInv`, pairwise, since consecutive ones are not enough when the next is
  appended behind samples that were dropped), and all lie before the sample
  `write()` pushes next, of which it has whole frames left (`WriterInv`).
  `BridgeInOrder` follows.

**RecorderProofs** (`RecorderAssumption`: positive sizes; a frame of every channel
count fits into the ring).

* `RecorderInvariant`: `Spec => []RecorderInv`, with one part per agreement of the
  three threads. `HandoverInv` ties the flags to the steps of control and worker,
  among them the step at which `write()` is let in and there is no worker yet;
  `WriteInv` says that the frame being pushed fits; `BatchInv` that the batch is in
  the ring and is whole frames; `FileInv` that the file and the counter of its
  frames go along, though both saturate (`SaturatedFrames`); `OwnInv` that without
  a `write()` that outlives its recording the worker leaves an empty ring; and
  `PhaseInv` that from the batch through the ring to the sample pushed next the
  channels alternate. The parts need each other: that the ring is empty at the
  end (`OwnInv`) rests on its holding whole frames once nobody writes (`PhaseInv`),
  since the pump stops at less than one frame. `PhaseInv` is conditional on `OneWidth`:
  without it a late `write()` brings in frames of another width, which is the
  exception `FileAligned` makes.
* `RecorderFrameFits`, `RecorderFileOwner`, `RecorderFileFaithful` follow.

**AudioProofs** about `Seqlock` (`SeqlockAssumption`: finitely many cells, at
least one). The module extends the three models of what the audio callbacks run on,
which is why the definitions that would clash have names of their own: `LockInit`,
`LockNext`, `LockSpec` and `LockTypes` in `Seqlock`, `PlaybackInit` and so on in
`Playback`.

* `SeqlockInvariant`: as long as nothing was overtaken, the version tells how far
  an update has come, and a reader whose version is still current has only cells
  of that version.
* `SeqlockNoTornRead`, `SeqlockNoStaleRead` follow.

**ServerProofs** about `Presets` (`PresetAssumption`: the installer is not a thread of the
server; the contents of files are told apart; some preset is bundled).

* `PresetInvariant`: `Spec => []PresetInv`. Besides the types it says what an
  actor holds at each label (`Held`: a temporary file exists exactly while it is
  written or about to be renamed, and is whole when it is about to be), that
  what the installer is about to overwrite is nothing the user wants unless it
  was saved after the test (`TestHolds`), and that the one apply under way has
  set whatever it has not left to set (`Progress`). Without `Held` a rename could
  bring in half a file; without `TestHolds` the installer could overwrite an
  edit; without `Progress` the last of the five calls would prove nothing of the
  four before.
* `PresetsStayWhole`, `PresetEditsSurvive`, `PresetAppliedWhole` follow.

**EngineControllerProofs** (`ControllerAssumption`: finitely many worker threads,
of which the application's is none).

* `ControllerInvariant`: `Spec => []ControllerInv`, for any number of threads and of
  calls. `ThreadsInv`: `shutdown()` starts when nobody else is at work, and while
  calls come one at a time one thread at most is. `HoldsInv`: what a thread has at
  each label, so that a worker that calls has a socket, and a connection that
  nobody made carries nothing. `CountInv` counts, besides the requests and
  responses on a connection, the threads that have still to write one: without
  them a bound by the number of calls would not survive a write. `LifeInv`: one
  call at a time, an engine that lives is the one in `_process`, which is
  remembered only while there is a socket or a thread that will make one or will
  terminate the engine; that is why `shutdown()` misses none, although it does no
  more than look at the socket and the process. `SyncInv`: one call at a time, a
  stream that no timeout has struck carries the request or the response of the
  thread that waits, and nothing when nobody waits. `CallOverKeeps` is the common
  part of the four ways in which a call may end.
* `ControllerOwnResponse`, `ControllerInStep`, `ControllerLeavesNoEngine` follow.

**EngineProofs** (`EngineAssumption`: at least one caller takes the mutex, and
there is a value to set; `ConfigAssumption`: configurations are records of
`Config`, none of which is `None`).

* `EngineInvariant`: `Spec => []EngineInv`. That start() cleans up after itself at
  each of nine places is one statement per place, `DeviceInv`: which devices, units
  and context are there at each step of the only call. It holds, like `CallInv`
  (there is only one call) and `SettingsInv` (the units have what was
  requested), as long as `~overlapped`: the theorems are about callers of whom no
  two are inside at once, which for the callers that take the mutex is always.
  `GoalInv` holds without that condition. Without `DeviceInv` a callback could, for all one knew, run at a
  step where the units are gone.
* `EngineOneDevicePair`, `EngineCallbacks`, `EngineAllOrNothing` follow, and `EngineSettings`, the action property, because
  a step that ends `running` is a step of the first release, where `SettingsInv`
  says that the units and the requested settings agree.

**AudioProofs** about `Playback` (`PlaybackAssumption`: block, scratch buffer and beat lengths
are positive).

* `PlaybackInvariant`: `Spec => []PlaybackInv`. `OwnersInv` says who owns each model
  (a stage, the callback, the loading, or nobody, when it is freed), `BlockInv`
  what was done to each frame of the block at each step (`DoneTo`), `BeatInv` that
  the frames since the last beat and those until the next add up to the
  interval from wherever the callback is in the block (`Position`), not only between
  blocks, where `BeatsInTime` speaks.
* `PlaybackModels`, `PlaybackBlocks`, `PlaybackBeats` follow.

**ServerProofs** about `ControlServer` (`ControlServerAssumption`).

* `ServerInvariant`: `Spec => []ServerInv`. `ConnectionInv` says which descriptor
  the server thread has open at each of its steps and that the published one is
  the same, `StopInv` that the flag falls before the sockets are shut down, and
  `InboxInv` that no more is unread than was sent. Without `StopInv` a failed `accept`
  could end the thread while `running` is still set.
* `ServerDescriptors`, `ServerReturns` follow. `ServerKeepsConnections`, the action
  property, rests on `DropInv` too: once `handle_client` is left, the client has hung up or
  the server has been told to stop.

**PipeWireProofs** (`PipeWireAssumption`: an output has at least one port, the ports
of different devices and of Guitarix are different, and no device is the value
that stands for none; the code has this from PipeWire, which names a port after
its node, and from `_validate_route`, which takes an output without ports for absent).

* `RoutesInvariant`: `Spec => []RoutesInv`, for any threads, devices, ports and tones
  and any number of Guitarix processes, operations and events. `PlanInv` says that what
  an operation has left to do are the last steps of its plan, so that each step
  knows which went before (`Done`), and that of two operations at once both know
  it. For each operation the rest says how far it has come, with the troubles that
  excuse it: `DryInv` with the direct links (removed so far, gone, made so far,
  all), `StopInv` that a Guitarix that was stopped has left no link, `DyingInv`
  that one that was told to stop is waited for or was given up on, `AmpInv` with the
  chain through the amplifier and that its Guitarix is there to stay, `StatusInv`
  that what `status()` saw of the links first still agrees with what it finds of the
  process later, and `ToneInv` with the two Guitarix processes of a `load_tone`: none,
  a fresh one, one with the first request, with both heard or still to hear, none
  with the tone saved, and the second with it.
* The argument goes by who takes the step. A step of the operation itself disturbs
  the conjuncts about the step it completes, one lemma per step. A step of Guitarix, of
  PipeWire or of the user either respects them or is a trouble that every operation
  under way is charged with. An operation that overlaps another claims nothing, so
  a step of one thread has nothing to respect in another's, and an outcome is kept
  only while nobody is at work.
* Why it is needed: `EndsInRoute` speaks of the end alone. Without `DyingInv`,
  `connect_amp` could wire a Guitarix that is about to exit; without `DryInv`'s
  clause on the loop, a direct link that was there before would survive
  `_unlink_direct`; without `ToneInv`'s account of the inbox the first Guitarix
  could save half a tone.
* `RoutesEnd` (`EndsInRoute`) and `ToneSurvives` (`ToneSurvivesRestart`) follow.

**WebPanelProofs** (`WebPanelAssumption`: the EQ of a new engine is a position of
the sliders; `EnginesAssumption`: what may run when the page is loaded has one too).

* `PanelInvariant`: `Spec => []PanelInv`, for any bands and slider positions, and any
  number of requests under way and of events. `RequestsInv` says what a request brings: an EQ
  post has the sliders' positions, so that the engine never gets none, and an answer
  about the engine has a status to show. `HandInv` is what the property lacks to be
  inductive: when a slider was moved, the user has one of them in his hand or focused.
  Without it `renderEngineStatus`, which leaves the sliders alone only while one is in the hand or has
  the focus, could move it.
* `PanelKeepsEdits` follows. The proof does not ask which answer comes when, nor to
  which request: it shows that the guard in `renderEngineStatus` and the handlers
  that set and clear the hand are enough for any order.

## 5. What is not modelled

* DSP, pitch detection, spectrum, neural inference, WAV sample conversion:
  numerical code on one thread. `process_line` beyond `quit` and the line that
  `json::parse` throws on: what its calls do is in `Engine`; the checking of JSON
  parameters is planned.
* `Metronome::process`'s click, and the two stores of `set_metronome` as seen by
  a chunk in between are in `Playback` as two steps; the tempo is an interval,
  the conversion from beats per minute and the clamps are not modelled.
* The panel's lists, tuner and spectrum readouts: they show what the last answer
  brought. The command line and the lazy creation of the controller.
* `architecture.md:11` asks that the server can be restarted without
  interrupting audio. `EngineController`'s shutdown ends the engine, so a
  restart does interrupt it; this is the design principle of a document against
  a deliberate behaviour of the code, and no property speaks of it.
* The volume and the level measurement of the PipeWire backend, and the parsing
  of its tools' output. That a configuration changed between two operations
  leaves the links of the old one is in the model, and no property speaks of it.
* A power failure: files are renamed without `fsync`. `migrate_legacy_if_needed`
  has no caller in the program.
* Stub and placeholder backends, model registry, tuner and level arithmetic,
  shell and PowerShell scripts, the device query.
* The file descriptor of the listening socket, closed under the server thread's
  poll: the model has the failing `accept` that follows, not the reuse of the
  number by another file.

## 6. Plan

1. *Done:* ring, bridge, recorder, seqlocks, engine with `main()`, playback
   callback and metronome, control server, controller, presets, PipeWire backend,
   web panel; proofs for all of them.
2. The validation in `process_line` and `apply_start_params`
   (`control_server.cpp`), with the integers' conversions and the two separate
   holds of the engine's mutex, against what each method promises.
3. The threads of `api/engine.py` that create the controller, composed with
   `EngineController`.
4. Pure algorithms against reference definitions: the command line.
