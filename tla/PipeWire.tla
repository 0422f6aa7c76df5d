------------------------------ MODULE PipeWire ------------------------------
(***************************************************************************)
(* PipeWireBackend (backends/pipewire.py): routes the guitar straight to   *)
(* an output, or through a Guitarix process, by making and removing links  *)
(* between ports and by starting and stopping the process.  The operations *)
(* run on the threads of the HTTP application, with no lock among them,    *)
(* and each works with the configuration it loaded when it began.          *)
(*                                                                         *)
(* An operation is a plan: the sequence of steps it has yet to take, each  *)
(* at most one command that changes something.  The environment unplugs    *)
(* devices, changes the configuration, lets Guitarix crash, and takes its  *)
(* time.  Results of pw-link are not looked at by the code; here a link is *)
(* made if both ports exist.  The abandoned processes, the troubles of an  *)
(* operation and its outcome are history variables.                        *)
(***************************************************************************)
EXTENDS Naturals, Sequences

CONSTANTS Threads,    \* the threads that serve HTTP requests
          Sources,    \* the guitar inputs, each with one channel
          Outputs,
          Ports,      \* the playback ports of each output, left and right first
          Configs,    \* the configurations the user may save
          Tones,
          Unset,      \* no device, no tone
          MaxProcs,   \* bound: Guitarix processes at once
          MaxOps,     \* bound: operations in a behaviour
          MaxEvents   \* bound: operations that begin while another runs, crashes,
                      \* unplugged devices and saved configurations

Devices == Sources \cup Outputs
Config == [source : Sources \cup {Unset}, output : Outputs \cup {Unset}]
Procs == 1 .. MaxProcs
GxPorts == {"amp_in", "amp_out", "fx_in", "fx_out_0", "fx_out_1"}
PortsOf(d) == IF d \in Outputs THEN {Ports[d][i] : i \in DOMAIN Ports[d]} ELSE {d}

\* A port is named after its device, and Guitarix is none of the devices.  An output
\* without a port is not found, as one that is not there.
ASSUME PipeWireAssumption ==
  /\ Configs \subseteq Config
  /\ Sources \cap Outputs = {} /\ Unset \notin Devices \cup GxPorts
  /\ \A d \in Outputs : Ports[d] # <<>> /\ Ports[d] \in Seq(PortsOf(d))
  /\ \A d \in Devices : PortsOf(d) \cap (GxPorts \cup {Unset}) = {}
  /\ \A d, e \in Devices : d # e => PortsOf(d) \cap PortsOf(e) = {}
  /\ MaxProcs \in Nat /\ MaxOps \in Nat /\ MaxEvents \in Nat

VARIABLES
  config,    \* the saved configuration
  present,   \* the devices plugged in
  links,     \* pairs of ports
  proc,      \* the Guitarix processes
  saved,     \* the tone Guitarix starts with: it saves its settings on exit
  req,       \* each thread: the operation it runs
  abandoned, \* processes that were told to stop and not waited for any longer
  last,      \* the outcome of the operation that ended last, until the next begins
  ops, events

external == <<config, present, proc, saved>>
bounds == <<ops, events>>
vars == <<external, links, req, abandoned, last, bounds>>

NewTone == [preset |-> Unset, params |-> Unset]
NoProc == [state |-> "none", rpc |-> FALSE, ports |-> FALSE, tone |-> NewTone, inbox |-> <<>>]
IdleReq == [op |-> "none", tone |-> Unset, config |-> [source |-> Unset, output |-> Unset],
            plan |-> <<>>, made |-> 0, seen |-> {}, route |-> "off", trouble |-> {}]

Init ==
  /\ config \in Configs /\ present = Devices
  /\ links = {} /\ proc = [p \in Procs |-> NoProc] /\ saved = NewTone
  /\ req = [t \in Threads |-> IdleReq]
  /\ abandoned = {} /\ last = IdleReq /\ ops = 0 /\ events = 0

-----------------------------------------------------------------------------
(* What the commands see and say.                                          *)

\* pgrep finds guitarix by name: not while it is still the pw-jack wrapper.
Running == {p \in Procs : proc[p].state \in {"running", "dying"}}
WithPorts == {p \in Procs : proc[p].ports}
RpcOpen == {p \in Running : proc[p].rpc}
Exists(port) == \/ \E d \in present : port \in PortsOf(d)
                \/ port \in GxPorts /\ WithPorts # {}

\* pick_stereo_ports(): with one port both channels go there.
PickStereo(d) == <<Ports[d][1], Ports[d][IF Len(Ports[d]) > 1 THEN 2 ELSE 1]>>

DirectLinks(c) ==
  LET lr == PickStereo(c.output) IN
  IF lr[1] = lr[2] THEN <<<<c.source, lr[1]>>>>
  ELSE <<<<c.source, lr[1]>>, <<c.source, lr[2]>>>>

AmpLinks(c) ==
  LET lr == PickStereo(c.output) IN
  << <<c.source, "amp_in">>, <<"amp_out", "fx_in">>,
     <<"fx_out_0", lr[1]>>, <<"fx_out_1", lr[2]>> >>

\* The links _unlink_direct() removes: to every playback port there is now.
Unlinked(c) ==
  IF c.source # Unset /\ c.output \in present
  THEN [i \in DOMAIN Ports[c.output] |-> <<c.source, Ports[c.output][i]>>]
  ELSE <<>>

Plan(op) ==
  CASE op = "direct" -> <<"validate", "stop", "unlink", "link_direct", "read_links", "read_engine">>
    [] op = "amp" -> <<"validate", "unlink", "start", "wait_ports", "wire_amp",
                       "read_links", "read_engine">>
    [] op = "disconnect" -> <<"unlink", "stop", "read_links", "read_engine">>
    [] op = "tone" -> <<"validate", "unlink", "stop", "start_rpc", "wait_rpc", "setpreset", "set",
                        "stop", "start", "wait_ports", "wire_amp">>

\* The route of a status, from the targets of the source seen before.
RouteSeen(r) ==
  IF r.config.source # Unset /\ Running # {} /\ r.seen \cap GxPorts # {} THEN "amp"
  ELSE IF /\ r.config.source # Unset /\ r.config.output \in present
          /\ r.seen \cap PortsOf(r.config.output) # {}
       THEN "direct" ELSE "off"

-----------------------------------------------------------------------------
(* Moving through a plan.                                                  *)

At(t, step) == req[t].plan # <<>> /\ Head(req[t].plan) = step
Busy == {t \in Threads : req[t].plan # <<>>}

\* r is the request with what its step has changed; its next step follows.
Advance(t, r) ==
  LET next == [r EXCEPT !.plan = Tail(@), !.made = 0] IN
  IF next.plan # <<>> THEN req' = [req EXCEPT ![t] = next] /\ UNCHANGED last
  ELSE /\ req' = [req EXCEPT ![t] = IdleReq]
       /\ last' = IF "overlap" \in r.trouble THEN last ELSE next

\* One round of a loop over todo is done.
Loop(t, todo) ==
  IF req[t].made + 1 < Len(todo)
  THEN req' = [req EXCEPT ![t].made = @ + 1] /\ UNCHANGED last
  ELSE Advance(t, req[t])

\* Another step in place of this one.
Instead(t, step) == req' = [req EXCEPT ![t].plan = <<step>> \o Tail(@)] /\ UNCHANGED last
Raise(t) == req' = [req EXCEPT ![t] = IdleReq] /\ UNCHANGED last

\* Of an operation that overlaps another, no more is said than that.
Troubled(r, what) ==
  [r EXCEPT !.trouble = IF "overlap" \in @ \cup what THEN {"overlap"} ELSE @ \cup what]

\* Something happens to all operations under way, and to the outcome of the last.
Disturb(what) ==
  req' = [t \in Threads |-> IF t \in Busy THEN Troubled(req[t], what) ELSE req[t]]

Begin(t, op, tone) ==
  /\ t \notin Busy /\ ops < MaxOps /\ (Busy = {} \/ events < MaxEvents)
  /\ ops' = ops + 1
  /\ events' = IF Busy = {} THEN events ELSE events + 1
  /\ LET new == [IdleReq EXCEPT !.op = op, !.tone = tone, !.config = config, !.plan = Plan(op)]
         both == IF Busy = {} THEN {} ELSE {"overlap"}
         spawning == IF \E p \in Procs : proc[p].state = "wrapper" THEN {"wrapper"} ELSE {}
     IN req' = [u \in Threads |-> IF u = t THEN Troubled(new, both \cup spawning)
                                  ELSE IF u \in Busy THEN Troubled(req[u], both) ELSE req[u]]
  /\ last' = IdleReq
  /\ UNCHANGED <<external, links, abandoned>>

Validate(t) ==
  /\ At(t, "validate")
  /\ IF {req[t].config.source, req[t].config.output} \subseteq present
     THEN Advance(t, req[t]) ELSE Raise(t)
  /\ UNCHANGED <<external, links, abandoned, bounds>>

Unlink(t) ==
  /\ At(t, "unlink")
  /\ LET todo == Unlinked(req[t].config) IN
     /\ links' = IF todo = <<>> THEN links ELSE links \ {todo[req[t].made + 1]}
     /\ Loop(t, todo)
  /\ UNCHANGED <<external, abandoned, bounds>>

Link(t, step, todo) ==
  /\ At(t, step)
  /\ LET l == todo[req[t].made + 1] IN
     links' = IF Exists(l[1]) /\ Exists(l[2]) THEN links \cup {l} ELSE links
  /\ Loop(t, todo)
  /\ UNCHANGED <<external, abandoned, bounds>>

\* Mutant: does not wait for the processes to go.
Stop_SignalOnly(t) ==
  /\ At(t, "stop")
  /\ proc' = [p \in Procs |-> IF p \in Running THEN [proc[p] EXCEPT !.state = "dying"]
                                               ELSE proc[p]]
  /\ Advance(t, req[t])
  /\ UNCHANGED <<config, present, links, saved, abandoned, bounds>>

\* Mutant: pkill -9, which leaves Guitarix no time to save its settings.
Stop_Kill(t) ==
  /\ At(t, "stop")
  /\ proc' = [p \in Procs |-> IF p \in Running THEN NoProc ELSE proc[p]]
  /\ links' = {l \in links : {l[1], l[2]} \cap GxPorts = {}}
  /\ abandoned' = {}
  /\ Advance(t, req[t])
  /\ UNCHANGED <<config, present, saved, bounds>>

\* _stop_guitarix(): pkill signals every process pgrep would find.
Stop(t) ==
  /\ At(t, "stop")
  /\ IF Running = {} THEN Advance(t, req[t]) /\ UNCHANGED proc
     ELSE /\ proc' = [p \in Procs |-> IF p \in Running THEN [proc[p] EXCEPT !.state = "dying"]
                                                       ELSE proc[p]]
          /\ Instead(t, "await_stop")
  /\ UNCHANGED <<config, present, links, saved, abandoned, bounds>>

\* It returns when no process is left, and also when its attempts are used up.
AwaitStop(t) ==
  /\ At(t, "await_stop")
  /\ IF Running = {} THEN Advance(t, req[t]) /\ UNCHANGED abandoned
     ELSE Advance(t, Troubled(req[t], {"gave_up"})) /\ abandoned' = {p \in Procs : proc[p].state = "dying"}
  /\ UNCHANGED <<external, links, bounds>>

\* _start_guitarix(): one that runs, whatever it is about to do, is enough.
Start(t, step, rpc) ==
  /\ At(t, step)
  /\ IF Running # {}
     THEN Advance(t, Troubled(req[t], IF Running \cap abandoned # {} THEN {"abandoned"} ELSE {}))
     ELSE Instead(t, IF rpc THEN "spawn_rpc" ELSE "spawn")
  /\ UNCHANGED <<external, links, abandoned, bounds>>

\* Popen raises when there is no such program.
Spawn(t, step, rpc) ==
  /\ At(t, step)
  /\ \/ \E p \in Procs :
          /\ proc[p].state = "none" /\ \A q \in Procs : q < p => proc[q].state # "none"
          /\ proc' = [proc EXCEPT ![p] = [NoProc EXCEPT !.state = "wrapper", !.rpc = rpc]]
          /\ Advance(t, req[t])
     \/ Raise(t) /\ UNCHANGED proc
  /\ UNCHANGED <<config, present, links, saved, abandoned, bounds>>

\* A wait finds what it waits for, or uses up its attempts: they last longer
\* than pw-jack takes to become guitarix.
Wait(t, step, found) ==
  /\ At(t, step)
  /\ \/ found /\ Advance(t, req[t])
     \/ (\A p \in Procs : proc[p].state # "wrapper") /\ ~found /\ Raise(t)
  /\ UNCHANGED <<external, links, abandoned, bounds>>

\* _rpc() raises when nobody listens; it does not wait for an answer.
Rpc(t, method) ==
  /\ At(t, method)
  /\ \/ \E p \in RpcOpen :
          /\ proc' = [proc EXCEPT ![p].inbox =
                        Append(@, [method |-> method, tone |-> req[t].tone])]
          /\ Advance(t, req[t])
     \/ RpcOpen = {} /\ Raise(t) /\ UNCHANGED proc
  /\ UNCHANGED <<config, present, links, saved, abandoned, bounds>>

Targets(source) == {l[2] : l \in {k \in links : k[1] = source}}

\* status() looks at the links first and at the process and the ports later.
ReadLinks(t) ==
  /\ At(t, "read_links")
  /\ Advance(t, [req[t] EXCEPT !.seen = Targets(req[t].config.source)])
  /\ UNCHANGED <<external, links, abandoned, bounds>>

ReadEngine(t) ==
  /\ At(t, "read_engine")
  /\ Advance(t, [req[t] EXCEPT !.route = RouteSeen(req[t]), !.seen = {}])
  /\ UNCHANGED <<external, links, abandoned, bounds>>

Step(t) ==
  \/ Validate(t) \/ Unlink(t) \/ Stop(t) \/ AwaitStop(t)
  \/ Link(t, "link_direct", DirectLinks(req[t].config))
  \/ Link(t, "wire_amp", AmpLinks(req[t].config))
  \/ Start(t, "start", FALSE) \/ Start(t, "start_rpc", TRUE)
  \/ Spawn(t, "spawn", FALSE) \/ Spawn(t, "spawn_rpc", TRUE)
  \/ Wait(t, "wait_ports", WithPorts # {}) \/ Wait(t, "wait_rpc", RpcOpen # {})
  \/ Rpc(t, "setpreset") \/ Rpc(t, "set") \/ ReadLinks(t) \/ ReadEngine(t)

Request(t) ==
  \/ \E op \in {"direct", "amp", "disconnect"} : Begin(t, op, Unset)
  \/ \E tone \in Tones : Begin(t, "tone", tone)

-----------------------------------------------------------------------------
(* Guitarix, PipeWire and the user.                                        *)

Launch(p) ==
  /\ proc[p].state = "wrapper"
  /\ proc' = [proc EXCEPT ![p].state = "running", ![p].tone = saved]
  /\ UNCHANGED <<config, present, saved, links, req, abandoned, last, bounds>>

\* The port names are unique: a second process does not get them.
ExposePorts(p) ==
  /\ proc[p].state = "running" /\ WithPorts = {}
  /\ proc' = [proc EXCEPT ![p].ports = TRUE]
  /\ UNCHANGED <<config, present, saved, links, req, abandoned, last, bounds>>

Handle(p) ==
  /\ p \in Running /\ proc[p].inbox # <<>>
  /\ LET m == Head(proc[p].inbox)
         tone == IF m.method = "setpreset" THEN [preset |-> m.tone, params |-> Unset]
                 ELSE [proc[p].tone EXCEPT !.params = m.tone]
     IN proc' = [proc EXCEPT ![p].inbox = Tail(@), ![p].tone = tone]
  /\ UNCHANGED <<config, present, saved, links, req, abandoned, last, bounds>>

Gone(p, what) ==
  /\ proc' = [proc EXCEPT ![p] = NoProc]
  /\ links' = IF proc[p].ports THEN {l \in links : {l[1], l[2]} \cap GxPorts = {}} ELSE links
  /\ abandoned' = abandoned \ {p}
  /\ IF what = {} THEN UNCHANGED <<req, last>> ELSE Disturb(what) /\ last' = IdleReq
  /\ UNCHANGED <<config, present, ops>>

\* A process that was told to stop saves its settings and goes.
Exit(p) ==
  /\ proc[p].state = "dying"
  /\ saved' = proc[p].tone
  /\ Gone(p, (IF p \in abandoned THEN {"died"} ELSE {})
             \cup (IF proc[p].inbox # <<>> THEN {"unheard"} ELSE {}))
  /\ UNCHANGED events

Crash(p) ==
  /\ proc[p].state # "none" /\ events < MaxEvents /\ events' = events + 1
  /\ Gone(p, {"died"}) /\ UNCHANGED saved

Unplug(d) ==
  /\ d \in present /\ events < MaxEvents /\ events' = events + 1
  /\ present' = present \ {d}
  /\ links' = {l \in links : {l[1], l[2]} \cap PortsOf(d) = {}}
  /\ Disturb({"unplugged"}) /\ last' = IdleReq
  /\ UNCHANGED <<config, proc, saved, abandoned, ops>>

Plug(d) ==
  /\ d \notin present
  /\ present' = present \cup {d}
  /\ Disturb({"unplugged"}) /\ last' = IdleReq
  /\ UNCHANGED <<config, proc, saved, links, abandoned, bounds>>

PutConfig(c) ==
  /\ c # config /\ events < MaxEvents /\ events' = events + 1
  /\ config' = c
  /\ UNCHANGED <<present, proc, saved, links, req, abandoned, last, ops>>

Environment ==
  \/ \E p \in Procs : Launch(p) \/ ExposePorts(p) \/ Handle(p) \/ Exit(p) \/ Crash(p)
  \/ \E d \in Devices : Unplug(d) \/ Plug(d)
  \/ \E c \in Configs : PutConfig(c)

Next == Environment \/ \E t \in Threads : Request(t) \/ Step(t)
Spec == Init /\ [][Next]_vars

-----------------------------------------------------------------------------
(* Properties.                                                             *)

\* Every variable has its type; links have ends, ports a running Guitarix.
Steps == {"validate", "unlink", "link_direct", "stop", "await_stop", "start", "spawn",
          "wait_ports", "wire_amp", "start_rpc", "spawn_rpc", "wait_rpc", "setpreset",
          "set", "read_links", "read_engine"}
Troubles == {"overlap", "wrapper", "gave_up", "abandoned", "died", "unheard", "unplugged"}
Tone == [preset : Tones \cup {Unset}, params : Tones \cup {Unset}]
Message == [method : {"setpreset", "set"}, tone : Tones \cup {Unset}]
Process == [state : {"none", "wrapper", "running", "dying"}, rpc : BOOLEAN,
            ports : BOOLEAN, tone : Tone, inbox : Seq(Message)]
AllPorts == GxPorts \cup UNION {PortsOf(d) : d \in Devices}
Operation == [op : {"none", "direct", "amp", "disconnect", "tone"},
              tone : Tones \cup {Unset}, config : Config, plan : Seq(Steps), made : Nat,
              seen : SUBSET AllPorts, route : {"off", "direct", "amp"},
              trouble : SUBSET Troubles]
TypeOK ==
  /\ config \in Configs /\ present \subseteq Devices /\ saved \in Tone
  /\ links \subseteq AllPorts \X AllPorts
  /\ \A l \in links : Exists(l[1]) /\ Exists(l[2])
  /\ proc \in [Procs -> Process] /\ WithPorts \subseteq Running
  /\ req \in [Threads -> Operation] /\ last \in Operation
  /\ \A t \in Threads : t \notin Busy => req[t] = IdleReq
  /\ abandoned \subseteq {p \in Procs : proc[p].state = "dying"}
  /\ ops \in 0 .. MaxOps /\ events \in 0 .. MaxEvents

\* An operation has returned, and none of these troubles befell it.
Ended(names, troubles) == last.op \in names /\ last.trouble \cap troubles = {}
Playback(c) == IF c.output = Unset THEN {} ELSE PortsOf(c.output)
Dry(c) == {l \in links : l[1] = c.source /\ l[2] \in Playback(c)}
Wet == {l \in links : {l[1], l[2]} \cap GxPorts # {}}
AsSet(s) == {s[i] : i \in DOMAIN s}

\* A connect_direct leaves the guitar on the output and nothing on the
\* amplifier, and says so.  Left out: Guitarix did not stop in time.
DirectIsDry ==
  Ended({"direct"}, {"overlap", "gave_up", "unplugged"}) =>
    Dry(last.config) = AsSet(DirectLinks(last.config)) /\ Wet = {} /\ last.route = "direct"

\* A connect_amp or load_tone leaves the whole chain through a Guitarix that is
\* there to stay and no way around it, though neither looks at the result of a
\* link.  Left out: Guitarix died meanwhile, or one that had been given up on
\* was found and taken for a running one.
AmpIsWet ==
  Ended({"amp", "tone"}, {"overlap", "abandoned", "died", "unplugged"}) =>
    /\ AsSet(AmpLinks(last.config)) \subseteq links /\ Dry(last.config) = {}
    /\ \A p \in WithPorts : proc[p].state = "running"
    /\ last.op = "amp" => last.route = "amp"

\* A disconnect leaves no way from the configured input to the configured
\* output, and none through the amplifier, and says so.
DisconnectSilences ==
  Ended({"disconnect"}, {"overlap", "gave_up", "unplugged"}) =>
    Dry(last.config) = {} /\ Wet = {} /\ last.route = "off"

\* Whatever state earlier operations, overlapping ones included, have left: an
\* operation that runs alone, while no device is plugged in or out, ends in
\* the route it is named for.
EndsInRoute == TypeOK /\ DirectIsDry /\ AmpIsWet /\ DisconnectSilences

\* After a load_tone, which sets the tone in one Guitarix, stops it and starts
\* another, that other one has the tone.  Left out besides: the fixed pauses
\* were too short for the first one to hear both requests, and a Guitarix of
\* earlier, overlapping operations was still about to appear.
ToneSurvivesRestart ==
  Ended({"tone"}, {"overlap", "gave_up", "abandoned", "died", "unheard", "wrapper"}) =>
    \A p \in WithPorts : proc[p].tone = [preset |-> last.tone, params |-> last.tone]
-----------------------------------------------------------------------------
(* The inductive invariant of the safety properties.                       *)

\* The plan of r no longer has that step; what it has are the last steps of the
\* operation, the first of them perhaps replaced by what it led to.
Done(r, step) == \A i \in DOMAIN r.plan : r.plan[i] # step
Ready(r, step) == r.plan # <<>> /\ Head(r.plan) = step
InPlaceOf(step) ==
  CASE step = "stop" -> {"stop", "await_stop"} [] step = "start" -> {"start", "spawn"}
    [] step = "start_rpc" -> {"start_rpc", "spawn_rpc"} [] OTHER -> {step}
OnPlan(r) ==
  IF r.op = "none" THEN r = IdleReq
  ELSE LET whole == Plan(r.op)
           gone == Len(whole) - Len(r.plan) IN
       /\ gone >= 0
       /\ \A i \in DOMAIN r.plan : IF i = 1 THEN r.plan[i] \in InPlaceOf(whole[gone + i])
                                              ELSE r.plan[i] = whole[gone + i]

MadeInv(r) ==
  /\ Ready(r, "link_direct") => r.made < Len(DirectLinks(r.config))
  /\ Ready(r, "wire_amp") => r.made < Len(AmpLinks(r.config))

\* Every thread is on its plan; of two that are busy both know it; an outcome is kept
\* only while nobody is.
PlanInv ==
  /\ \A t \in Threads : OnPlan(req[t]) /\ MadeInv(req[t])
  /\ OnPlan(last) /\ last.plan = <<>>
  /\ \A t, u \in Busy : t # u => "overlap" \in req[t].trouble
  /\ Busy # {} => last = IdleReq

\* A Guitarix that was told to stop is waited for, or was given up on.
DyingInv ==
  (\A t \in Threads : ~At(t, "await_stop")) =>
    \A p \in Procs : proc[p].state = "dying" => p \in abandoned

Clean(r, troubles) == r.trouble \cap troubles = {}

\* How far an operation has come with the dry links.
DrySoFar(r) ==
  IF r.op # "direct" THEN {}
  ELSE IF Done(r, "link_direct") THEN AsSet(DirectLinks(r.config))
  ELSE {DirectLinks(r.config)[i] : i \in 1 .. r.made}
DryInv(r) ==
  r.op # "none" /\ Clean(r, {"overlap", "unplugged"}) =>
    /\ r.op # "disconnect" /\ Done(r, "validate")
         => {r.config.source, r.config.output} \subseteq present
    /\ ~Done(r, "unlink") =>
         \A i \in DOMAIN Unlinked(r.config) : i <= r.made => Unlinked(r.config)[i] \notin links
    /\ Done(r, "unlink") => Dry(r.config) = DrySoFar(r)

\* Guitarix is gone once it was stopped, and its links with it.
StopInv(r) ==
  r.op \in {"direct", "disconnect"} /\ Clean(r, {"overlap", "gave_up", "unplugged"}) =>
    (Done(r, "stop") /\ Done(r, "await_stop") => Wet = {})

\* Guitarix is there to stay once it was started, and the chain grows.
AmpInv(r) ==
  r.op \in {"amp", "tone"} /\ Clean(r, {"overlap", "abandoned", "died", "unplugged"}) =>
    (Done(r, "start") =>
       /\ \A p \in Procs : proc[p].state # "dying"
       /\ Done(r, "wait_ports") => WithPorts # {}
       /\ Done(r, "wait_ports") /\ ~Done(r, "wire_amp")
            => \A i \in 1 .. r.made : AmpLinks(r.config)[i] \in links
       /\ Done(r, "wire_amp") => AsSet(AmpLinks(r.config)) \subseteq links)

\* What the status is made of stays as it was seen.
RouteOf(op) == CASE op = "direct" -> "direct" [] op = "amp" -> "amp" [] OTHER -> "off"
Reports(r) ==
  /\ r.op \in {"direct", "amp", "disconnect"} /\ Clean(r, {"overlap", "unplugged"})
  /\ Clean(r, IF r.op = "amp" THEN {"abandoned", "died"} ELSE {"gave_up"})
StatusInv(r) ==
  Reports(r) =>
    /\ Done(r, "read_links") /\ ~Done(r, "read_engine") => r.seen = Targets(r.config.source)
    /\ Done(r, "read_engine") => r.route = RouteOf(r.op)

\* From one Guitarix to the other: the first is alone and gets, has heard or will
\* hear both requests; what it then saves is what the second starts with.
Whole(tone) == [preset |-> tone, params |-> tone]
Half(tone) == [preset |-> tone, params |-> Unset]
Alone(p) == \A q \in Procs : q # p => proc[q].state = "none"
NoWrapper == \A p \in Procs : proc[p].state # "wrapper"
NoneLeft == \A p \in Procs : proc[p].state = "none"
Kept(tone) == NoneLeft /\ saved = Whole(tone)
Heard(p, tone) == proc[p].inbox = <<>> /\ proc[p].tone = tone
Will(p, methods, tone) ==
  proc[p].inbox = [i \in DOMAIN methods |-> [method |-> methods[i], tone |-> tone]]
Fresh(states) ==
  \E p \in Procs : Alone(p) /\ proc[p].state \in states /\ proc[p].inbox = <<>>
HalfWay(tone) ==
  \E p \in Procs : /\ Alone(p) /\ proc[p].state = "running"
                   /\ Will(p, <<"setpreset">>, tone) \/ Heard(p, Half(tone))
AllToHear(tone, state) ==
  \E p \in Procs : /\ Alone(p) /\ proc[p].state = state
                   /\ \/ Will(p, <<"setpreset", "set">>, tone)
                      \/ Will(p, <<"set">>, tone) /\ proc[p].tone = Half(tone)
                      \/ Heard(p, Whole(tone))
Restarted(tone) ==
  /\ saved = Whole(tone)
  /\ \A p \in Procs : proc[p].state # "none" =>
       /\ proc[p].state # "dying" /\ proc[p].inbox = <<>>
       /\ proc[p].state = "running" => proc[p].tone = Whole(tone)
ToneInv(r) ==
  /\ r.op = "tone"
  /\ Clean(r, {"overlap", "gave_up", "abandoned", "died", "unheard", "wrapper"})
  => /\ Ready(r, "validate") \/ Ready(r, "unlink") => NoWrapper
     /\ (Ready(r, "stop") \/ Ready(r, "await_stop")) /\ ~Done(r, "set") => NoWrapper
     /\ Ready(r, "start_rpc") \/ Ready(r, "spawn_rpc") => NoneLeft
     /\ Ready(r, "wait_rpc") => Fresh({"wrapper", "running"})
     /\ Ready(r, "setpreset") => Fresh({"running"})
     /\ Ready(r, "set") => HalfWay(r.tone)
     /\ Ready(r, "stop") /\ Done(r, "set") => AllToHear(r.tone, "running")
     /\ Ready(r, "await_stop") /\ Done(r, "set") => AllToHear(r.tone, "dying") \/ Kept(r.tone)
     /\ Ready(r, "start") \/ Ready(r, "spawn") => Kept(r.tone)
     /\ Ready(r, "wait_ports") \/ Ready(r, "wire_amp") \/ r.plan = <<>> => Restarted(r.tone)

OperationInv(r) == DryInv(r) /\ StopInv(r) /\ AmpInv(r) /\ StatusInv(r) /\ ToneInv(r)
RoutesInv ==
  /\ TypeOK /\ PlanInv /\ DyingInv
  /\ (\A t \in Threads : OperationInv(req[t])) /\ OperationInv(last)
=============================================================================
