------------------------------ MODULE Presets ------------------------------
(***************************************************************************)
(* The rig presets (presets.py, api/presets.py): one file per preset in a  *)
(* directory that the threads of the HTTP server and the separate process  *)
(* `gitard presets install` change without any lock.  A file is written to *)
(* a temporary file that then replaces it.  Applying a preset is a read    *)
(* and five calls of the engine, of which each may fail.                   *)
(*                                                                         *)
(* A content stands for all of a preset; Partial is a file whose writing   *)
(* has begun.  A crash of a process ends all its threads where they are.   *)
(***************************************************************************)
EXTENDS Naturals, Sequences

CONSTANTS Threads,    \* the threads that serve HTTP requests
          Cli,        \* the process that installs the bundled presets
          Names,      \* names of presets, as safe_name() returns them
          Contents,   \* what a user may save
          Bundled,    \* the names of the bundled presets, sorted
          MaxOps,     \* bound: requests in a behaviour
          MaxInstalls, \* bound: runs of the installer
          MaxCrashes  \* bound

Default == "default"  \* the content of a bundled preset
Partial == "partial"
Absent == "absent"
Settings == <<"model", "cab", "gain", "gate", "eq">>
SettingNames == {Settings[i] : i \in DOMAIN Settings}
Whole == Contents \cup {Default}

ASSUME PresetAssumption ==
  /\ Cli \notin Threads
  /\ {Default, Partial, Absent} \cap Contents = {}
  /\ Bundled \in Seq(Names) \ {<<>>} /\ Absent \notin Names
  /\ MaxOps \in Nat /\ MaxInstalls \in Nat /\ MaxCrashes \in Nat

Actors == Threads \cup {Cli}

VARIABLES
  file,     \* the preset files
  temp,     \* each actor: its temporary file
  act,      \* and what it is about to do
  engine,   \* the engine's settings, each by the preset it comes from
  edited,   \* the content a user saved last, if it was not deleted since
  raced,    \* names saved between the installer's test and its write
  applied,  \* the content applied last, if nothing else reached the engine since
  ops, installs, crashes

bounds == <<ops, installs, crashes>>
history == <<edited, raced, applied>>
vars == <<file, temp, act, engine, history, bounds>>

To(label, n, content, todo) ==
  [at |-> label, name |-> n, content |-> content, todo |-> todo, alone |-> TRUE]
Idle == To("idle", Absent, Absent, <<>>)

Init ==
  /\ file = [n \in Names |-> Absent] /\ temp = [a \in Actors |-> Absent]
  /\ act = [a \in Actors |-> Idle]
  /\ engine = [s \in SettingNames |-> Absent]
  /\ edited = [n \in Names |-> Absent] /\ raced = {} /\ applied = Absent
  /\ ops = 0 /\ installs = 0 /\ crashes = 0

At(a, label) == act[a].at = label
Become(a, r) == act' = [act EXCEPT ![a] = r]
Done(a) == Become(a, Idle)
Goto(a, label) == act' = [act EXCEPT ![a].at = label]

\* The user's will for preset n.  One that acts between the installer's test
\* of n and its write is overwritten.
Edit(n, content) ==
  /\ edited' = [edited EXCEPT ![n] = content]
  /\ raced' = IF act[Cli].name = n THEN raced \cup {n} ELSE raced \ {n}

-----------------------------------------------------------------------------
(* Requests.                                                               *)

Request(t, r) ==
  /\ At(t, "idle") /\ ops < MaxOps /\ ops' = ops + 1
  /\ Become(t, r)
  /\ UNCHANGED <<file, temp, engine, history, installs, crashes>>

Begin(t) ==
  \E n \in Names :
    \/ \E c \in Contents : Request(t, To("mkstemp", n, c, <<>>))
    \/ \E label \in {"delete", "load"} : Request(t, To(label, n, Absent, <<>>))

Delete(t) ==
  /\ At(t, "delete")
  /\ \/ file' = [file EXCEPT ![act[t].name] = Absent] /\ Edit(act[t].name, Absent)
     \/ UNCHANGED <<file, edited, raced>>
  /\ Done(t)
  /\ UNCHANGED <<temp, engine, applied, bounds>>

\* apply_route() reads the file, refuses one that is not whole, and finds the
\* engine's program missing or goes on to the engine's settings.
Load(t) ==
  /\ At(t, "load")
  /\ \/ Done(t)
     \/ /\ file[act[t].name] \in Whole
        /\ LET new == To("apply", act[t].name, file[act[t].name], Settings)
               others == {u \in Actors : At(u, "apply")}
           IN act' = [u \in Actors |->
                       IF u = t THEN [new EXCEPT !.alone = (others = {})]
                       ELSE IF u \in others THEN [act[u] EXCEPT !.alone = FALSE] ELSE act[u]]
  /\ UNCHANGED <<file, temp, engine, history, bounds>>

\* Mutant: an error of one call does not keep the others from being made.
Apply_GoesOn(t) ==
  /\ At(t, "apply")
  /\ LET rest == Tail(act[t].todo) IN
     /\ \/ engine' = [engine EXCEPT ![Head(act[t].todo)] = act[t].content]
        \/ UNCHANGED engine
     /\ IF rest # <<>> THEN act' = [act EXCEPT ![t].todo = rest] ELSE Done(t)
     /\ applied' = IF rest = <<>> /\ act[t].alone THEN act[t].content ELSE Absent
  /\ UNCHANGED <<file, temp, edited, raced, bounds>>

\* One call of the engine.  When it raises, those before it stay in effect.
Apply(t) ==
  /\ At(t, "apply")
  /\ LET rest == Tail(act[t].todo) IN
     \/ /\ engine' = [engine EXCEPT ![Head(act[t].todo)] = act[t].content]
        /\ IF rest # <<>> THEN act' = [act EXCEPT ![t].todo = rest] ELSE Done(t)
        /\ applied' = IF rest = <<>> /\ act[t].alone THEN act[t].content ELSE Absent
     \/ Done(t) /\ applied' = Absent /\ UNCHANGED engine
  /\ UNCHANGED <<file, temp, edited, raced, bounds>>

-----------------------------------------------------------------------------
(* _write_preset(), for a save and for the installer.                      *)

\* The installer goes on with the next bundled preset, a request is over.
AfterWrite(a) ==
  IF a = Cli /\ act[a].todo # <<>> THEN Become(a, To("exists", Absent, Default, act[a].todo))
  ELSE Done(a)

\* Mutant: the file is written where it is read.
Mkstemp_InPlace(a) ==
  /\ At(a, "mkstemp")
  /\ temp' = [temp EXCEPT ![a] = Partial]
  /\ file' = [file EXCEPT ![act[a].name] = Partial]
  /\ Goto(a, "write")
  /\ UNCHANGED <<engine, history, bounds>>

Mkstemp(a) ==
  /\ At(a, "mkstemp")
  /\ \/ temp' = [temp EXCEPT ![a] = Partial] /\ Goto(a, "write")
     \/ Done(a) /\ UNCHANGED temp
  /\ UNCHANGED <<file, engine, history, bounds>>

\* A write or rename has failed: the temporary file is removed, and the error
\* ends the request, or the installer.
Cleanup(a) ==
  /\ temp' = [temp EXCEPT ![a] = Absent]
  /\ Done(a)

Write(a) ==
  /\ At(a, "write")
  /\ \/ /\ temp' = [temp EXCEPT ![a] = act[a].content]
        /\ Goto(a, "replace")
     \/ Cleanup(a)
  /\ UNCHANGED <<file, engine, history, bounds>>

Replace(a) ==
  /\ At(a, "replace")
  /\ \/ /\ file' = [file EXCEPT ![act[a].name] = temp[a]]
        /\ temp' = [temp EXCEPT ![a] = Absent]
        /\ IF a = Cli THEN UNCHANGED <<edited, raced>> ELSE Edit(act[a].name, temp[a])
        /\ AfterWrite(a)
     \/ Cleanup(a) /\ UNCHANGED <<file, edited, raced>>
  /\ UNCHANGED <<engine, applied, bounds>>

-----------------------------------------------------------------------------
(* seed_default_presets(), and the end of a process.                       *)

Install ==
  /\ At(Cli, "idle") /\ installs < MaxInstalls /\ installs' = installs + 1
  /\ Become(Cli, To("exists", Absent, Default, Bundled))
  /\ UNCHANGED <<file, temp, engine, history, ops, crashes>>

\* Mutant: installs over what is there.
Exists_Ignored ==
  /\ At(Cli, "exists")
  /\ LET n == Head(act[Cli].todo)
         rest == Tail(act[Cli].todo)
     IN Become(Cli, To("mkstemp", n, Default, rest))
  /\ UNCHANGED <<file, temp, engine, history, bounds>>

\* The test whether the next bundled preset is there already.
Exists ==
  /\ At(Cli, "exists")
  /\ LET n == Head(act[Cli].todo)
         rest == Tail(act[Cli].todo)
     IN IF file[n] = Absent
        THEN Become(Cli, To("mkstemp", n, Default, rest))
        ELSE IF rest = <<>> THEN Done(Cli) ELSE Become(Cli, To("exists", Absent, Default, rest))
  /\ UNCHANGED <<file, temp, engine, history, bounds>>

\* What a crash leaves of a temporary file no one reads or removes.
Crash(process) ==
  /\ crashes < MaxCrashes /\ crashes' = crashes + 1
  /\ \E a \in process : ~At(a, "idle")
  /\ temp' = [a \in Actors |-> IF a \in process THEN Absent ELSE temp[a]]
  /\ act' = [a \in Actors |-> IF a \in process THEN Idle ELSE act[a]]
  /\ UNCHANGED <<file, engine, history, ops, installs>>

Next ==
  \/ \E t \in Threads : Begin(t) \/ Delete(t) \/ Load(t) \/ Apply(t)
  \/ \E a \in Actors : Mkstemp(a) \/ Write(a) \/ Replace(a)
  \/ Install \/ Exists
  \/ Crash(Threads) \/ Crash({Cli})

Spec == Init /\ [][Next]_vars

-----------------------------------------------------------------------------
(* Properties.                                                             *)

Labels == {"idle", "mkstemp", "write", "replace", "delete", "load", "apply", "exists"}

ActorState == [at : Labels, name : Names \cup {Absent}, content : Whole \cup {Absent},
               todo : Seq(Names \cup SettingNames), alone : BOOLEAN]

TypeOK ==
  /\ file \in [Names -> Whole \cup {Partial, Absent}]
  /\ temp \in [Actors -> Whole \cup {Partial, Absent}]
  /\ act \in [Actors -> ActorState]
  /\ engine \in [SettingNames -> Whole \cup {Absent}]
  /\ edited \in [Names -> Contents \cup {Absent}] /\ raced \subseteq Names
  /\ applied \in Whole \cup {Absent}

\* "a crash mid-save cannot corrupt an existing preset": wherever a process
\* ends, a write fails or two writers meet, every file is a whole preset.
CrashKeepsOldOrNew == \A n \in Names : file[n] \in Whole \cup {Absent}

\* What a user has saved stays until the user saves or deletes it, however
\* often the bundled presets are installed and crash or fail meanwhile.  Left
\* out: it was saved between the installer's test of that name and its write.
EditsSurvive == \A n \in Names : edited[n] # Absent => file[n] = edited[n] \/ n \in raced

\* When an apply has returned without an error and nobody applied anything
\* meanwhile or since, the engine has all of that preset and nothing of others.
AppliedWhole == applied # Absent => \A s \in DOMAIN engine : engine[s] = applied

-----------------------------------------------------------------------------
(* The inductive invariant.                                                *)

Writing == {"mkstemp", "write", "replace"}

\* What an actor holds at each label.
Held ==
  /\ \A a \in Actors :
       /\ (temp[a] # Absent) <=> act[a].at \in {"write", "replace"}
       /\ At(a, "replace") => temp[a] = act[a].content
       /\ act[a].at \in Writing \cup {"apply"} => act[a].content \in Whole
       /\ act[a].at \in Writing \cup {"delete", "load"} => act[a].name \in Names
  /\ \A t \in Threads : act[t].at # "exists" /\ (act[t].at \in Writing => act[t].content \in Contents)
  /\ act[Cli].at \in Writing \cup {"idle", "exists"} /\ act[Cli].todo \in Seq(Names)
  /\ At(Cli, "exists") => act[Cli].todo # <<>> /\ act[Cli].content = Default

\* What the installer is about to overwrite is nothing, or was saved after its
\* test.
TestHolds ==
  act[Cli].at \in Writing /\ edited[act[Cli].name] # Absent => act[Cli].name \in raced

\* The one apply under way has set all it has not left to set.
Progress ==
  \A t \in Threads : At(t, "apply") /\ act[t].alone =>
    /\ \A v \in Threads \ {t} : ~At(v, "apply")
    /\ \A s \in SettingNames :
         engine[s] = act[t].content \/ \E i \in DOMAIN act[t].todo : act[t].todo[i] = s

ApplyTodo ==
  \A t \in Threads : At(t, "apply") => act[t].todo # <<>> /\ Head(act[t].todo) \in SettingNames
                                       /\ act[t].todo \in Seq(SettingNames)

PresetInv ==
  /\ TypeOK /\ Held /\ TestHolds /\ ApplyTodo /\ Progress
  /\ CrashKeepsOldOrNew /\ EditsSurvive /\ AppliedWhole
=============================================================================
