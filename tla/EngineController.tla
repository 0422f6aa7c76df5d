-------------------------- MODULE EngineController --------------------------
(***************************************************************************)
(* EngineController and EngineClient (engine_controller.py,                *)
(* engine_client.py): the HTTP server's worker threads share one client,   *)
(* one connection and one engine process, which calls spawn on demand.     *)
(* The application shuts the controller down when no request is left.      *)
(*                                                                         *)
(* A call is known by its number, which is also its request id and names   *)
(* the process it spawns and the connection it makes.  Of a response, only *)
(* the id matters.  The engine (module ControlServer) may answer at any    *)
(* time, crash at any time, or never answer at all; whenever the program   *)
(* waits with a timeout, the timeout may strike.                           *)
(***************************************************************************)
EXTENDS Naturals, Sequences, FiniteSets

CONSTANTS Workers,   \* the threads that serve HTTP requests
          App,       \* the thread that runs the application
          MaxCalls   \* bound: calls in a behaviour

ASSUME ControllerAssumption ==
  /\ MaxCalls \in Nat
  /\ App \notin Workers /\ IsFiniteSet(Workers)

Threads == Workers \cup {App}
Calls == 1 .. MaxCalls
None == 0
Quit == MaxCalls + 1      \* the request of shutdown()
Garbage == MaxCalls + 2   \* a line that is no JSON

VARIABLES
  engine,     \* the engine processes, by the call that spawned them
  process,    \* _process
  socket,     \* _socket
  stream,     \* _stream
  peer,       \* the engine process at the other end of each connection
  up, down,   \* requests and responses under way on each connection
  broken,     \* connections on which a call has met a timeout or an error
  calls,      \* number of calls so far
  pc, num,    \* each thread: where it is, the number of its latest call
  reading,    \* and the connection it reads from
  result,     \* and the response its latest call returned, None if it raised
  overlapped, \* have two calls ever been in progress at once?
  stopping    \* shutdown() has begun

fields == <<process, socket, stream>>
wire == <<peer, up, down, broken>>
workers == <<pc, num, reading, result>>
vars == <<engine, fields, wire, calls, workers, overlapped, stopping>>

Init ==
  /\ engine = [k \in Calls |-> "unborn"]
  /\ process = None /\ socket = None /\ stream = None
  /\ peer = [k \in Calls |-> None]
  /\ up = [k \in Calls |-> <<>>] /\ down = [k \in Calls |-> <<>>]
  /\ broken = {} /\ calls = 0
  /\ pc = [w \in Threads |-> "idle"] /\ num = [w \in Threads |-> None]
  /\ reading = [w \in Threads |-> None] /\ result = [w \in Threads |-> None]
  /\ overlapped = FALSE /\ stopping = FALSE

Goto(w, label) == pc' = [pc EXCEPT ![w] = label]
Idle == \A w \in Threads : pc[w] = "idle"
Listening == {p \in Calls : engine[p] = "listening"}

-----------------------------------------------------------------------------
(* A request arrives, and ensure_process().                                *)

Begin(w) ==
  /\ pc[w] = "idle" /\ ~stopping /\ calls < MaxCalls
  /\ calls' = calls + 1
  /\ num' = [num EXCEPT ![w] = calls + 1]
  /\ result' = [result EXCEPT ![w] = None]
  /\ overlapped' = (overlapped \/ ~Idle)
  /\ Goto(w, "ensure")
  /\ UNCHANGED <<engine, fields, wire, reading, stopping>>

\* The client counts as connected once it has had a socket.
Ensure(w) ==
  /\ pc[w] = "ensure"
  /\ Goto(w, IF socket # None THEN "call" ELSE "spawn")
  /\ UNCHANGED <<engine, fields, wire, calls, num, reading, result, overlapped,
                 stopping>>

Spawn(w) ==
  /\ pc[w] = "spawn"
  /\ engine' = [engine EXCEPT ![num[w]] = "booting"]
  /\ process' = num[w]
  /\ Goto(w, "connect")
  /\ UNCHANGED <<socket, stream, wire, calls, num, reading, result, overlapped,
                 stopping>>

\* connect() finds a socket after all, or makes a connection.  One that is
\* refused is tried again.
Connect(w) ==
  /\ pc[w] = "connect"
  /\ \/ socket # None /\ Goto(w, "call") /\ UNCHANGED peer
     \/ /\ socket = None
        /\ \E p \in Listening : peer' = [peer EXCEPT ![num[w]] = p]
        /\ Goto(w, "set_socket")
  /\ UNCHANGED <<engine, fields, up, down, broken, calls, num, reading, result,
                 overlapped, stopping>>

\* The deadline of _wait_until_connectable() has passed.
GiveUp(w) ==
  /\ pc[w] = "connect" /\ socket = None /\ Listening = {}
  /\ Goto(w, "terminate")
  /\ UNCHANGED <<engine, fields, wire, calls, num, reading, result, overlapped,
                 stopping>>

SetSocket(w) ==
  /\ pc[w] = "set_socket"
  /\ socket' = num[w]
  /\ Goto(w, "set_stream")
  /\ UNCHANGED <<engine, process, stream, wire, calls, num, reading, result,
                 overlapped, stopping>>

SetStream(w) ==
  /\ pc[w] = "set_stream"
  /\ stream' = num[w]
  /\ Goto(w, "call")
  /\ UNCHANGED <<engine, process, socket, wire, calls, num, reading, result,
                 overlapped, stopping>>

\* _terminate_process(): SIGTERM, then SIGKILL, and the process is waited for.
Terminate(w) ==
  /\ pc[w] = "terminate"
  /\ process' = None
  /\ engine' = IF process # None THEN [engine EXCEPT ![process] = "exited"]
                                 ELSE engine
  /\ Goto(w, "idle")
  /\ UNCHANGED <<socket, stream, wire, calls, num, reading, result, overlapped,
                 stopping>>

-----------------------------------------------------------------------------
(* call().  _stream is read again for each use.                            *)

Request(w) == IF w = App THEN Quit ELSE num[w]

\* A shutdown() that trusts in quit() when there is a client.
CallOver_QuitTrusted(w) ==
  /\ reading' = [reading EXCEPT ![w] = None]
  /\ IF w = App THEN socket' = None /\ stream' = None
                ELSE UNCHANGED <<socket, stream>>
  /\ Goto(w, "idle")

\* The call of a request is over; that of quit() closes the client.
CallOver(w) ==
  /\ reading' = [reading EXCEPT ![w] = None]
  /\ IF w = App THEN socket' = None /\ stream' = None /\ Goto(w, "terminate")
                ELSE UNCHANGED <<socket, stream>> /\ Goto(w, "idle")

\* A call that finds no stream raises.
CallNotConnected(w) ==
  /\ pc[w] = "call" /\ stream = None
  /\ CallOver(w)
  /\ UNCHANGED <<engine, process, wire, calls, num, result, overlapped,
                 stopping>>

\* write() and flush().  What is sent to a process that has exited is lost.
Write(w) ==
  /\ pc[w] = "call" /\ stream # None
  /\ up' = IF engine[peer[stream]] = "listening"
             THEN [up EXCEPT ![stream] = Append(@, Request(w))] ELSE up
  /\ Goto(w, "read")
  /\ UNCHANGED <<engine, fields, peer, down, broken, calls, num, reading,
                 result, overlapped, stopping>>

WriteFails(w) ==
  /\ pc[w] = "call" /\ stream # None
  /\ engine[peer[stream]] = "exited"
  /\ broken' = broken \cup {stream}
  /\ CallOver(w)
  /\ UNCHANGED <<engine, process, peer, up, down, calls, num, result, overlapped,
                 stopping>>

\* readline() is entered.
ReadBegin(w) ==
  /\ pc[w] = "read"
  /\ reading' = [reading EXCEPT ![w] = stream]
  /\ Goto(w, "readline")
  /\ UNCHANGED <<engine, fields, wire, calls, num, result, overlapped,
                 stopping>>

\* A call that returns whatever line is next.
ReadLine_Unchecked(w) ==
  LET c == reading[w] IN
    /\ pc[w] = "readline" /\ down[c] # <<>> /\ Head(down[c]) # Garbage
    /\ down' = [down EXCEPT ![c] = Tail(@)]
    /\ result' = [result EXCEPT ![w] = Head(down[c])]
    /\ CallOver(w)
    /\ UNCHANGED <<engine, process, peer, up, broken, calls, num, overlapped,
                   stopping>>

\* The next response is returned if it has the right id and raises otherwise.
ReadLine(w) ==
  LET c == reading[w] IN
    /\ pc[w] = "readline" /\ down[c] # <<>> /\ Head(down[c]) # Garbage
    /\ down' = [down EXCEPT ![c] = Tail(@)]
    /\ result' = [result EXCEPT
         ![w] = IF Head(down[c]) = Request(w) THEN Head(down[c]) ELSE None]
    /\ CallOver(w)
    /\ UNCHANGED <<engine, process, peer, up, broken, calls, num, overlapped,
                   stopping>>

\* A line that is no JSON raises an error that shutdown() does not expect: it
\* closes the client and goes no further.
ReadGarbage(w) ==
  LET c == reading[w] IN
    /\ pc[w] = "readline" /\ down[c] # <<>> /\ Head(down[c]) = Garbage
    /\ down' = [down EXCEPT ![c] = Tail(@)]
    /\ IF w = App THEN socket' = None /\ stream' = None
                  ELSE UNCHANGED <<socket, stream>>
    /\ Goto(w, "idle")
    /\ reading' = [reading EXCEPT ![w] = None]
    /\ UNCHANGED <<engine, process, peer, up, broken, calls, num, result,
                   overlapped, stopping>>

\* readline() looks for the end of the line and takes the line in two steps:
\* two threads in it can tear a line apart.
ReadTorn(w) ==
  LET c == reading[w] IN
    /\ pc[w] = "readline" /\ down[c] # <<>>
    /\ \E v \in Workers \ {w} : pc[v] = "readline" /\ reading[v] = c
    /\ down' = [down EXCEPT ![c] = <<Garbage>> \o Tail(@)]
    /\ Goto(w, "idle")
    /\ reading' = [reading EXCEPT ![w] = None]
    /\ UNCHANGED <<engine, fields, peer, up, broken, calls, num, result,
                   overlapped, stopping>>

\* A timeout that leaves the stream readable.
ReadFails_Forgotten(w) ==
  LET c == reading[w] IN
    /\ pc[w] = "readline" /\ down[c] = <<>>
    /\ CallOver(w)
    /\ UNCHANGED <<engine, process, wire, calls, num, result, overlapped,
                   stopping>>

\* No line comes: the timeout strikes, or struck before, or the engine is gone.
ReadFails(w) ==
  LET c == reading[w] IN
    /\ pc[w] = "readline" /\ (down[c] = <<>> \/ c \in broken)
    /\ broken' = broken \cup {c}
    /\ CallOver(w)
    /\ UNCHANGED <<engine, process, peer, up, down, calls, num, result,
                   overlapped, stopping>>

-----------------------------------------------------------------------------
(* shutdown(), by the thread that runs the application.                    *)

Shutdown ==
  /\ Idle /\ ~stopping
  /\ stopping' = TRUE
  /\ Goto(App, IF socket # None THEN "call" ELSE "terminate")
  /\ UNCHANGED <<engine, fields, wire, calls, num, reading, result, overlapped>>

-----------------------------------------------------------------------------
(* The engine process.                                                     *)

\* It listens, or exits because the port is taken.
EngineListens(p) ==
  /\ engine[p] = "booting"
  /\ engine' = [engine EXCEPT ![p] = IF Listening = {} THEN "listening"
                                                       ELSE "exited"]
  /\ UNCHANGED <<fields, wire, calls, workers, overlapped, stopping>>

\* It answers the next request.  A quit is its last.
EngineAnswers(c) ==
  /\ up[c] # <<>> /\ peer[c] \in Listening
  /\ up' = [up EXCEPT ![c] = Tail(@)]
  /\ down' = [down EXCEPT ![c] = Append(@, Head(up[c]))]
  /\ engine' = IF Head(up[c]) = Quit THEN [engine EXCEPT ![peer[c]] = "exited"]
                                     ELSE engine
  /\ UNCHANGED <<fields, peer, broken, calls, workers, overlapped, stopping>>

EngineDies(p) ==
  /\ engine[p] \in {"booting", "listening"}
  /\ engine' = [engine EXCEPT ![p] = "exited"]
  /\ UNCHANGED <<fields, wire, calls, workers, overlapped, stopping>>

-----------------------------------------------------------------------------
EnsureProcess(w) ==
  \/ Ensure(w) \/ Spawn(w) \/ Connect(w) \/ GiveUp(w) \/ SetSocket(w)
  \/ SetStream(w) \/ Terminate(w)
Call(w) ==
  \/ CallNotConnected(w) \/ Write(w) \/ WriteFails(w) \/ ReadBegin(w)
  \/ ReadLine(w) \/ ReadGarbage(w) \/ ReadTorn(w) \/ ReadFails(w)
Thread(w) == EnsureProcess(w) \/ Call(w)
Engine == \E k \in Calls : EngineListens(k) \/ EngineAnswers(k) \/ EngineDies(k)

Next ==
  \/ \E w \in Workers : Begin(w)
  \/ \E w \in Threads : Thread(w)
  \/ Shutdown
  \/ Engine

Spec == Init /\ [][Next]_vars
-----------------------------------------------------------------------------
(* Properties.                                                             *)

\* Every variable has its type.
TypeOK ==
  /\ engine \in [Calls -> {"unborn", "booting", "listening", "exited"}]
  /\ {process, socket, stream} \subseteq Calls \cup {None}
  /\ peer \in [Calls -> Calls \cup {None}]
  /\ up \in [Calls -> Seq(Calls \cup {Quit})]
  /\ down \in [Calls -> Seq(Calls \cup {Quit, Garbage})]
  /\ broken \subseteq Calls /\ calls \in 0 .. MaxCalls
  /\ pc \in [Threads -> {"idle", "ensure", "spawn", "connect", "set_socket",
                         "set_stream", "terminate", "call", "read", "readline"}]
  /\ num \in [Threads -> Calls \cup {None}]
  /\ reading \in [Threads -> Calls \cup {None}]
  /\ result \in [Threads -> Calls \cup {None, Quit}]
  /\ overlapped \in BOOLEAN /\ stopping \in BOOLEAN

\* However the calls of several threads cross on the shared stream, and
\* whatever was left there by calls that timed out, a call returns the response
\* to its own request or raises.
OwnResponse ==
  \A w \in Workers : result[w] # None => result[w] = num[w]

\* The engine lives in a session of its own: one that shutdown() misses would
\* keep the audio device for ever.  None is missed, as long as calls came one
\* at a time; two at once may spawn an engine each, and only one is remembered.
ShutdownLeavesNoEngine ==
  stopping /\ Idle => overlapped \/ \A p \in Calls : engine[p] \in {"unborn", "exited"}

\* While calls come one at a time, the response a call finds on the stream is
\* its own: one that timed out leaves no late response behind for the next,
\* because the stream cannot be read any more.
StreamInSync ==
  \A w \in Workers :
    pc[w] = "readline" /\ ~overlapped /\ reading[w] \notin broken =>
      down[reading[w]] \in {<<>>, <<num[w]>>}

\* A connection in use has an engine at its end, and no more is under way on one
\* than was asked.
InUseIsConnected == \A c \in {socket, stream} : c # None => peer[c] # None
Asked == calls + (IF stopping THEN 1 ELSE 0)
NoMoreThanAsked == \A k \in Calls : Len(up[k]) + Len(down[k]) <= Asked

\* What the run checks of the connections: they carry no more than was asked, and
\* the stream that is read stays in step with the calls.
ConnectionsInStep == TypeOK /\ InUseIsConnected /\ NoMoreThanAsked /\ StreamInSync
-----------------------------------------------------------------------------
(* The inductive invariant.                                                *)

\* The application works only when it shuts down, and then alone; and while
\* calls come one at a time, at most one thread is at work.
Quitting == {"call", "read", "readline", "terminate"}
ThreadsInv ==
  /\ pc[App] \in {"idle"} \cup Quitting
  /\ pc[App] # "idle" => stopping
  /\ stopping => \A w \in Workers : pc[w] = "idle"
  /\ ~overlapped => \A v, w \in Threads : pc[v] # "idle" /\ pc[w] # "idle" => v = w

Quiet(c) == up[c] = <<>> /\ down[c] = <<>>

\* What a thread at work has: the number of its call, a connection from connect()
\* on, a stream from its write() on.
HoldsInv ==
  /\ InUseIsConnected
  /\ \A w \in Workers :
       /\ pc[w] # "idle" => num[w] \in 1 .. calls
       /\ pc[w] \in {"set_socket", "set_stream"} => peer[num[w]] # None
       /\ pc[w] \in {"set_stream", "call", "read", "readline"} => socket # None
  /\ \A w \in Threads :
       /\ pc[w] = "read" => stream # None
       /\ pc[w] = "readline" => reading[w] # None
  /\ \A k \in Calls : peer[k] = None => Quiet(k)
  /\ \A k \in Calls : k > calls => peer[k] = None

\* A call sends one request at most: what is under way on a connection and what
\* is still to be written are no more than the calls.
ToWrite == {"ensure", "spawn", "connect", "set_socket", "set_stream", "call"}
Writers == {w \in Threads : pc[w] \in ToWrite}
CountInv ==
  \A k \in Calls :
    Len(up[k]) + Len(down[k]) + Cardinality(Writers) <= Asked

\* One call at a time: the engine that is alive is the one remembered, and one is
\* remembered only while there is a socket, or somebody at work who will have
\* one or will terminate it.
Connecting == {"connect", "set_socket", "terminate"}
LifeInv ==
  ~overlapped =>
    /\ \A p \in Calls : engine[p] \in {"booting", "listening"} => p = process
    /\ process # None => socket # None \/ \E w \in Threads : pc[w] \in Connecting
    /\ \A w \in Workers : pc[w] = "spawn" => socket = None
    /\ stopping /\ pc[App] = "idle" => process = None

\* One call at a time: a stream that can be read carries the request or the
\* response of the call that waits for it, or nothing.
CarriesFor(w, c) ==
  \/ up[c] = <<Request(w)>> /\ down[c] = <<>>
  \/ up[c] = <<>> /\ down[c] = <<Request(w)>>
SyncInv ==
  ~overlapped =>
    /\ \A k \in Calls : \A i \in 1 .. Len(down[k]) : down[k][i] # Garbage
    /\ \A w \in Threads : pc[w] = "readline" => reading[w] = stream
    /\ \A w \in Workers :
         /\ pc[w] \in {"ensure", "spawn", "connect"} => peer[num[w]] = None
         /\ pc[w] \in {"set_socket", "set_stream"} => Quiet(num[w])
    /\ stream \notin broken \cup {None} =>
         \/ Quiet(stream)
         \/ \E w \in Threads : pc[w] \in {"read", "readline"} /\ CarriesFor(w, stream)

ControllerInv ==
  /\ TypeOK /\ ThreadsInv /\ HoldsInv /\ CountInv /\ OwnResponse /\ LifeInv /\ SyncInv
=============================================================================
