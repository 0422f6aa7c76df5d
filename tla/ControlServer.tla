--------------------------- MODULE ControlServer ----------------------------
(***************************************************************************)
(* ControlServer (engine/src/control_server.cpp): one server thread that   *)
(* accepts and serves one client at a time, the thread that owns the       *)
(* server (main() or a test: start, wait, stop), and the clients.          *)
(*                                                                         *)
(* A request is "quit", any other call, or "overflow", a line with a number *)
(* that no float can hold; what a call does to the engine is in module      *)
(* Engine.  A client has one connection, known by its name.                *)
(* Lines arrive whole.  start() that finds the server running, or cannot   *)
(* listen, changes nothing and is left out.                                *)
(***************************************************************************)
EXTENDS Naturals, Sequences

CONSTANTS Clients,
          MaxRequests,  \* bound: requests the clients send
          None

ASSUME ControlServerAssumption == MaxRequests \in Nat /\ None \notin Clients

VARIABLES
  running, quitRequested,   \* running, quit_requested
  listener,                 \* is the listening descriptor there and open?
  client,                   \* client: the connection request_stop() shuts down
  pc,                       \* where the server thread and the owner are
  sClient, lines, request,  \* handle_client(): connection, unread lines, line
  open,                     \* accepted descriptors not closed yet
  shut,                     \* those on which shutdown() was called
  backlog,                  \* connections waiting to be accepted
  conn,                     \* the clients' view: "away", "connected", "gone"
  inbox,                    \* requests sent and not received
  sent,                     \* number of requests sent so far
  quitAcked                 \* has a client been answered its quit?

flags == <<running, quitRequested, listener, client>>
serving == <<sClient, lines, request>>
sockets == <<open, shut, backlog>>
clients == <<conn, inbox, sent, quitAcked>>
serverVars == <<flags, pc, serving, sockets, clients>>

Requests == {"call", "quit", "overflow"}

ServerInit ==
  /\ running = FALSE /\ quitRequested = FALSE /\ listener = FALSE
  /\ client = None
  /\ pc = [server |-> "none", owner |-> "idle"]
  /\ sClient = None /\ lines = <<>> /\ request = "call"
  /\ open = {} /\ shut = {} /\ backlog = {}
  /\ conn = [c \in Clients |-> "away"]
  /\ inbox = [c \in Clients |-> <<>>] /\ sent = 0
  /\ quitAcked = FALSE

Continue(thread, label) == pc' = [pc EXCEPT ![thread] = label]

-----------------------------------------------------------------------------
(* request_stop(), on the owner's thread from stop() or on the server's    *)
(* after a quit.                                                           *)

StopRunning(t) ==
  /\ pc[t] = "stop_running"
  /\ running' = FALSE
  /\ Continue(t, "stop_sockets")
  /\ UNCHANGED <<quitRequested, listener, client, serving, sockets, clients>>

\* shutdown_sockets().  Connections not accepted yet are reset.
StopSockets(t) ==
  /\ pc[t] = "stop_sockets"
  /\ listener' = FALSE
  /\ backlog' = {}
  /\ conn' = [c \in Clients |-> IF c \in backlog THEN "gone" ELSE conn[c]]
  /\ shut' = IF client # None THEN shut \cup {client} ELSE shut
  /\ Continue(t, "stop_notify")
  /\ UNCHANGED <<running, quitRequested, client, serving, open, inbox, sent,
                 quitAcked>>

\* wait_cv.notify_all(): wakes the owner only if it is asleep already.
StopNotify(t) ==
  /\ pc[t] = "stop_notify"
  /\ pc' = IF t = "owner" THEN [pc EXCEPT !.owner = "join"]
           ELSE [server |-> "unpublish",
                 owner |-> IF pc.owner = "asleep" THEN "woken" ELSE pc.owner]
  /\ UNCHANGED <<flags, serving, sockets, clients>>

-----------------------------------------------------------------------------
(* The owner.  start() is called when there is no server thread.           *)

Start ==
  /\ pc.owner = "idle" /\ pc.server = "none"
  /\ listener' = TRUE /\ quitRequested' = FALSE /\ running' = TRUE
  /\ Continue("server", "loop")
  /\ quitAcked' = FALSE
  /\ UNCHANGED <<client, serving, sockets, conn, inbox, sent>>

Stop ==
  /\ pc.owner = "idle"
  /\ Continue("owner", "stop_running")
  /\ UNCHANGED <<flags, serving, sockets, clients>>

Join ==
  /\ pc.owner = "join" /\ pc.server \in {"none", "exited"}
  /\ pc' = [server |-> "none", owner |-> "idle"]
  /\ UNCHANGED <<flags, serving, sockets, clients>>

\* wait(): the predicate, at first and after each wake-up.
WaitTest ==
  /\ pc.owner \in {"idle", "woken"}
  /\ Continue("owner", IF running THEN "drowsy" ELSE "idle")
  /\ UNCHANGED <<flags, serving, sockets, clients>>

\* The condition variable blocks.
WaitSleep ==
  /\ pc.owner = "drowsy"
  /\ Continue("owner", "asleep")
  /\ UNCHANGED <<flags, serving, sockets, clients>>

-----------------------------------------------------------------------------
(* The server thread, run().                                               *)

Loop ==
  /\ pc.server = "loop"
  /\ Continue("server", IF running /\ listener THEN "select" ELSE "exited")
  /\ UNCHANGED <<flags, serving, sockets, clients>>

\* A connection is waiting, or the poll times out or fails.
Select ==
  /\ pc.server = "select"
  /\ \/ backlog # {} /\ Continue("server", "accept")
     \/ Continue("server", "loop")
  /\ UNCHANGED <<flags, serving, sockets, clients>>

Accept ==
  /\ pc.server = "accept"
  /\ \/ \E c \in backlog :
          /\ sClient' = c
          /\ backlog' = backlog \ {c}
          /\ open' = open \cup {c}
          /\ Continue("server", "publish")
     \/ /\ ~listener
        /\ Continue("server", IF running THEN "loop" ELSE "exited")
        /\ UNCHANGED <<sClient, open, backlog>>
  /\ UNCHANGED <<flags, lines, request, shut, clients>>

Publish ==
  /\ pc.server = "publish"
  /\ client' = sClient
  /\ Continue("server", "serve")
  /\ UNCHANGED <<running, quitRequested, listener, serving, sockets, clients>>

\* The connection is closed while request_stop() can still get at it.
Unpublish_AfterClose ==
  /\ pc.server = "unpublish"
  /\ open' = open \ {sClient}
  /\ Continue("server", "close")
  /\ UNCHANGED <<flags, serving, shut, backlog, clients>>

Unpublish ==
  /\ pc.server = "unpublish"
  /\ client' = None
  /\ Continue("server", "close")
  /\ UNCHANGED <<running, quitRequested, listener, serving, sockets, clients>>

\* The loop is left with the client.
Close_AndLeave ==
  /\ pc.server = "close"
  /\ open' = open \ {sClient}
  /\ conn' = [conn EXCEPT ![sClient] = "gone"]
  /\ sClient' = None /\ lines' = <<>>
  /\ Continue("server", "exited")
  /\ UNCHANGED <<flags, request, shut, backlog, inbox, sent, quitAcked>>

\* The connection is forgotten, not closed.
Close_Leaks ==
  /\ pc.server = "close"
  /\ sClient' = None /\ lines' = <<>>
  /\ Continue("server", "loop")
  /\ UNCHANGED <<flags, request, sockets, clients>>

Close ==
  /\ pc.server = "close"
  /\ open' = open \ {sClient}
  /\ conn' = [conn EXCEPT ![sClient] = "gone"]
  /\ sClient' = None /\ lines' = <<>>
  /\ Continue("server", "loop")
  /\ UNCHANGED <<flags, request, shut, backlog, inbox, sent, quitAcked>>

-----------------------------------------------------------------------------
(* The server thread, handle_client().                                     *)

Ended == sClient \in shut \/ conn[sClient] = "gone"
Readable == inbox[sClient] # <<>> \/ Ended

\* A loop that takes a poll without a result for the end of the connection.
Serve_TimesOut ==
  /\ pc.server = "serve"
  /\ Continue("server", IF running /\ Readable THEN "recv" ELSE "unpublish")
  /\ UNCHANGED <<flags, serving, sockets, clients>>

\* A loop that relies on shutdown() to be woken.
Serve_Blocking ==
  /\ pc.server = "serve"
  /\ Readable /\ Continue("server", "recv")
  /\ UNCHANGED <<flags, serving, sockets, clients>>

Serve ==
  /\ pc.server = "serve"
  /\ \/ ~running /\ Continue("server", "unpublish")
     \/ running /\ Readable /\ Continue("server", "recv")
  /\ UNCHANGED <<flags, serving, sockets, clients>>

\* What has arrived, or the end of the connection.
Recv ==
  /\ pc.server = "recv"
  /\ \/ \E n \in 1 .. Len(inbox[sClient]) :
          /\ lines' = SubSeq(inbox[sClient], 1, n)
          /\ inbox' = [inbox EXCEPT ![sClient] = SubSeq(@, n + 1, Len(@))]
          /\ Continue("server", "line")
     \/ /\ inbox[sClient] = <<>> /\ Ended
        /\ Continue("server", "unpublish")
        /\ UNCHANGED <<lines, inbox>>
  /\ UNCHANGED <<flags, sClient, request, sockets, conn, sent, quitAcked>>

\* The next line is processed; back to the loop when there is none.
Line ==
  /\ pc.server = "line"
  /\ \/ /\ lines = <<>>
        /\ Continue("server", "serve")
        /\ UNCHANGED <<lines, request, quitRequested>>
     \/ /\ lines # <<>> /\ Head(lines) # "overflow"
        /\ request' = Head(lines)
        /\ lines' = Tail(lines)
        /\ quitRequested' = (quitRequested \/ request' = "quit")
        /\ Continue("server", "send")
  /\ UNCHANGED <<running, listener, client, sClient, sockets, clients>>

\* process_line() expects a parse_error of json::parse(), which throws an
\* out_of_range for such a number.  Nobody catches it on the server thread, so
\* that the process ends, and with it all that it has open.
ParseThrows ==
  /\ pc.server = "line" /\ lines # <<>> /\ Head(lines) = "overflow"
  /\ pc' = [t \in DOMAIN pc |-> "terminated"]
  /\ listener' = FALSE /\ client' = None /\ sClient' = None /\ lines' = <<>>
  /\ open' = {} /\ backlog' = {}
  /\ conn' = [c \in Clients |-> IF conn[c] = "away" THEN "away" ELSE "gone"]
  /\ UNCHANGED <<running, quitRequested, request, shut, inbox, sent, quitAcked>>

\* The response goes out.  While the client neither reads nor hangs up this
\* may take for ever.
SendOk_QuitIgnored ==
  /\ pc.server = "send" /\ sClient \notin shut
  /\ quitAcked' = (quitAcked \/ (request = "quit" /\ conn[sClient] = "connected"))
  /\ Continue("server",
              IF quitRequested /\ lines = <<>> THEN "stop_running" ELSE "line")
  /\ UNCHANGED <<flags, serving, sockets, conn, inbox, sent>>

SendOk ==
  /\ pc.server = "send" /\ sClient \notin shut
  /\ quitAcked' = (quitAcked \/ (request = "quit" /\ conn[sClient] = "connected"))
  /\ Continue("server", IF quitRequested THEN "stop_running" ELSE "line")
  /\ UNCHANGED <<flags, serving, sockets, conn, inbox, sent>>

SendFails ==
  /\ pc.server = "send" /\ Ended
  /\ Continue("server", "unpublish")
  /\ UNCHANGED <<flags, serving, sockets, clients>>

-----------------------------------------------------------------------------
(* The clients.                                                            *)

Connect(c) ==
  /\ conn[c] = "away" /\ listener
  /\ conn' = [conn EXCEPT ![c] = "connected"]
  /\ backlog' = backlog \cup {c}
  /\ UNCHANGED <<flags, pc, serving, open, shut, inbox, sent, quitAcked>>

Send(c, r) ==
  /\ conn[c] = "connected" /\ sent < MaxRequests
  /\ inbox' = [inbox EXCEPT ![c] = Append(@, r)]
  /\ sent' = sent + 1
  /\ UNCHANGED <<flags, pc, serving, sockets, conn, quitAcked>>

HangUp(c) ==
  /\ conn[c] = "connected"
  /\ conn' = [conn EXCEPT ![c] = "gone"]
  /\ UNCHANGED <<flags, pc, serving, sockets, inbox, sent, quitAcked>>

-----------------------------------------------------------------------------
RequestStop(t) == StopRunning(t) \/ StopSockets(t) \/ StopNotify(t)
Owner == Start \/ Stop \/ Join \/ WaitTest \/ WaitSleep \/ RequestStop("owner")
Run == Loop \/ Select \/ Accept \/ Publish \/ Unpublish \/ Close
HandleClient == Serve \/ Recv \/ Line \/ ParseThrows \/ SendFails
Server == Run \/ HandleClient \/ SendOk \/ RequestStop("server")
Client(c) == Connect(c) \/ (\E r \in Requests : Send(c, r)) \/ HangUp(c)

ServerNext == Owner \/ Server \/ \E c \in Clients : Client(c)

ServerSpec == ServerInit /\ [][ServerNext]_serverVars

\* Both threads run whenever they can.  The owner need never call anything, and
\* a client need never read, so that a response need never go out.
Fairness ==
  /\ WF_serverVars(Run \/ HandleClient \/ RequestStop("server"))
  /\ WF_serverVars(Join \/ RequestStop("owner") \/ WaitSleep
             \/ (pc.owner = "woken" /\ WaitTest))

FairServerSpec == ServerSpec /\ Fairness
-----------------------------------------------------------------------------
(* Properties.                                                             *)

\* Every variable has its type, and no line is pending that was not sent.
ServerTypes ==
  /\ running \in BOOLEAN /\ quitRequested \in BOOLEAN /\ listener \in BOOLEAN
  /\ client \in Clients \cup {None} /\ sClient \in Clients \cup {None}
  /\ pc \in [server : {"none", "loop", "select", "accept", "publish", "serve",
                       "recv", "line", "send", "stop_running", "stop_sockets",
                       "stop_notify", "unpublish", "close", "exited", "terminated"},
             owner : {"idle", "stop_running", "stop_sockets", "stop_notify",
                      "join", "drowsy", "asleep", "woken", "terminated"}]
  /\ lines \in Seq(Requests)
  /\ sClient # None => Len(lines) + Len(inbox[sClient]) <= sent
  /\ request \in Requests
  /\ open \subseteq Clients /\ shut \subseteq Clients /\ backlog \subseteq Clients
  /\ conn \in [Clients -> {"away", "connected", "gone"}]
  /\ inbox \in [Clients -> Seq(Requests)]
  /\ sent \in 0 .. MaxRequests /\ quitAcked \in BOOLEAN

\* request_stop() may run on another thread at any time: the descriptor it
\* finds in `client` is open, and it is the one being served (a closed number
\* could already belong to another file); and no accepted descriptor is left
\* open but that one.
ShutdownHitsOpenSocket == client # None => client \in open /\ client = sClient
NoDescriptorLeak == open \subseteq {sClient}
DescriptorsInOrder == ServerTypes /\ ShutdownHitsOpenSocket /\ NoDescriptorLeak

\* The server thread returns only when it was told to: neither a client that
\* hangs up, stalls or vanishes before its answer, nor a failing accept(), recv()
\* or send() ends run().
ReturnsWhenTold == pc.server = "exited" => ~running

\* A client that does not hang up keeps its connection, whatever the other clients
\* do and however long it is silent, until the server is told to stop; or the
\* process ends, see the next property.
ConnectionKept ==
  [][\A c \in Clients : conn[c] = "connected" /\ conn'[c] = "gone"
       => HangUp(c) \/ ~running \/ pc'.server = "terminated"]_serverVars

\* "protocol errors are reported and do not kill the connection"
\* (test_control_server.cpp:425): a connection ends only when its client hangs up or
\* the server has been told to stop.  Does not hold: of the lines that are no JSON
\* one ends the process.
ErrorsDoNotKill ==
  [][\A c \in Clients : conn[c] = "connected" /\ conn'[c] = "gone"
       => HangUp(c) \/ ~running]_serverVars

\* stop() comes back, though a client neither sends nor reads nor hangs up.
StopReturns == pc.owner \in {"stop_running", "stop_sockets", "stop_notify", "join"}
                 ~> pc.owner \in {"idle", "terminated"}

\* Once a client has its quit answered, the server stops.
QuitStops == quitAcked ~> ~running

\* "quit acknowledges and unblocks wait()" (test_control_server.cpp:471): an owner
\* in wait() when a quit is acknowledged comes back.  Does not hold: request_stop()
\* notifies without wait_mutex, perhaps between the owner's test and its sleep.
QuitUnblocksWait ==
  quitAcked /\ pc.owner \in {"drowsy", "asleep", "woken"}
    ~> pc.owner \in {"idle", "terminated"}
-----------------------------------------------------------------------------
(* The inductive invariant.                                                *)

\* Nobody has sent less than is still unread.
InboxInv ==
  /\ \A c \in Clients : Len(inbox[c]) <= sent
  /\ sClient = None => lines = <<>>

\* The connection of handle_client() is open and its descriptor is the only
\* one; request_stop() can get at it in between.
ConnectionInv ==
  /\ open = {sClient} \ {None}
  /\ pc.server \in {"none", "loop", "select", "accept", "exited", "terminated"}
       <=> sClient = None
  /\ client = IF pc.server \in {"publish", "close"} THEN None ELSE sClient

\* The server is told to stop before its sockets are.
StopInv ==
  ~listener \/ "stop_sockets" \in {pc.server, pc.owner} \/ pc.server = "exited"
    => ~running \/ pc.server = "terminated"

ServerInv == ServerTypes /\ InboxInv /\ ConnectionInv /\ StopInv

\* A connection is dropped because its client has hung up or the server is to stop,
\* and only one that was accepted before is ever shut down.
DropInv ==
  /\ \A c \in shut \cup open : conn[c] # "away" /\ c \notin backlog
  /\ sClient \in shut => ~running
  /\ \A c \in backlog : conn[c] # "away"
  /\ pc.server \in {"stop_sockets", "stop_notify", "unpublish", "close"}
       => ~running \/ conn[sClient] = "gone"
=============================================================================
