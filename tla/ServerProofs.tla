---------------------------- MODULE ServerProofs ----------------------------
(***************************************************************************)
(* Proofs about the two servers.  ControlServer, for any clients that send *)
(* any number of requests: what request_stop() finds is open, no           *)
(* descriptor leaks, and no client loses its connection through another or  *)
(* through its own silence, unless the process ends.  Presets, which the    *)
(* HTTP server's threads keep, for any threads, names, contents and        *)
(* bundled presets: a crash leaves a file old or new, an edit is not lost, *)
(* and what is applied is applied whole.                                   *)
(***************************************************************************)
EXTENDS ControlServer, Presets, SequenceTheorems, TLAPS

(* The control server.  Its first state satisfies the invariant.           *)

\* ServerInit establishes the invariant.
LEMMA ServerStarts == ServerInit => ServerInv
<1> SUFFICES ASSUME ServerInit
             PROVE  ServerInv
  OBVIOUS
<1>1. <<>> \in Seq(Requests) /\ Len(<<>>) = 0
  BY EmptySeq
<1>2. ServerTypes
  <2>1. inbox \in [Clients -> Seq(Requests)] /\ sent \in 0 .. MaxRequests
    BY <1>1, ControlServerAssumption DEF ServerInit
  <2>2. /\ pc.server = "none"
        /\ pc.owner = "idle"
        /\ pc = [server |-> "none", owner |-> "idle"]
    BY DEF ServerInit
  <2>3. lines \in Seq(Requests) /\ request \in Requests /\ sClient = None
    BY <1>1 DEF ServerInit, Requests
  <2>4. open = {} /\ shut = {} /\ backlog = {} /\ conn \in [Clients -> {"away"}]
    BY DEF ServerInit
  <2>5. client = None /\ ~running /\ ~quitRequested /\ ~listener /\ ~quitAcked
        /\ quitAcked \in BOOLEAN /\ running \in BOOLEAN /\ quitRequested \in BOOLEAN
        /\ listener \in BOOLEAN
    BY DEF ServerInit
  <2> QED
    BY <2>1, <2>2, <2>3, <2>4, <2>5 DEF ServerTypes
<1>3. InboxInv /\ ConnectionInv /\ StopInv
  BY <1>1 DEF ServerInit, InboxInv, ConnectionInv, StopInv
<1> QED
  BY <1>2, <1>3 DEF ServerInv

-----------------------------------------------------------------------------
(* request_stop() and the owner.                                           *)

\* The flag goes first ...
LEMMA StopRunningStep ==
  ASSUME ServerInv, NEW t \in {"owner", "server"}, StopRunning(t)
  PROVE  ServerInv'
<1> USE DEF ServerInv
<1>1. ServerTypes'
  BY DEF StopRunning, Continue, ServerTypes, serving, sockets, clients
<1>2. InboxInv'
  BY DEF StopRunning, Continue, InboxInv, serving, clients
<1>3. ConnectionInv'
  BY DEF StopRunning, Continue, ServerTypes, ConnectionInv, serving, sockets
<1>4. StopInv'
  BY DEF StopRunning, Continue, ServerTypes, StopInv
<1> QED
  BY <1>1, <1>2, <1>3, <1>4

\* ... then the sockets ...
LEMMA StopSocketsStep ==
  ASSUME ServerInv, NEW t \in {"owner", "server"}, StopSockets(t)
  PROVE  ServerInv'
<1> USE DEF ServerInv
<1>1. ServerTypes'
  BY DEF StopSockets, Continue, ServerTypes, serving
<1>2. InboxInv'
  BY DEF StopSockets, Continue, InboxInv, serving
<1>3. ConnectionInv'
  BY DEF StopSockets, Continue, ServerTypes, ConnectionInv, serving
<1>4. StopInv'
  BY DEF StopSockets, Continue, ServerTypes, StopInv
<1> QED
  BY <1>1, <1>2, <1>3, <1>4

\* ... then the owner is woken.
LEMMA StopNotifyStep ==
  ASSUME ServerInv, NEW t \in {"owner", "server"}, StopNotify(t)
  PROVE  ServerInv'
<1> USE DEF ServerInv
<1>1. ServerTypes'
  BY DEF StopNotify, ServerTypes, flags, serving, sockets, clients
<1>2. InboxInv'
  BY DEF StopNotify, InboxInv, serving, clients
<1>3. ConnectionInv'
  BY DEF StopNotify, ServerTypes, ConnectionInv, flags, serving, sockets
<1>4. StopInv'
  BY DEF StopNotify, ServerTypes, StopInv, flags
<1> QED
  BY <1>1, <1>2, <1>3, <1>4

\* The owner's other steps.
LEMMA OwnerStep ==
  ASSUME ServerInv, Start \/ Stop \/ Join \/ WaitTest \/ WaitSleep
  PROVE  ServerInv'
<1> USE DEF ServerInv
<1>1. CASE Start
  <2>1. ServerTypes'
    BY <1>1 DEF Start, Continue, ServerTypes, serving, sockets
  <2>2. InboxInv' /\ ConnectionInv'
    BY <1>1 DEF Start, Continue, ServerTypes, InboxInv, ConnectionInv, serving, sockets
  <2>3. StopInv'
    BY <1>1 DEF Start, Continue, ServerTypes, StopInv, serving, sockets
  <2> QED
    BY <2>1, <2>2, <2>3
<1>2. CASE Stop
  <2>1. ServerTypes'
    BY <1>2 DEF Stop, Continue, ServerTypes, flags, serving, sockets, clients
  <2>2. InboxInv' /\ ConnectionInv'
    BY <1>2
       DEF Stop, Continue, ServerTypes, InboxInv, ConnectionInv, flags, serving, sockets,
           clients
  <2>3. StopInv'
    BY <1>2 DEF Stop, Continue, ServerTypes, StopInv, flags, serving, sockets, clients
  <2> QED
    BY <2>1, <2>2, <2>3
<1>3. CASE Join
  <2>1. ServerTypes'
    BY <1>3 DEF Join, ServerTypes, flags, serving, sockets, clients
  <2>2. InboxInv' /\ ConnectionInv'
    BY <1>3
       DEF Join, ServerTypes, InboxInv, ConnectionInv, flags, serving, sockets, clients
  <2>3. StopInv'
    BY <1>3 DEF Join, ServerTypes, StopInv, flags, serving, sockets, clients
  <2> QED
    BY <2>1, <2>2, <2>3
<1>4. CASE WaitTest
  <2>1. ServerTypes'
    BY <1>4 DEF WaitTest, Continue, ServerTypes, flags, serving, sockets, clients
  <2>2. InboxInv' /\ ConnectionInv'
    BY <1>4
       DEF WaitTest, Continue, ServerTypes, InboxInv, ConnectionInv, flags, serving,
           sockets, clients
  <2>3. StopInv'
    BY <1>4 DEF WaitTest, Continue, ServerTypes, StopInv, flags, serving, sockets, clients
  <2> QED
    BY <2>1, <2>2, <2>3
<1>5. CASE WaitSleep
  <2>1. ServerTypes'
    BY <1>5 DEF WaitSleep, Continue, ServerTypes, flags, serving, sockets, clients
  <2>2. InboxInv' /\ ConnectionInv'
    BY <1>5
       DEF WaitSleep, Continue, ServerTypes, InboxInv, ConnectionInv, flags, serving,
           sockets, clients
  <2>3. StopInv'
    BY <1>5 DEF WaitSleep, Continue, ServerTypes, StopInv, flags, serving, sockets, clients
  <2> QED
    BY <2>1, <2>2, <2>3
<1> QED
  BY <1>1, <1>2, <1>3, <1>4, <1>5

-----------------------------------------------------------------------------
(* The server thread.                                                      *)

\* Between two connections.
LEMMA LoopStep ==
  ASSUME ServerInv, Loop \/ Select
  PROVE  ServerInv'
<1> USE DEF ServerInv
<1>1. ServerTypes'
  BY DEF Loop, Select, Continue, ServerTypes, flags, serving, sockets, clients
<1>2. InboxInv'
  BY DEF Loop, Select, Continue, InboxInv, serving, clients
<1>3. ConnectionInv'
  BY DEF Loop, Select, Continue, ServerTypes, ConnectionInv, flags, serving, sockets
<1>4. StopInv'
  BY DEF Loop, Select, Continue, ServerTypes, StopInv, flags
<1> QED
  BY <1>1, <1>2, <1>3, <1>4

\* A connection is accepted, its descriptor the only one.
LEMMA AcceptStep ==
  ASSUME ServerInv, Accept
  PROVE  ServerInv'
<1> USE DEF ServerInv
<1>1. /\ sClient = None /\ client = None /\ open = {} /\ lines = <<>>
      /\ UNCHANGED <<client, lines, inbox, sent>>
  BY DEF Accept, InboxInv, ConnectionInv, flags, clients
<1>2. StopInv'
  BY DEF Accept, Continue, ServerTypes, StopInv, flags
<1>3. ASSUME NEW c \in backlog, sClient' = c, backlog' = backlog \ {c},
             open' = open \cup {c}, Continue("server", "publish")
      PROVE  ServerInv'
  <2>1. c \in Clients /\ c # None
    BY ControlServerAssumption DEF ServerTypes
  <2>2. Len(lines) + Len(inbox[c]) <= sent
    <3>1. Len(lines) = 0 /\ Len(inbox[c]) \in Nat /\ Len(inbox[c]) <= sent
      BY <1>1, <2>1, EmptySeq DEF ServerTypes, InboxInv
    <3> QED
      BY <2>1, <3>1, ControlServerAssumption DEF ServerTypes
  <2>3. ServerTypes'
    BY <1>1, <1>3, <2>1, <2>2 DEF Accept, Continue, ServerTypes, flags, clients
  <2>4. InboxInv'
    BY <1>1 DEF InboxInv
  <2>5. ConnectionInv'
    BY <1>1, <1>3, <2>1 DEF Continue, ServerTypes, ConnectionInv
  <2> QED
    BY <1>2, <2>3, <2>4, <2>5
<1>4. ASSUME Continue("server", IF running THEN "loop" ELSE "exited"),
             UNCHANGED <<sClient, open, backlog>>
      PROVE  ServerInv'
  <2>1. ServerTypes'
    BY <1>1, <1>4 DEF Accept, Continue, ServerTypes, flags, clients
  <2>2. InboxInv'
    BY <1>1 DEF InboxInv
  <2>3. ConnectionInv'
    BY <1>1, <1>4 DEF Continue, ServerTypes, ConnectionInv
  <2> QED
    BY <1>2, <2>1, <2>2, <2>3
<1> QED
  BY <1>3, <1>4 DEF Accept

\* request_stop() can get at it from here ...
LEMMA PublishStep ==
  ASSUME ServerInv, Publish
  PROVE  ServerInv'
<1> USE DEF ServerInv
<1>1. ServerTypes'
  BY DEF Publish, Continue, ServerTypes, serving, sockets, clients
<1>2. InboxInv'
  BY DEF Publish, Continue, InboxInv, serving, clients
<1>3. ConnectionInv'
  BY DEF Publish, Continue, ServerTypes, ConnectionInv, serving, sockets
<1>4. StopInv'
  BY DEF Publish, Continue, ServerTypes, StopInv
<1> QED
  BY <1>1, <1>2, <1>3, <1>4

\* ... to here, ...
LEMMA UnpublishStep ==
  ASSUME ServerInv, Unpublish
  PROVE  ServerInv'
<1> USE DEF ServerInv
<1>1. ServerTypes'
  BY DEF Unpublish, Continue, ServerTypes, serving, sockets, clients
<1>2. InboxInv'
  BY DEF Unpublish, Continue, InboxInv, serving, clients
<1>3. ConnectionInv'
  BY DEF Unpublish, Continue, ServerTypes, ConnectionInv, serving, sockets
<1>4. StopInv'
  BY DEF Unpublish, Continue, ServerTypes, StopInv
<1> QED
  BY <1>1, <1>2, <1>3, <1>4

\* ... and only then it is closed.
LEMMA CloseStep ==
  ASSUME ServerInv, Close
  PROVE  ServerInv'
<1> USE DEF ServerInv
<1>1. ServerTypes'
  <2>1. sClient' = None /\ lines' \in Seq(Requests) /\ sClient \in Clients
    BY EmptySeq DEF Close, ServerTypes, ConnectionInv
  <2>2. conn' \in [Clients -> {"away", "connected", "gone"}] /\ open' \subseteq Clients
    BY DEF Close, ServerTypes
  <2> QED
    BY <2>1, <2>2 DEF Close, Continue, ServerTypes, flags
<1>2. InboxInv'
  BY DEF Close, Continue, InboxInv
<1>3. ConnectionInv'
  BY DEF Close, Continue, ServerTypes, ConnectionInv, flags
<1>4. StopInv'
  BY DEF Close, Continue, ServerTypes, StopInv, flags
<1> QED
  BY <1>1, <1>2, <1>3, <1>4

\* handle_client() without what it reads.
LEMMA ServeStep ==
  ASSUME ServerInv, Serve \/ SendOk \/ SendFails
  PROVE  ServerInv'
<1> USE DEF ServerInv
<1>1. ServerTypes'
  BY DEF Serve, SendOk, SendFails, Continue, ServerTypes, flags, serving, sockets, clients
<1>2. InboxInv'
  BY DEF Serve, SendOk, SendFails, Continue, InboxInv, serving, clients
<1>3. ConnectionInv'
  BY DEF Serve, SendOk, SendFails, Continue, ServerTypes, ConnectionInv, flags, serving,
         sockets
<1>4. StopInv'
  BY DEF Serve, SendOk, SendFails, Continue, ServerTypes, StopInv, flags
<1> QED
  BY <1>1, <1>2, <1>3, <1>4

\* What is received was sent, and is unread no more.
LEMMA RecvStep ==
  ASSUME ServerInv, Recv
  PROVE  ServerInv'
<1> USE DEF ServerInv
<1>1. /\ sClient \in Clients
      /\ inbox[sClient] \in Seq(Requests)
      /\ Len(inbox[sClient]) \in Nat
  BY DEF Recv, ServerTypes, ConnectionInv
<1>2. CASE inbox' = inbox /\ lines' = lines
  <2>1. ServerTypes'
    BY <1>2 DEF Recv, Continue, ServerTypes, flags, sockets
  <2>2. InboxInv'
    BY <1>2 DEF Recv, InboxInv
  <2>3. ConnectionInv' /\ StopInv'
    BY DEF Recv, Continue, ServerTypes, ConnectionInv, StopInv, flags, sockets
  <2> QED
    BY <2>1, <2>2, <2>3
<1>3. ASSUME NEW n \in 1 .. Len(inbox[sClient]),
             lines' = SubSeq(inbox[sClient], 1, n),
             inbox' = [inbox EXCEPT ![sClient] = SubSeq(@, n + 1, Len(@))],
             Continue("server", "line")
      PROVE  ServerInv'
  <2>1. /\ lines' \in Seq(Requests) /\ Len(lines') = n
        /\ inbox'[sClient] \in Seq(Requests)
        /\ Len(inbox'[sClient]) = Len(inbox[sClient]) - n
    <3>1. \A i \in 1 .. Len(inbox[sClient]) : inbox[sClient][i] \in Requests
      BY <1>1, ElementOfSeq
    <3>2. inbox'[sClient] = SubSeq(inbox[sClient], n + 1, Len(inbox[sClient]))
      BY <1>1, <1>3 DEF ServerTypes
    <3>3. /\ SubSeq(inbox[sClient], 1, n) \in Seq(Requests)
          /\ Len(SubSeq(inbox[sClient], 1, n)) = n
      BY <1>1, <3>1, SubSeqProperties
    <3>4. /\ SubSeq(inbox[sClient], n + 1, Len(inbox[sClient])) \in Seq(Requests)
          /\ Len(SubSeq(inbox[sClient], n + 1, Len(inbox[sClient]))) = Len(inbox[sClient]) - n
      BY <1>1, <3>1, SubSeqProperties
    <3> QED
      BY <1>3, <3>2, <3>3, <3>4
  <2>2. /\ inbox' \in [Clients -> Seq(Requests)]
        /\ \A c \in Clients \ {sClient} : inbox'[c] = inbox[c]
    BY <1>1, <1>3, <2>1 DEF ServerTypes
  <2>3. ServerTypes'
    <3>1. Len(lines') + Len(inbox'[sClient]) <= sent /\ sent' = sent
      BY <1>1, <2>1, ControlServerAssumption DEF Recv, ServerTypes, InboxInv
    <3> QED
      BY <1>1, <1>3, <2>1, <2>2, <3>1 DEF Recv, Continue, ServerTypes, flags, sockets
  <2>4. InboxInv'
    <3>1. Len(inbox'[sClient]) <= sent /\ sClient' = sClient /\ sent' = sent
      BY <1>1, <2>1, ControlServerAssumption DEF Recv, ServerTypes, InboxInv
    <3>2. sClient # None
      BY <1>1, ControlServerAssumption
    <3> QED
      BY <2>2, <3>1, <3>2 DEF InboxInv
  <2>5. ConnectionInv' /\ StopInv'
    BY <1>3 DEF Recv, Continue, ServerTypes, ConnectionInv, StopInv, flags, sockets
  <2> QED
    BY <2>3, <2>4, <2>5
<1> QED
  BY <1>2, <1>3 DEF Recv

\* A line is taken.
LEMMA LineStep ==
  ASSUME ServerInv, Line
  PROVE  ServerInv'
<1> USE DEF ServerInv
<1>1. ConnectionInv' /\ StopInv'
  BY DEF Line, Continue, ServerTypes, ConnectionInv, StopInv, sockets
<1>2. CASE lines = <<>>
  BY <1>1, <1>2 DEF Line, Continue, ServerTypes, InboxInv, sockets, clients
<1>3. CASE lines # <<>>
  <2>1. /\ request' \in Requests /\ lines' \in Seq(Requests)
        /\ Len(lines) \in Nat /\ Len(lines') = Len(lines) - 1
    <3>1. lines \in Seq(Requests)
      BY DEF ServerTypes
    <3>2. /\ Head(lines) \in Requests /\ Tail(lines) \in Seq(Requests)
          /\ Len(Tail(lines)) = Len(lines) - 1
      BY <1>3, <3>1, HeadTailProperties
    <3>3. request' = Head(lines) /\ lines' = Tail(lines)
      BY <1>3 DEF Line
    <3>4. Len(lines) \in Nat
      BY <3>1, LenProperties
    <3> QED
      BY <3>2, <3>3, <3>4
  <2>2. sClient \in Clients /\ UNCHANGED <<sClient, inbox, sent>>
    BY DEF Line, ServerTypes, ConnectionInv, clients
  <2>3. Len(inbox[sClient]) \in Nat /\ sent \in Nat
    BY <2>2 DEF ServerTypes
  <2>4. ServerTypes'
    <3>1. quitRequested' \in BOOLEAN
      BY <1>3 DEF Line
    <3>2. pc' = [pc EXCEPT !["server"] = "send"] /\ UNCHANGED <<running, listener, client>>
      BY <1>3 DEF Line, Continue
    <3>3. Len(lines') + Len(inbox'[sClient]) <= sent
      BY <2>1, <2>2, <2>3, ControlServerAssumption DEF ServerTypes
    <3>4. quitAcked' \in BOOLEAN /\ UNCHANGED <<open, shut, backlog, conn>>
      BY DEF Line, ServerTypes, sockets, clients
    <3>5. /\ DOMAIN pc' = DOMAIN pc /\ pc' = [server |-> "send", owner |-> pc.owner]
      BY <3>2 DEF ServerTypes
    <3> QED
      BY <2>1, <2>2, <3>1, <3>2, <3>3, <3>4, <3>5 DEF ServerTypes
  <2>5. InboxInv'
    BY <2>2, ControlServerAssumption DEF InboxInv
  <2> QED
    BY <1>1, <2>4, <2>5
<1> QED
  BY <1>2, <1>3

\* An exception nobody catches ends the process, and with it all it has open.
LEMMA TerminateStep ==
  ASSUME ServerInv, ParseThrows
  PROVE  ServerInv'
<1> USE DEF ServerInv
<1>1. /\ pc' = [server |-> "terminated", owner |-> "terminated"]
      /\ sClient' = None /\ client' = None /\ lines' = <<>> /\ ~listener'
      /\ open' = {} /\ UNCHANGED <<running, quitRequested, request, shut, inbox, sent, quitAcked>>
  BY DEF ParseThrows, ServerTypes
<1>2. ServerTypes'
  <2>1. /\ lines' \in Seq(Requests) /\ backlog' = {} /\ listener' = FALSE
        /\ conn' \in [Clients -> {"away", "connected", "gone"}]
    BY <1>1, EmptySeq DEF ParseThrows, ServerTypes
  <2> QED
    BY <1>1, <2>1 DEF ServerTypes
<1>3. InboxInv'
  BY <1>1 DEF InboxInv
<1>4. ConnectionInv' /\ StopInv'
  BY <1>1 DEF ConnectionInv, StopInv
<1> QED
  BY <1>2, <1>3, <1>4

-----------------------------------------------------------------------------
(* The clients.                                                            *)

\* A client comes or goes.
LEMMA ConnectStep ==
  ASSUME ServerInv, NEW c \in Clients, Connect(c) \/ HangUp(c)
  PROVE  ServerInv'
<1> USE DEF ServerInv
<1>1. ServerTypes'
  BY DEF Connect, HangUp, ServerTypes, flags, serving, sockets
<1>2. InboxInv'
  BY DEF Connect, HangUp, InboxInv, serving
<1>3. ConnectionInv'
  BY DEF Connect, HangUp, ServerTypes, ConnectionInv, flags, serving, sockets
<1>4. StopInv'
  BY DEF Connect, HangUp, ServerTypes, StopInv, flags
<1> QED
  BY <1>1, <1>2, <1>3, <1>4

\* A request is sent.
LEMMA SendStep ==
  ASSUME ServerInv, NEW c \in Clients, NEW r \in Requests, Send(c, r)
  PROVE  ServerInv'
<1> USE DEF ServerInv
<1>1. /\ inbox'[c] = Append(inbox[c], r) /\ sent' = sent + 1
      /\ sent \in Nat /\ inbox[c] \in Seq(Requests) /\ sent + 1 <= MaxRequests
  BY ControlServerAssumption DEF Send, ServerTypes
<1>2. /\ inbox'[c] \in Seq(Requests) /\ Len(inbox'[c]) = Len(inbox[c]) + 1
      /\ Len(inbox[c]) \in Nat
  BY <1>1, AppendProperties
<1>3. /\ inbox' \in [Clients -> Seq(Requests)]
      /\ sent' \in 0 .. MaxRequests
      /\ \A d \in Clients \ {c} : inbox'[d] = inbox[d]
  BY <1>1, <1>2, ControlServerAssumption DEF Send, ServerTypes
<1>4. Len(lines) \in Nat /\ UNCHANGED <<lines, sClient>>
  BY DEF Send, ServerTypes, serving
<1>5. ServerTypes'
  <2>1. sClient # None => Len(lines) + Len(inbox'[sClient]) <= sent'
    <3>1. CASE sClient = c
      BY <1>1, <1>2, <1>4, <3>1 DEF ServerTypes
    <3>2. CASE sClient # c
      <4>1. CASE sClient # None
        <5>1. sClient \in Clients /\ Len(inbox[sClient]) \in Nat
          BY <4>1 DEF ServerTypes
        <5> QED
          BY <1>1, <1>3, <1>4, <3>2, <4>1, <5>1 DEF ServerTypes
      <4> QED
        BY <4>1
    <3> QED
      BY <3>1, <3>2
  <2> QED
    BY <1>3, <1>4, <2>1 DEF Send, ServerTypes, flags, serving, sockets
<1>6. InboxInv'
  <2>1. Len(inbox'[c]) <= sent'
    BY <1>1, <1>2 DEF InboxInv
  <2>2. \A d \in Clients : Len(inbox[d]) \in Nat
    BY DEF ServerTypes
  <2>3. \A d \in Clients : Len(inbox'[d]) <= sent'
    BY <1>1, <1>3, <2>1, <2>2 DEF InboxInv
  <2> QED
    BY <1>4, <2>3 DEF InboxInv
<1>7. ConnectionInv' /\ StopInv'
  BY DEF Send, ConnectionInv, StopInv, flags, serving, sockets
<1> QED
  BY <1>5, <1>6, <1>7

-----------------------------------------------------------------------------
\* The invariant: which descriptor is open at each step of the server thread,
\* and that the flag falls before the sockets.
THEOREM ServerInvariant == ServerSpec => []ServerInv
<1>1. ServerInv /\ UNCHANGED serverVars => ServerInv'
  BY DEF ServerInv, ServerTypes, InboxInv, ConnectionInv, StopInv, serverVars, flags, serving,
         sockets, clients
<1>2. ServerInv /\ Owner => ServerInv'
  BY OwnerStep, StopRunningStep, StopSocketsStep, StopNotifyStep
     DEF Owner, RequestStop
<1>3. ServerInv /\ Server => ServerInv'
  BY LoopStep, AcceptStep, PublishStep, UnpublishStep, CloseStep, ServeStep,
     RecvStep, LineStep, TerminateStep, StopRunningStep, StopSocketsStep, StopNotifyStep
     DEF Server, Run, HandleClient, RequestStop
<1>4. ASSUME ServerInv, NEW c \in Clients, Client(c)
      PROVE  ServerInv'
  BY <1>4, ConnectStep, SendStep DEF Client
<1>5. ServerInv /\ [ServerNext]_serverVars => ServerInv'
  BY <1>1, <1>2, <1>3, <1>4 DEF ServerNext
<1> QED
  BY <1>5, ServerStarts, PTL DEF ServerSpec

\* request_stop() shuts down no descriptor but the open one, and none leaks.
THEOREM ServerDescriptors == ServerSpec => []DescriptorsInOrder
<1>1. ServerInv => DescriptorsInOrder
  BY DEF ServerInv, ServerTypes, ConnectionInv, DescriptorsInOrder,
         ShutdownHitsOpenSocket, NoDescriptorLeak
<1> QED
  BY <1>1, ServerInvariant, PTL

\* The server thread returns only when it was told to, whichever way a client ends.
THEOREM ServerReturns == ServerSpec => []ReturnsWhenTold
<1>1. ServerInv => ReturnsWhenTold
  BY DEF ServerInv, StopInv, ReturnsWhenTold
<1> QED
  BY <1>1, ServerInvariant, PTL

\* The owner does not drop a connection, and what it shuts down has been accepted.
LEMMA OwnerDrops ==
  ASSUME ServerInv, DropInv, Owner
  PROVE  DropInv'
<1> USE DEF ServerInv, DropInv, ServerTypes, ConnectionInv
<1>1. CASE Start
  BY <1>1, ControlServerAssumption DEF Start, Continue, serving, sockets
<1>2. CASE Stop \/ Join \/ WaitTest \/ WaitSleep \/ StopNotify("owner")
  BY <1>2 DEF Stop, Join, WaitTest, WaitSleep, StopNotify, Continue, flags, serving, sockets,
              clients
<1>3. CASE StopRunning("owner")
  BY <1>3 DEF StopRunning, Continue, serving, sockets, clients
<1>4. CASE StopSockets("owner")
  <2>1. client # None => client \in open /\ client = sClient
    BY <1>4
  <2>2. ~running \/ pc.server = "terminated"
    BY <1>4 DEF StopSockets, StopInv
  <2>3. \A c \in Clients : conn[c] # "away" => conn'[c] # "away"
    BY <1>4 DEF StopSockets
  <2>4. shut' \subseteq shut \cup open /\ backlog' = {} /\ UNCHANGED <<open, sClient, running>>
    BY <1>4, <2>1 DEF StopSockets, serving
  <2> QED
    BY <1>4, <2>1, <2>2, <2>3, <2>4 DEF StopSockets, Continue
<1> QED
  BY <1>1, <1>2, <1>3, <1>4 DEF Owner, RequestStop

\* The server thread drops a connection that has ended, or when it is to stop.
LEMMA ServerDrops ==
  ASSUME ServerInv, DropInv, Server
  PROVE  DropInv'
<1> USE DEF ServerInv, DropInv, ServerTypes, ConnectionInv
<1>1. CASE StopRunning("server") \/ StopNotify("server")
  BY <1>1 DEF StopRunning, StopNotify, Continue, flags, serving, sockets, clients
<1>2. CASE StopSockets("server")
  BY <1>2 DEF StopSockets, Continue, StopInv, serving
<1>3. CASE Loop \/ Select \/ Publish \/ Unpublish \/ SendOk \/ Serve
  BY <1>3 DEF Loop, Select, Publish, Unpublish, SendOk, Serve, Continue, flags, serving,
              sockets, clients
<1>4. CASE Accept
  BY <1>4, ControlServerAssumption DEF Accept, Continue, flags, clients
<1>5. CASE Recv \/ Line \/ SendFails
  BY <1>5 DEF Recv, Line, SendFails, Ended, Continue, flags, serving, sockets, clients
<1>6. CASE Close
  BY <1>6, ControlServerAssumption DEF Close, Continue, flags
<1>7. CASE ParseThrows
  BY <1>7, ControlServerAssumption DEF ParseThrows
<1> QED
  BY <1>1, <1>2, <1>3, <1>4, <1>5, <1>6, <1>7 DEF Server, Run, HandleClient, RequestStop

\* Why connections are dropped, at each step.
LEMMA DropsJustified == ServerSpec => []DropInv
<1>1. ServerInit => DropInv
  BY DEF ServerInit, DropInv
<1>2. ASSUME ServerInv, DropInv, NEW c \in Clients, Client(c)
      PROVE  DropInv'
  BY <1>2
     DEF Client, Connect, Send, HangUp, ServerInv, DropInv, ServerTypes, ConnectionInv, flags,
         serving, sockets
<1>3. ServerInv /\ DropInv /\ UNCHANGED serverVars => DropInv'
  BY DEF DropInv, serverVars, flags, serving, sockets, clients
<1>4. ServerInv /\ DropInv /\ [ServerNext]_serverVars => DropInv'
  BY <1>2, <1>3, OwnerDrops, ServerDrops DEF ServerNext
<1> QED
  BY <1>1, <1>4, ServerInvariant, PTL DEF ServerSpec

\* No connection ends but by its client, by a server that is to stop, or with the
\* process.
THEOREM ServerKeepsConnections == ServerSpec => ConnectionKept
<1>1. ASSUME ServerInv, DropInv, [ServerNext]_serverVars, NEW c \in Clients,
             conn[c] = "connected", conn'[c] = "gone"
      PROVE  HangUp(c) \/ ~running \/ pc'.server = "terminated"
  <2> USE <1>1 DEF ServerInv, ServerTypes, ConnectionInv
  <2>1. UNCHANGED conn => FALSE
    BY <1>1
  <2>2. CASE Owner
    <3>1. CASE StopSockets("owner")
      <4>1. pc'.server = pc.server
        BY <3>1 DEF StopSockets, Continue
      <4> QED
        BY <3>1, <4>1 DEF StopSockets, StopInv
    <3> QED
      BY <2>1, <2>2, <3>1
         DEF Owner, RequestStop, Start, Stop, Join, WaitTest, WaitSleep, StopRunning,
             StopNotify, clients
  <2>3. CASE Server
    <3>1. CASE StopSockets("server")
      BY <2>1, <3>1 DEF StopSockets, StopInv
    <3>2. CASE Close
      BY <2>1, <3>2 DEF Close, DropInv
    <3>3. CASE ParseThrows
      BY <3>3 DEF ParseThrows
    <3> QED
      BY <2>1, <2>3, <3>1, <3>2, <3>3
         DEF Server, Run, HandleClient, RequestStop, StopRunning, StopNotify, Loop, Select,
             Accept, Publish, Unpublish, Serve, Recv, Line, SendOk, SendFails, clients
  <2>4. ASSUME NEW d \in Clients, Client(d)
        PROVE  HangUp(c)
    BY <2>1, <2>4 DEF Client, Connect, Send, HangUp
  <2>5. CASE UNCHANGED serverVars
    BY <2>1, <2>5 DEF serverVars, clients
  <2> QED
    BY <1>1, <2>2, <2>3, <2>4, <2>5 DEF ServerNext
<1>2. ServerInv /\ DropInv /\ [ServerNext]_serverVars =>
        [\A c \in Clients : conn[c] = "connected" /\ conn'[c] = "gone"
            => HangUp(c) \/ ~running \/ pc'.server = "terminated"]_serverVars
  BY <1>1
<1> QED
  BY <1>2, ServerInvariant, DropsJustified, PTL DEF ServerSpec, ConnectionKept

-----------------------------------------------------------------------------
(* The presets.                                                            *)

\* The settings of the engine, as a set and as a sequence without gaps.
LEMMA SettingsComplete ==
  /\ Settings \in Seq(SettingNames) /\ Settings # <<>>
  /\ \A s \in SettingNames : \E i \in DOMAIN Settings : Settings[i] = s
BY DEF Settings, SettingNames

\* The contents a file or a request may have are not those that mean something
\* else.
LEMMA ContentsApart ==
  /\ Contents \subseteq Whole /\ Default \in Whole
  /\ Absent \notin Whole /\ Partial \notin Whole /\ Absent # Partial
BY PresetAssumption DEF PresetAssumption, Whole, Default, Partial, Absent

\* Of what is left to set, the head is set next: the others are still left.
LEMMA NextSetting ==
  ASSUME NEW S, NEW todo \in Seq(S), todo # <<>>
  PROVE  /\ Head(todo) \in S /\ Tail(todo) \in Seq(S)
         /\ \A i \in DOMAIN todo : todo[i] # Head(todo) =>
              \E j \in DOMAIN Tail(todo) : Tail(todo)[j] = todo[i]
<1>1. Head(todo) \in S /\ Tail(todo) \in Seq(S) /\ Head(todo) = todo[1]
  OBVIOUS
<1>2. ASSUME NEW i \in DOMAIN todo, todo[i] # Head(todo)
      PROVE  \E j \in DOMAIN Tail(todo) : Tail(todo)[j] = todo[i]
  <2>1. i \in 1 .. Len(todo) /\ i # 1
    BY <1>1, <1>2
  <2>2. i - 1 \in 1 .. Len(Tail(todo)) /\ Tail(todo)[i - 1] = todo[i]
    BY <2>1
  <2> QED
    BY <2>2, <1>1
<1> QED
  BY <1>1, <1>2

USE DEF At, Actors

LEMMA IdleFits == Idle \in ActorState /\ Idle.at = "idle" /\ Idle.todo = <<>>
BY DEF Idle, To, ActorState, Labels

LEMMA EmptyIsSeq == <<>> \in Seq(Names)
OBVIOUS

LEMMA Roles == Cli \in Actors /\ Cli \notin Threads /\ Threads \subseteq Actors
BY PresetAssumption DEF PresetAssumption

LEMMA InitInvariant == Init => PresetInv
<1> SUFFICES ASSUME Init PROVE PresetInv
  OBVIOUS
<1>1. act = [a \in Actors |-> Idle] /\ temp = [a \in Actors |-> Absent]
  BY DEF Init
<1>2. \A a \in Actors : act[a].at = "idle" /\ act[a].todo = <<>> /\ temp[a] = Absent
  BY <1>1 DEF Idle, To
<1>3. TypeOK
  BY <1>1, IdleFits DEF Init, TypeOK
<1>4. Held
  <2>1. Cli \in Actors /\ <<>> \in Seq(Names)
    OBVIOUS
  <2> QED
    BY <1>2, <2>1 DEF Held, Writing
<1>5. TestHolds /\ ApplyTodo /\ Progress
  BY <1>2 DEF TestHolds, ApplyTodo, Progress, Writing
<1>6. CrashKeepsOldOrNew /\ EditsSurvive /\ AppliedWhole
  BY DEF Init, CrashKeepsOldOrNew, EditsSurvive, AppliedWhole
<1> QED
  BY <1>3, <1>4, <1>5, <1>6 DEF PresetInv

\* A step of one actor leaves the others where they are.
LEMMA OneMoves ==
  ASSUME TypeOK, NEW a \in Actors, NEW r \in ActorState, act' = [act EXCEPT ![a] = r]
  PROVE  /\ act' \in [Actors -> ActorState] /\ act'[a] = r
         /\ \A b \in Actors : b # a => act'[b] = act[b]
BY DEF TypeOK

LEMMA BeginKeeps ==
  ASSUME PresetInv, NEW t \in Threads, Begin(t)
  PROVE  PresetInv'
<1> USE Roles DEF PresetInv, history
<1>1. act[t].at = "idle" /\ UNCHANGED <<file, temp, engine, history>>
  BY DEF Begin, Request
<1>2. PICK n \in Names, c \in Whole \cup {Absent}, l \in {"mkstemp", "delete", "load"} :
        /\ act' = [act EXCEPT ![t] = To(l, n, c, <<>>)]
        /\ l = "mkstemp" => c \in Contents
  BY ContentsApart DEF Begin, Request, Become
<1>3. To(l, n, c, <<>>) \in ActorState
  BY DEF To, ActorState, Labels
<1>4. /\ act' \in [Actors -> ActorState] /\ act'[t] = To(l, n, c, <<>>)
      /\ \A b \in Actors : b # t => act'[b] = act[b]
  BY <1>2, <1>3, OneMoves
<1>5. /\ act'[t].at = l /\ act'[t].name = n /\ act'[t].content = c /\ act'[t].todo = <<>>
  BY <1>4 DEF To
<1>6. TypeOK'
  BY <1>1, <1>4 DEF TypeOK
<1>7. Held'
  BY <1>1, <1>2, <1>4, <1>5, ContentsApart DEF Held, Writing
<1>8. TestHolds' /\ ApplyTodo' /\ Progress'
  BY <1>1, <1>2, <1>4, <1>5 DEF TestHolds, ApplyTodo, Progress
<1>9. CrashKeepsOldOrNew' /\ EditsSurvive' /\ AppliedWhole'
  BY <1>1 DEF CrashKeepsOldOrNew, EditsSurvive, AppliedWhole
<1> QED
  BY <1>6, <1>7, <1>8, <1>9

LEMMA DeleteKeeps ==
  ASSUME PresetInv, NEW t \in Threads, Delete(t)
  PROVE  PresetInv'
<1> USE Roles DEF PresetInv
<1>1. /\ act[t].at = "delete" /\ UNCHANGED <<temp, engine, applied>>
      /\ act' = [act EXCEPT ![t] = Idle] /\ act[t].name \in Names
  BY DEF Delete, Done, Become, Held
<1>2. /\ act' \in [Actors -> ActorState] /\ act'[t] = Idle /\ act'[t].at = "idle"
      /\ \A b \in Actors : b # t => act'[b] = act[b]
  BY <1>1, OneMoves, IdleFits
<1>3. \/ UNCHANGED <<file, edited, raced>>
      \/ /\ file' = [file EXCEPT ![act[t].name] = Absent]
         /\ edited' = [edited EXCEPT ![act[t].name] = Absent]
         /\ raced' = IF act[Cli].name = act[t].name THEN raced \cup {act[t].name}
                     ELSE raced \ {act[t].name}
  BY DEF Delete, Edit
<1>4. TypeOK'
  BY <1>1, <1>2, <1>3 DEF TypeOK
<1>5. Held'
  BY <1>1, <1>2 DEF Held, Writing
<1>6. ApplyTodo' /\ Progress' /\ AppliedWhole'
  BY <1>1, <1>2 DEF ApplyTodo, Progress, AppliedWhole
<1>7. TestHolds'
  BY <1>1, <1>2, <1>3 DEF TestHolds, TypeOK, Held, Writing
<1>8. CrashKeepsOldOrNew' /\ EditsSurvive'
  BY <1>1, <1>3 DEF CrashKeepsOldOrNew, EditsSurvive, TypeOK
<1> QED
  BY <1>4, <1>5, <1>6, <1>7, <1>8

LEMMA LoadKeeps ==
  ASSUME PresetInv, NEW t \in Threads, Load(t)
  PROVE  PresetInv'
<1> USE Roles DEF PresetInv, history
<1>1. /\ act[t].at = "load" /\ act[t].name \in Names
      /\ UNCHANGED <<file, temp, engine, history>>
  BY DEF Load, Held
<1>2. CrashKeepsOldOrNew' /\ EditsSurvive' /\ AppliedWhole'
  BY <1>1 DEF CrashKeepsOldOrNew, EditsSurvive, AppliedWhole
<1>3. CASE Done(t)
  <2>1. /\ act' \in [Actors -> ActorState] /\ act'[t] = Idle /\ act'[t].at = "idle"
        /\ \A b \in Actors : b # t => act'[b] = act[b]
    BY <1>3, OneMoves, IdleFits DEF Done, Become
  <2>2. TypeOK'
    BY <1>1, <2>1 DEF TypeOK
  <2>3. Held'
    BY <1>1, <2>1 DEF Held, Writing
  <2>4. TestHolds' /\ ApplyTodo' /\ Progress'
    BY <1>1, <2>1 DEF TestHolds, ApplyTodo, Progress
  <2> QED
    BY <1>2, <2>2, <2>3, <2>4
<1>4. CASE ~Done(t)
  <2> DEFINE new == To("apply", act[t].name, file[act[t].name], Settings)
             others == {u \in Actors : At(u, "apply")}
  <2>1. /\ file[act[t].name] \in Whole
        /\ act' = [u \in Actors |->
                    IF u = t THEN [new EXCEPT !.alone = (others = {})]
                    ELSE IF u \in others THEN [act[u] EXCEPT !.alone = FALSE] ELSE act[u]]
    BY <1>4 DEF Load
  <2>2. new \in ActorState /\ new.at = "apply" /\ new.content \in Whole /\ new.todo = Settings
    BY <1>1, <2>1, SettingsComplete DEF To, ActorState, Labels
  <2>3. act'[t] = [new EXCEPT !.alone = (others = {})]
    BY <2>1
  <2>4. /\ act'[t] \in ActorState /\ act'[t].at = "apply" /\ act'[t].content = new.content
        /\ act'[t].todo = Settings /\ (act'[t].alone => others = {})
    BY <2>2, <2>3 DEF ActorState
  <2>5. \A u \in Actors : u # t =>
          /\ act'[u] \in ActorState /\ act'[u].at = act[u].at /\ act'[u].name = act[u].name
          /\ act'[u].content = act[u].content /\ act'[u].todo = act[u].todo
          /\ At(u, "apply") => ~act'[u].alone
    BY <2>1, ZenonT(30) DEF TypeOK, ActorState
  <2>6. TypeOK'
    BY <1>1, <2>1, <2>4, <2>5 DEF TypeOK
  <2>7. Held'
    BY <1>1, <2>2, <2>4, <2>5 DEF Held, Writing
  <2>8. TestHolds'
    BY <1>1, <2>5 DEF TestHolds
  <2>9. ApplyTodo'
    <3>1. Head(Settings) \in SettingNames
      BY SettingsComplete, NextSetting
    <3> QED
      BY <2>4, <2>5, <3>1, SettingsComplete DEF ApplyTodo
  <2>10. Progress'
    BY <1>1, <2>4, <2>5, SettingsComplete DEF Progress
  <2> QED
    BY <1>2, <2>6, <2>7, <2>8, <2>9, <2>10
<1> QED
  BY <1>3, <1>4

LEMMA ApplyKeeps ==
  ASSUME PresetInv, NEW t \in Threads, Apply(t)
  PROVE  PresetInv'
<1> USE Roles DEF PresetInv
<1> DEFINE todo == act[t].todo
           rest == Tail(todo)
<1>1. /\ act[t].at = "apply" /\ UNCHANGED <<file, temp, edited, raced>>
      /\ act[t].content \in Whole /\ act[t] \in ActorState
      /\ todo # <<>> /\ todo \in Seq(SettingNames) /\ Head(todo) \in SettingNames
  BY DEF Apply, Held, ApplyTodo, TypeOK
<1>2. /\ rest \in Seq(SettingNames)
      /\ \A s \in SettingNames : s # Head(todo) /\ (\E i \in DOMAIN todo : todo[i] = s) =>
           \E j \in DOMAIN rest : rest[j] = s
  BY <1>1, NextSetting
<1>3. CrashKeepsOldOrNew' /\ EditsSurvive'
  BY <1>1 DEF CrashKeepsOldOrNew, EditsSurvive
<1>4. PICK r \in ActorState :
        /\ act' = [act EXCEPT ![t] = r]
        /\ \/ r = Idle
           \/ r.at = "apply" /\ r.content = act[t].content /\ r.todo = rest /\ rest # <<>>
              /\ r.alone = act[t].alone /\ engine' = [engine EXCEPT ![Head(todo)] = act[t].content]
              /\ applied' = Absent
  <2>1. CASE Done(t)
    BY <2>1, IdleFits DEF Done, Become
  <2>2. CASE ~Done(t)
    <3>1. /\ act' = [act EXCEPT ![t].todo = rest] /\ rest # <<>>
          /\ engine' = [engine EXCEPT ![Head(todo)] = act[t].content] /\ applied' = Absent
      BY <2>2 DEF Apply
    <3>2. act' = [act EXCEPT ![t] = [act[t] EXCEPT !.todo = rest]]
      BY <3>1
    <3>3. [act[t] EXCEPT !.todo = rest] \in ActorState
      BY <1>1, <1>2, SMTT(30) DEF ActorState
    <3>4. /\ [act[t] EXCEPT !.todo = rest].at = "apply"
          /\ [act[t] EXCEPT !.todo = rest].content = act[t].content
          /\ [act[t] EXCEPT !.todo = rest].alone = act[t].alone
          /\ [act[t] EXCEPT !.todo = rest].todo = rest
      BY <1>1 DEF ActorState
    <3> QED
      BY <3>1, <3>2, <3>3, <3>4
  <2> QED
    BY <2>1, <2>2
<1>5. /\ act' \in [Actors -> ActorState] /\ act'[t] = r
      /\ \A b \in Actors : b # t => act'[b] = act[b]
  BY <1>4, OneMoves
<1>6. r.at = "idle" \/ (r.at = "apply" /\ r.content = act[t].content)
  BY <1>4, IdleFits
<1>7. \/ /\ engine' = [engine EXCEPT ![Head(todo)] = act[t].content]
         /\ applied' = IF rest = <<>> /\ act[t].alone THEN act[t].content ELSE Absent
      \/ UNCHANGED engine /\ applied' = Absent
  BY DEF Apply
<1>8. TypeOK'
  BY <1>1, <1>5, <1>7 DEF TypeOK
<1>9. Held'
  BY <1>1, <1>5, <1>6 DEF Held, Writing
<1>10. TestHolds'
  BY <1>1, <1>5 DEF TestHolds
<1>11. ApplyTodo'
  <2>1. rest # <<>> => Head(rest) \in SettingNames
    BY <1>2, NextSetting
  <2> QED
    BY <1>2, <1>4, <1>5, <2>1, IdleFits DEF ApplyTodo
<1>12. act[t].alone => \A s \in SettingNames : s = Head(todo) \/ engine[s] = act[t].content
                                             \/ \E j \in DOMAIN rest : rest[j] = s
  BY <1>1, <1>2 DEF Progress
<1>13. Progress'
  <2>1. ASSUME NEW v \in Threads, v # t, At(v, "apply")', act'[v].alone  PROVE FALSE
    BY <1>1, <1>5, <2>1 DEF Progress
  <2>2. ASSUME At(t, "apply")', act'[t].alone
        PROVE  /\ \A v \in Threads \ {t} : ~At(v, "apply")'
               /\ \A s \in SettingNames :
                    engine'[s] = act'[t].content \/ \E i \in DOMAIN act'[t].todo : act'[t].todo[i] = s
    <3>1. /\ r.content = act[t].content /\ r.todo = rest /\ act[t].alone
          /\ engine' = [engine EXCEPT ![Head(todo)] = act[t].content]
      BY <1>4, <1>5, <2>2, IdleFits
    <3>2. \A s \in SettingNames : engine'[s] = act[t].content \/ \E j \in DOMAIN rest : rest[j] = s
      BY <1>1, <1>12, <3>1 DEF TypeOK
    <3>3. \A v \in Threads \ {t} : ~At(v, "apply")'
      BY <1>1, <1>5, <3>1 DEF Progress
    <3> QED
      BY <1>5, <3>1, <3>2, <3>3
  <2> QED
    BY <2>1, <2>2 DEF Progress
<1>14. AppliedWhole'
  <2>1. CASE rest = <<>> /\ act[t].alone
    BY <1>1, <1>7, <1>12, <2>1, ContentsApart DEF AppliedWhole, TypeOK
  <2>2. CASE ~(rest = <<>> /\ act[t].alone)
    BY <1>7, <2>2 DEF AppliedWhole
  <2> QED
    BY <2>1, <2>2
<1> QED
  BY <1>3, <1>8, <1>9, <1>10, <1>11, <1>13, <1>14

\* mkstemp, and a write or rename that fails, change only the actor and its
\* temporary file.
LEMMA MkstempKeeps ==
  ASSUME PresetInv, NEW a \in Actors, Mkstemp(a)
  PROVE  PresetInv'
<1> USE Roles DEF PresetInv, history
<1>1. /\ act[a].at = "mkstemp" /\ act[a] \in ActorState /\ temp[a] = Absent
      /\ act[a].content \in Whole /\ act[a].name \in Names
      /\ UNCHANGED <<file, engine, history>>
  BY DEF Mkstemp, TypeOK, Held, Writing
<1>2. CrashKeepsOldOrNew' /\ EditsSurvive' /\ AppliedWhole'
  BY <1>1 DEF CrashKeepsOldOrNew, EditsSurvive, AppliedWhole
<1>3. CASE temp' = [temp EXCEPT ![a] = Partial] /\ Goto(a, "write")
  <2> DEFINE r == [act[a] EXCEPT !.at = "write"]
  <2>1. /\ r \in ActorState /\ r.at = "write" /\ r.content = act[a].content
        /\ r.name = act[a].name /\ r.todo = act[a].todo
    BY <1>1 DEF ActorState, Labels
  <2>2. act' = [act EXCEPT ![a] = r]
    BY <1>3 DEF Goto
  <2>3. /\ act' \in [Actors -> ActorState] /\ act'[a] = r
        /\ \A b \in Actors : b # a => act'[b] = act[b]
    BY <2>1, <2>2, OneMoves
  <2> HIDE DEF r
  <2>4. TypeOK'
    BY <1>1, <1>3, <2>3 DEF TypeOK
  <2>5. /\ temp'[a] # Absent /\ \A b \in Actors : b # a => temp'[b] = temp[b]
    BY <1>3, ContentsApart DEF TypeOK
  <2>6. Held'
    BY <1>1, <2>1, <2>3, <2>5 DEF Held, Writing
  <2>7. TestHolds'
    BY <1>1, <2>1, <2>3 DEF TestHolds, Writing
  <2>8. ApplyTodo' /\ Progress'
    BY <1>1, <2>1, <2>3 DEF ApplyTodo, Progress
  <2> QED
    BY <1>2, <2>4, <2>6, <2>7, <2>8
<1>4. CASE Done(a) /\ UNCHANGED temp
  <2>1. /\ act' \in [Actors -> ActorState] /\ act'[a].at = "idle" /\ act'[a].todo = <<>>
        /\ \A b \in Actors : b # a => act'[b] = act[b]
    BY <1>4, OneMoves, IdleFits DEF Done, Become
  <2>2. TypeOK'
    BY <1>1, <1>4, <2>1 DEF TypeOK
  <2>3. Held'
    BY <1>1, <1>4, <2>1, EmptyIsSeq, ZenonT(30) DEF Held, Writing
  <2>4. TestHolds' /\ ApplyTodo' /\ Progress'
    BY <1>1, <2>1 DEF TestHolds, ApplyTodo, Progress, Writing
  <2> QED
    BY <1>2, <2>2, <2>3, <2>4
<1> QED
  BY <1>3, <1>4 DEF Mkstemp

LEMMA CleanupKeeps ==
  ASSUME PresetInv, NEW a \in Actors, act[a].at \in {"write", "replace"}, Cleanup(a),
         UNCHANGED <<file, engine, history>>
  PROVE  PresetInv'
<1> USE Roles DEF PresetInv, history
<1>1. /\ act' \in [Actors -> ActorState] /\ act'[a].at = "idle" /\ act'[a].todo = <<>>
      /\ \A b \in Actors : b # a => act'[b] = act[b]
  BY OneMoves, IdleFits DEF Cleanup, Done, Become
<1>2. temp' = [temp EXCEPT ![a] = Absent]
  BY DEF Cleanup
<1>3. TypeOK'
  BY <1>1, <1>2 DEF TypeOK
<1>4. temp'[a] = Absent /\ \A b \in Actors : b # a => temp'[b] = temp[b]
  BY <1>2 DEF TypeOK
<1>5. Held'
  <2>1. \A b \in Actors :
          /\ (temp'[b] # Absent) <=> act'[b].at \in {"write", "replace"}
          /\ act'[b].at = "replace" => temp'[b] = act'[b].content
          /\ act'[b].at \in Writing \cup {"apply"} => act'[b].content \in Whole
          /\ act'[b].at \in Writing \cup {"delete", "load"} => act'[b].name \in Names
    BY <1>1, <1>4 DEF Held, Writing
  <2>2. \A t \in Threads : act'[t].at # "exists" /\ (act'[t].at \in Writing => act'[t].content \in Contents)
    BY <1>1 DEF Held, Writing
  <2>3. /\ act'[Cli].at \in Writing \cup {"idle", "exists"} /\ act'[Cli].todo \in Seq(Names)
        /\ act'[Cli].at = "exists" => act'[Cli].todo # <<>> /\ act'[Cli].content = Default
    BY <1>1, EmptyIsSeq DEF Held
  <2> QED
    BY <2>1, <2>2, <2>3 DEF Held
<1>6. TestHolds' /\ ApplyTodo' /\ Progress'
  BY <1>1 DEF TestHolds, ApplyTodo, Progress, Writing
<1>7. CrashKeepsOldOrNew' /\ EditsSurvive' /\ AppliedWhole'
  BY DEF CrashKeepsOldOrNew, EditsSurvive, AppliedWhole
<1> QED
  BY <1>3, <1>5, <1>6, <1>7

LEMMA WriteKeeps ==
  ASSUME PresetInv, NEW a \in Actors, Write(a)
  PROVE  PresetInv'
<1> USE Roles DEF PresetInv, history
<1>1. /\ act[a].at = "write" /\ act[a] \in ActorState
      /\ act[a].content \in Whole /\ act[a].name \in Names
      /\ UNCHANGED <<file, engine, history>>
  BY DEF Write, TypeOK, Held, Writing
<1>2. CASE temp' = [temp EXCEPT ![a] = act[a].content] /\ Goto(a, "replace")
  <2> DEFINE r == [act[a] EXCEPT !.at = "replace"]
  <2>1. /\ r \in ActorState /\ r.at = "replace" /\ r.content = act[a].content
        /\ r.name = act[a].name /\ r.todo = act[a].todo
    BY <1>1 DEF ActorState, Labels
  <2>2. act' = [act EXCEPT ![a] = r]
    BY <1>2 DEF Goto
  <2>3. /\ act' \in [Actors -> ActorState] /\ act'[a] = r
        /\ \A b \in Actors : b # a => act'[b] = act[b]
    BY <2>1, <2>2, OneMoves
  <2> HIDE DEF r
  <2>4. TypeOK'
    BY <1>1, <1>2, <2>3 DEF TypeOK
  <2>5. /\ temp'[a] = act[a].content /\ temp'[a] # Absent
        /\ \A b \in Actors : b # a => temp'[b] = temp[b]
    BY <1>1, <1>2, ContentsApart DEF TypeOK
  <2>6. Held'
    BY <1>1, <2>1, <2>3, <2>5 DEF Held, Writing
  <2>7. TestHolds'
    BY <1>1, <2>1, <2>3 DEF TestHolds, Writing
  <2>8. ApplyTodo' /\ Progress'
    BY <1>1, <2>1, <2>3 DEF ApplyTodo, Progress
  <2>9. CrashKeepsOldOrNew' /\ EditsSurvive' /\ AppliedWhole'
    BY <1>1 DEF CrashKeepsOldOrNew, EditsSurvive, AppliedWhole
  <2> QED
    BY <2>4, <2>6, <2>7, <2>8, <2>9
<1>3. CASE Cleanup(a)
  BY <1>1, <1>3, CleanupKeeps
<1> QED
  BY <1>2, <1>3 DEF Write

\* The rename: the file is what the temporary file was, and a user's save is
\* recorded.  The installer's replaces nothing that was saved before its test.
LEMMA ReplaceKeeps ==
  ASSUME PresetInv, NEW a \in Actors, Replace(a)
  PROVE  PresetInv'
<1> USE Roles DEF PresetInv
<1> DEFINE n == act[a].name
<1>1. /\ act[a].at = "replace" /\ act[a] \in ActorState
      /\ act[a].content \in Whole /\ n \in Names /\ temp[a] = act[a].content
      /\ a # Cli => a \in Threads /\ act[a].content \in Contents
      /\ UNCHANGED <<engine, applied>>
  BY DEF Replace, TypeOK, Held, Writing
<1>2. CASE Cleanup(a) /\ UNCHANGED <<file, edited, raced>>
  BY <1>1, <1>2, CleanupKeeps DEF history
<1>3. CASE ~(Cleanup(a) /\ UNCHANGED <<file, edited, raced>>)
  <2>1. /\ file' = [file EXCEPT ![n] = temp[a]] /\ temp' = [temp EXCEPT ![a] = Absent]
        /\ IF a = Cli THEN UNCHANGED <<edited, raced>> ELSE Edit(n, temp[a])
        /\ AfterWrite(a)
    BY <1>3 DEF Replace
  <2>2. PICK r \in ActorState :
          /\ act' = [act EXCEPT ![a] = r]
          /\ \/ r = Idle
             \/ r = To("exists", Absent, Default, act[a].todo) /\ a = Cli /\ act[a].todo # <<>>
    <3>1. To("exists", Absent, Default, act[a].todo) \in ActorState
      BY <1>1, ContentsApart DEF To, ActorState, Labels
    <3> QED
      BY <2>1, <3>1, IdleFits DEF AfterWrite, Done, Become
  <2>3. /\ act' \in [Actors -> ActorState] /\ act'[a] = r
        /\ \A b \in Actors : b # a => act'[b] = act[b]
    BY <2>2, OneMoves
  <2>4. \/ r.at = "idle" /\ r.todo = <<>>
        \/ /\ r.at = "exists" /\ a = Cli /\ r.todo = act[a].todo /\ r.todo # <<>>
           /\ r.content = Default
    BY <2>2, IdleFits DEF To
  <2>5. /\ temp'[a] = Absent /\ \A b \in Actors : b # a => temp'[b] = temp[b]
        /\ file'[n] = act[a].content /\ \A m \in Names : m # n => file'[m] = file[m]
    BY <1>1, <2>1 DEF TypeOK
  <2>6. /\ edited' \in [Names -> Contents \cup {Absent}] /\ raced' \subseteq Names
        /\ \A m \in Names : m # n => edited'[m] = edited[m] /\ (m \in raced' <=> m \in raced)
        /\ a # Cli => edited'[n] = act[a].content /\ (act[Cli].name = n => n \in raced')
        /\ a = Cli => UNCHANGED <<edited, raced>>
    BY <1>1, <2>1 DEF TypeOK, Edit
  <2>7. TypeOK'
    BY <1>1, <2>1, <2>3, <2>6 DEF TypeOK
  <2>8. Held'
    <3>1. \A b \in Actors :
            /\ (temp'[b] # Absent) <=> act'[b].at \in {"write", "replace"}
            /\ act'[b].at = "replace" => temp'[b] = act'[b].content
            /\ act'[b].at \in Writing \cup {"apply"} => act'[b].content \in Whole
            /\ act'[b].at \in Writing \cup {"delete", "load"} => act'[b].name \in Names
      BY <2>3, <2>4, <2>5 DEF Held, Writing
    <3>2. \A t \in Threads : act'[t].at # "exists" /\ (act'[t].at \in Writing => act'[t].content \in Contents)
      BY <2>3, <2>4 DEF Held, Writing
    <3>3. /\ act'[Cli].at \in Writing \cup {"idle", "exists"} /\ act'[Cli].todo \in Seq(Names)
          /\ act'[Cli].at = "exists" => act'[Cli].todo # <<>> /\ act'[Cli].content = Default
      BY <2>3, <2>4, EmptyIsSeq DEF Held
    <3> QED
      BY <3>1, <3>2, <3>3 DEF Held
  <2>9. TestHolds'
    BY <1>1, <2>3, <2>4, <2>6 DEF TestHolds, Writing, Held
  <2>10. ApplyTodo' /\ Progress'
    BY <1>1, <2>3, <2>4 DEF ApplyTodo, Progress
  <2>11. CrashKeepsOldOrNew' /\ AppliedWhole'
    BY <1>1, <2>5 DEF CrashKeepsOldOrNew, AppliedWhole
  <2>12. EditsSurvive'
    BY <1>1, <2>5, <2>6 DEF EditsSurvive, TestHolds, Writing
  <2> QED
    BY <2>7, <2>8, <2>9, <2>10, <2>11, <2>12
<1> QED
  BY <1>2, <1>3

LEMMA InstallKeeps ==
  ASSUME PresetInv, Install
  PROVE  PresetInv'
<1> USE Roles DEF PresetInv, history
<1> DEFINE r == To("exists", Absent, Default, Bundled)
<1>1. /\ act[Cli].at = "idle" /\ UNCHANGED <<file, temp, engine, history>>
      /\ act' = [act EXCEPT ![Cli] = r]
  BY DEF Install, Become
<1>2. Bundled \in Seq(Names) /\ Bundled # <<>> /\ Bundled \in Seq(Names \cup SettingNames)
  BY PresetAssumption DEF PresetAssumption
<1>3. /\ r \in ActorState /\ r.at = "exists" /\ r.content = Default /\ r.todo = Bundled
  BY <1>2, ContentsApart DEF To, ActorState, Labels
<1> HIDE DEF r
<1>4. /\ act' \in [Actors -> ActorState] /\ act'[Cli] = r
      /\ \A b \in Actors : b # Cli => act'[b] = act[b]
  BY <1>1, <1>3, OneMoves
<1>5. TypeOK' /\ CrashKeepsOldOrNew' /\ EditsSurvive' /\ AppliedWhole'
  BY <1>1, <1>4 DEF TypeOK, CrashKeepsOldOrNew, EditsSurvive, AppliedWhole
<1>6. Held'
  BY <1>1, <1>2, <1>3, <1>4 DEF Held, Writing
<1>7. TestHolds' /\ ApplyTodo' /\ Progress'
  BY <1>1, <1>3, <1>4 DEF TestHolds, ApplyTodo, Progress, Writing
<1> QED
  BY <1>5, <1>6, <1>7

\* The installer's test: what is not there has not been saved since, or was
\* overwritten before.
LEMMA ExistsKeeps ==
  ASSUME PresetInv, Exists
  PROVE  PresetInv'
<1> USE Roles DEF PresetInv, history
<1> DEFINE n == Head(act[Cli].todo)
           rest == Tail(act[Cli].todo)
<1>1. /\ act[Cli].at = "exists" /\ UNCHANGED <<file, temp, engine, history>>
      /\ act[Cli].todo # <<>> /\ act[Cli].todo \in Seq(Names)
  BY DEF Exists, Held
<1>2. n \in Names /\ rest \in Seq(Names) /\ rest \in Seq(Names \cup SettingNames)
  BY <1>1, NextSetting
<1>3. PICK r \in ActorState :
        /\ act' = [act EXCEPT ![Cli] = r] /\ r.todo \in Seq(Names)
        /\ \/ r.at = "mkstemp" /\ r.name = n /\ r.content = Default /\ file[n] = Absent
           \/ r.at = "idle"
           \/ r.at = "exists" /\ r.content = Default /\ r.todo # <<>>
  <2>1. CASE file[n] = Absent
    <3>1. act' = [act EXCEPT ![Cli] = To("mkstemp", n, Default, rest)]
      BY <2>1 DEF Exists, Become
    <3>2. /\ To("mkstemp", n, Default, rest) \in ActorState
      BY <1>2, ContentsApart DEF To, ActorState, Labels
    <3> QED
      BY <1>2, <2>1, <3>1, <3>2 DEF To
  <2>2. CASE file[n] # Absent /\ rest = <<>>
    <3>1. act' = [act EXCEPT ![Cli] = Idle]
      BY <2>2 DEF Exists, Done, Become
    <3> QED
      BY <3>1, IdleFits, EmptyIsSeq
  <2>3. CASE file[n] # Absent /\ rest # <<>>
    <3>1. act' = [act EXCEPT ![Cli] = To("exists", Absent, Default, rest)]
      BY <2>3 DEF Exists, Become
    <3>2. /\ To("exists", Absent, Default, rest) \in ActorState
      BY <1>2, ContentsApart DEF To, ActorState, Labels
    <3> QED
      BY <1>2, <2>3, <3>1, <3>2 DEF To
  <2> QED
    BY <2>1, <2>2, <2>3
<1>4. /\ act' \in [Actors -> ActorState] /\ act'[Cli] = r
      /\ \A b \in Actors : b # Cli => act'[b] = act[b]
  BY <1>3, OneMoves
<1>5. TypeOK' /\ CrashKeepsOldOrNew' /\ EditsSurvive' /\ AppliedWhole'
  BY <1>1, <1>4 DEF TypeOK, CrashKeepsOldOrNew, EditsSurvive, AppliedWhole
<1>6. Held'
  BY <1>1, <1>2, <1>3, <1>4, ContentsApart DEF Held, Writing
<1>7. TestHolds'
  BY <1>1, <1>2, <1>3, <1>4 DEF TestHolds, Writing, EditsSurvive
<1>8. ApplyTodo' /\ Progress'
  BY <1>1, <1>3, <1>4 DEF ApplyTodo, Progress
<1> QED
  BY <1>5, <1>6, <1>7, <1>8

LEMMA CrashKeeps ==
  ASSUME PresetInv, NEW process \in SUBSET Actors, Crash(process)
  PROVE  PresetInv'
<1> USE Roles DEF PresetInv, history
<1>1. UNCHANGED <<file, engine, history>>
  BY DEF Crash
<1>2. \A b \in Actors : /\ act'[b] = IF b \in process THEN Idle ELSE act[b]
                        /\ temp'[b] = IF b \in process THEN Absent ELSE temp[b]
  BY DEF Crash
<1>3. TypeOK'
  BY <1>1, IdleFits DEF TypeOK, Crash
<1>4. Held'
  BY <1>2, IdleFits, EmptyIsSeq, ZenonT(30) DEF Held, Writing
<1>5. TestHolds' /\ ApplyTodo' /\ Progress'
  BY <1>1, <1>2, IdleFits DEF TestHolds, ApplyTodo, Progress, Writing
<1>6. CrashKeepsOldOrNew' /\ EditsSurvive' /\ AppliedWhole'
  BY <1>1 DEF CrashKeepsOldOrNew, EditsSurvive, AppliedWhole
<1> QED
  BY <1>3, <1>4, <1>5, <1>6

-----------------------------------------------------------------------------
(* Every file, edit and apply is right in every reachable state, whatever    *)
(* the threads, the presets and the bounds are.                              *)

THEOREM PresetInvariant == Spec => []PresetInv
<1>1. Init => PresetInv
  BY InitInvariant
<1>2. PresetInv /\ [Next]_vars => PresetInv'
  <2> SUFFICES ASSUME PresetInv, [Next]_vars PROVE PresetInv'
    OBVIOUS
  <2>1. CASE \E t \in Threads : Begin(t) \/ Delete(t) \/ Load(t) \/ Apply(t)
    BY <2>1, BeginKeeps, DeleteKeeps, LoadKeeps, ApplyKeeps
  <2>2. CASE \E a \in Actors : Mkstemp(a) \/ Write(a) \/ Replace(a)
    BY <2>2, MkstempKeeps, WriteKeeps, ReplaceKeeps
  <2>3. CASE Install \/ Exists
    BY <2>3, InstallKeeps, ExistsKeeps
  <2>4. CASE Crash(Threads) \/ Crash({Cli})
    BY <2>4, CrashKeeps, Roles
  <2>5. CASE UNCHANGED vars
    BY <2>5 DEF vars, history, PresetInv, TypeOK, Held, TestHolds, ApplyTodo, Progress,
                CrashKeepsOldOrNew, EditsSurvive, AppliedWhole
  <2> QED
    BY <2>1, <2>2, <2>3, <2>4, <2>5 DEF Next
<1> QED
  BY <1>1, <1>2, PTL DEF Spec

\* No crash, failed write or meeting of writers leaves a file that is not a
\* whole preset.
THEOREM PresetsStayWhole == Spec => []CrashKeepsOldOrNew
BY PresetInvariant, PTL DEF PresetInv

\* No run of the installer undoes what a user saved before its test.
THEOREM PresetEditsSurvive == Spec => []EditsSurvive
BY PresetInvariant, PTL DEF PresetInv

\* An undisturbed apply that succeeds leaves exactly the preset in the engine.
THEOREM PresetAppliedWhole == Spec => []AppliedWhole
BY PresetInvariant, PTL DEF PresetInv
=============================================================================
