------------------------------ MODULE WebPanel ------------------------------
(***************************************************************************)
(* The engine card and the status socket of the web panel                  *)
(* (src/gitar_server/web/app.js): a page that asks for the engine's status *)
(* every half second whether or not the last answer has come, posts what   *)
(* the user does, and shows every answer when it arrives.                  *)
(*                                                                         *)
(* Each request is a connection of its own: requests may be handled, and   *)
(* answers arrive, in any order.  Of the engine, whether it runs, its EQ   *)
(* and whether the server can talk to it matter.  The gate, the metronome, *)
(* the model and the recording are posted and shown like Stop; the tuner's *)
(* timer is started and stopped with the poll and shows only what it got.  *)
(***************************************************************************)
EXTENDS Naturals, FiniteSets

CONSTANTS Bands,       \* the bands of the EQ, each with a slider
          Settings,    \* positions of a slider
          Neutral,     \* that of a new engine
          None,
          MaxRequests, \* bound: requests under way, which a browser bounds too
          MaxEvents    \* bound: settings the user changes, buttons he presses,
                       \* restarts of the server, failures while it is up

ASSUME WebPanelAssumption ==
  /\ Neutral \in Settings /\ None \notin Settings
  /\ None \notin [Bands -> Settings]
  /\ MaxRequests \in Nat /\ MaxEvents \in Nat

Requests == 1 .. MaxRequests
Eq == [Bands -> Settings]
Flat == [b \in Bands |-> Neutral]
Fresh == [running |-> FALSE, eq |-> Flat]
Status == [running : BOOLEAN, eq : Eq \cup {None}]

CONSTANT Engines     \* what may be there when the page is loaded

ASSUME EnginesAssumption == Engines \subseteq [running : BOOLEAN, eq : Eq]

\* A request is sent, then handled, and its answer, or its failure, arrives.
NoRequest == [phase |-> "free"]
Sent(kind, eq) == [phase |-> "sent", kind |-> kind, eq |-> eq]
Answered(kind, status) ==
  [phase |-> "answered", kind |-> kind, status |-> status]
Failed(kind) == [phase |-> "failed", kind |-> kind]
Kinds == {"poll", "start", "stop", "gain", "eq", "route"}

\* What the user does with the EQ: nothing, or he has one of its sliders.
Away == [at |-> "away"]
Focused(b) == [at |-> "focus", band |-> b]
Dragging(b, v) == [at |-> "drag", band |-> b, from |-> v]

\* No setting for any band.
Nothing == [b \in Bands |-> None]

VARIABLES
  up,            \* is the server there?
  engine,        \* the engine's status
  stream,        \* the server's to the engine: "sound", "timed out" or "dead"
  request,       \* the requests under way
  available,     \* state.engineAvailable: are the controls enabled?
  running,       \* state.engineRunning
  slider,        \* where the EQ sliders stand
  user,          \* what the user does with them
  put,           \* history: where he has put them since he took the first
  eqTimer,       \* eqTimer: is a post of the EQ due?
  hidden,        \* document.hidden
  engineTimer,   \* engineTimer: "null", "live", or "dead" once it was cleared
  socket,        \* "connecting", "open", "lost", or "closed" for the moment
  pill,          \* does the pill show a route, or "offline"?
  wanted,        \* history: what the engine is to have, as far as is known
  events

server == <<up, engine, stream>>
shown == <<available, running, slider>>
hand == <<user, put>>
post == <<eqTimer, wanted>>
page == <<hidden, engineTimer>>
link == <<socket, pill>>
rest == <<page, link, events>>
vars == <<server, request, shown, hand, post, rest>>

Init ==
  /\ up = TRUE /\ stream = "sound" /\ events = 0
  /\ engine \in Engines
  /\ request = [r \in Requests |-> NoRequest]
  /\ available = TRUE /\ running = FALSE /\ slider = Flat
  /\ user = Away /\ put = Nothing
  /\ eqTimer = FALSE /\ wanted = Nothing
  /\ hidden = FALSE /\ engineTimer = "live"
  /\ socket = "connecting" /\ pill = "offline"

-----------------------------------------------------------------------------
(* Requests.                                                               *)

Event == events < MaxEvents /\ events' = events + 1

Free == {r \in Requests : request[r] = NoRequest}

Post(kind, eq) ==
  /\ Free # {}
  /\ request' = [request EXCEPT ![CHOOSE r \in Free : TRUE] = Sent(kind, eq)]

\* setEngineEq() posts all the sliders, as they stand.  A band is wanted no longer
\* when its slider has been moved by an answer since the user set it, or when an
\* earlier post that says otherwise may yet overtake this one.
Contested(b) ==
  \E r \in Requests : /\ request[r].phase = "sent" /\ request[r].kind = "eq"
                      /\ request[r].eq[b] # slider'[b]
PostEq(set) ==
  /\ Post("eq", slider')
  /\ wanted' = [b \in Bands |->
       IF slider'[b] = set[b] /\ ~Contested(b) THEN set[b] ELSE None]

\* refreshEngineStatus(), on the timer.
Poll ==
  /\ engineTimer = "live"
  /\ Post("poll", None)
  /\ UNCHANGED <<server, shown, hand, post, rest>>

\* The engine does what it is asked and answers with its status.  The answer to
\* a gain is the gain and nothing else, which reads as an engine that does not
\* run; that to a route is not the engine's.  The panel starts the engine
\* without an EQ, and so flat; one that fails may have come that far.
Does(kind, eq) ==
  CASE kind \in {"poll", "gain", "route"} -> engine
    [] kind = "stop" -> [engine EXCEPT !.running = FALSE]
    [] kind = "eq" -> [engine EXCEPT !.eq = eq]
    [] kind = "start" -> [running |-> TRUE, eq |-> Flat]

DoesInPart(kind, eq) ==
  {engine, Does(kind, eq)} \cup
    {[Fresh EXCEPT !.eq = e] : e \in IF kind = "start" THEN {engine.eq, Flat} ELSE {}}

Handle(r) ==
  /\ up /\ request[r].phase = "sent"
  /\ stream = "sound" \/ request[r].kind = "route"
  /\ LET kind == request[r].kind IN
       /\ engine' = Does(kind, request[r].eq)
       /\ request' = [request EXCEPT ![r] = Answered(kind,
            CASE kind = "gain" -> [running |-> FALSE, eq |-> None]
              [] kind = "route" -> None
              [] OTHER -> engine')]
       /\ wanted' = IF kind = "start" THEN Nothing ELSE wanted
  /\ UNCHANGED <<up, stream, shown, hand, eqTimer, rest>>

\* Anything may fail, the engine having done what it was asked or not.  Once its
\* stream has timed out, or the engine has died, everything fails: the server
\* takes a stream it has for a connection and makes no other.
Fails(r) ==
  /\ up /\ request[r].phase = "sent"
  /\ LET kind == request[r].kind IN
       /\ \/ kind = "route" /\ Event /\ UNCHANGED stream
          \/ /\ kind # "route" /\ stream = "sound"
             /\ stream' \in {"sound", "timed out"}
             /\ IF kind = "start" THEN UNCHANGED events ELSE Event
          \/ kind # "route" /\ stream # "sound" /\ UNCHANGED <<stream, events>>
       /\ engine' \in IF stream = "dead" THEN {engine}
                                         ELSE DoesInPart(kind, request[r].eq)
       /\ request' = [request EXCEPT ![r] = Failed(kind)]
       /\ wanted' = IF kind \in {"start", "eq"} THEN Nothing ELSE wanted
  /\ UNCHANGED <<up, shown, hand, eqTimer, page, link>>

\* No server, no answer.
Refuse(r) ==
  /\ ~up /\ request[r].phase = "sent"
  /\ request' = [request EXCEPT ![r] = Failed(request[r].kind)]
  /\ wanted' = IF request[r].kind = "eq" THEN Nothing ELSE wanted
  /\ UNCHANGED <<server, shown, hand, eqTimer, rest>>

\* A panel that shows the EQ whatever the user is doing with it.
Render_Careless(status) ==
  /\ available' = TRUE /\ running' = status.running
  /\ slider' = IF status.eq = None THEN slider ELSE status.eq

\* renderEngineStatus(): the sliders are set, all of them, unless the user has one.
Render(status) ==
  /\ available' = TRUE /\ running' = status.running
  /\ slider' = IF status.eq = None \/ user # Away THEN slider ELSE status.eq

Deliver(r) ==
  /\ request[r].phase = "answered"
  /\ request' = [request EXCEPT ![r] = NoRequest]
  /\ IF request[r].kind = "route"
       THEN pill' = "route" /\ UNCHANGED shown
       ELSE Render(request[r].status) /\ UNCHANGED pill
  /\ UNCHANGED <<server, hand, post, page, socket, events>>

\* A poll that fails takes the card offline; a post only says so.
DeliverFailure(r) ==
  /\ request[r].phase = "failed"
  /\ request' = [request EXCEPT ![r] = NoRequest]
  /\ IF request[r].kind = "poll"
       THEN available' = FALSE /\ running' = FALSE
       ELSE UNCHANGED <<available, running>>
  /\ UNCHANGED <<server, slider, hand, post, rest>>

-----------------------------------------------------------------------------
(* The user and the EQ sliders.                                            *)

\* pointerdown.
Press(b) ==
  /\ user.at # "drag" /\ available
  /\ user' = Dragging(b, slider[b])
  /\ UNCHANGED <<server, request, shown, put, post, rest>>

Puts(b, v) ==
  /\ slider' = [slider EXCEPT ![b] = v]
  /\ put' = [put EXCEPT ![b] = v]

\* input: the post is put off as long as the slider moves.
Slide(v) ==
  /\ user.at = "drag" /\ available /\ Event
  /\ Puts(user.band, v)
  /\ eqTimer' = TRUE /\ wanted' = [wanted EXCEPT ![user.band] = v]
  /\ UNCHANGED <<server, request, available, running, user, page, link>>

LetGo == user' = Away /\ put' = Nothing
KeepFocus == user' = Focused(user.band) /\ UNCHANGED put

\* A release that cancels the post which is due and makes none.
Release_Cancels ==
  /\ user.at = "drag"
  /\ LetGo \/ KeepFocus
  /\ eqTimer' = (eqTimer /\ slider[user.band] = user.from)
  /\ UNCHANGED <<server, request, shown, wanted, rest>>

\* pointerup, with change when the slider is not where it was: the post that
\* was due is made at once.  A slider disabled meanwhile may not get the event,
\* and not every browser leaves the focus on a slider.
Release ==
  /\ user.at = "drag"
  /\ LetGo \/ KeepFocus
  /\ UNCHANGED <<server, shown, rest>>
  /\ \/ slider[user.band] # user.from /\ eqTimer' = FALSE /\ PostEq(wanted)
     \/ /\ slider[user.band] = user.from \/ ~available
        /\ UNCHANGED <<eqTimer, request, wanted>>

\* A key on a focused slider: input and change.
Key(v) ==
  /\ user.at = "focus" /\ available /\ Event
  /\ Puts(user.band, v)
  /\ eqTimer' = FALSE /\ PostEq([wanted EXCEPT ![user.band] = v])
  /\ UNCHANGED <<server, available, running, user, page, link>>

Focus(b) ==
  /\ user.at # "drag" /\ available
  /\ user' = Focused(b)
  /\ UNCHANGED <<server, request, shown, put, post, rest>>

Blur ==
  /\ user.at = "focus"
  /\ LetGo
  /\ UNCHANGED <<server, request, shown, post, rest>>

\* scheduleEngineEq()'s timer.
EqDue ==
  /\ eqTimer
  /\ eqTimer' = FALSE
  /\ UNCHANGED <<server, shown, hand, rest>>
  /\ PostEq(wanted)

\* The other controls, as far as they are enabled.  (Before the first answer Stop
\* is, too.)
Click(kind) ==
  /\ user.at # "drag" /\ Event
  /\ \/ kind = "start" /\ available /\ ~running
     \/ kind = "stop" /\ available /\ running
     \/ kind = "gain" /\ available
     \/ kind = "route"
  /\ Post(kind, None)
  /\ LetGo
  /\ UNCHANGED <<server, shown, post, page, link>>

-----------------------------------------------------------------------------
(* visibilitychange.                                                       *)

\* A stop that leaves the timer's number where the next start looks for it.
Hide_KeepsNumber ==
  /\ ~hidden
  /\ hidden' = TRUE /\ engineTimer' = "dead"
  /\ UNCHANGED <<server, request, shown, hand, post, link, events>>

Hide ==
  /\ ~hidden
  /\ hidden' = TRUE /\ engineTimer' = "null"
  /\ UNCHANGED <<server, request, shown, hand, post, link, events>>

\* One poll at once, and the timer unless there is one.
Show ==
  /\ hidden
  /\ hidden' = FALSE
  /\ engineTimer' = IF engineTimer = "null" THEN "live" ELSE engineTimer
  /\ Post("poll", None)
  /\ UNCHANGED <<server, shown, hand, post, link, events>>

-----------------------------------------------------------------------------
(* connectWs() and the server.                                             *)

\* The server accepts, and sends the status again and again.
Open ==
  /\ socket = "connecting" /\ up
  /\ socket' = "open" /\ pill' = "route"
  /\ UNCHANGED <<server, request, shown, hand, post, page, events>>

\* It lets the connection go when the status cannot be had, before the first message
\* or after any.
SnapshotFails ==
  /\ socket \in {"connecting", "open"} /\ up /\ Event
  /\ socket' = "lost"
  /\ UNCHANGED <<server, request, shown, hand, post, page, pill>>

\* A close that leaves the pill to the next message.
Close_PillStays ==
  /\ socket = "lost" \/ (socket = "connecting" /\ ~up)
  /\ socket' = "closed"
  /\ UNCHANGED <<server, request, shown, hand, post, page, pill, events>>

\* close: of a connection that was lost or did not come about.
Close ==
  /\ socket = "lost" \/ (socket = "connecting" /\ ~up)
  /\ socket' = "closed" /\ pill' = "offline"
  /\ UNCHANGED <<server, request, shown, hand, post, page, events>>

\* scheduleReconnect()'s timer.
Reconnect ==
  /\ socket = "closed"
  /\ socket' = "connecting"
  /\ UNCHANGED <<server, request, shown, hand, post, page, pill, events>>

\* A shutdown of the server ends the engine; a crash may leave it.
Down ==
  /\ up /\ Event
  /\ up' = FALSE
  /\ engine' \in {engine, Fresh} /\ stream' = "sound"
  /\ wanted' = Nothing
  /\ request' = [r \in Requests |->
       IF request[r].phase = "sent" THEN Failed(request[r].kind) ELSE request[r]]
  /\ socket' = IF socket = "closed" THEN "closed" ELSE "lost"
  /\ UNCHANGED <<shown, hand, eqTimer, page, pill>>

Up ==
  /\ ~up
  /\ up' = TRUE
  /\ UNCHANGED <<engine, stream, request, shown, hand, post, rest>>

\* The engine dies alone.
Die ==
  /\ up /\ stream # "dead" /\ Event
  /\ engine' = Fresh /\ stream' = "dead"
  /\ wanted' = Nothing
  /\ UNCHANGED <<up, request, shown, hand, eqTimer, page, link>>

-----------------------------------------------------------------------------
Http(r) == Handle(r) \/ Fails(r) \/ Refuse(r) \/ Deliver(r) \/ DeliverFailure(r)
User ==
  \/ Release \/ Blur \/ Hide \/ Show
  \/ \E b \in Bands : Press(b) \/ Focus(b)
  \/ \E v \in Settings : Slide(v) \/ Key(v)
  \/ \E kind \in {"start", "stop", "gain", "route"} : Click(kind)
Socket == Open \/ Close \/ Reconnect
Fault == Down \/ Up \/ Die \/ SnapshotFails

Next == Poll \/ EqDue \/ (\E r \in Requests : Http(r)) \/ User \/ Socket \/ Fault

Spec == Init /\ [][Next]_vars

\* Timers fire, requests are handled or fail, and answers arrive.  A post gets
\* its turn though polls go on (SF): the browser sends in the order it was asked.
\* The user need do nothing, and a server that is down need not come back.
Fairness ==
  /\ WF_vars(Poll) /\ SF_vars(EqDue)
  /\ \A r \in Requests : WF_vars(Http(r))
  /\ WF_vars(Socket)

FairSpec == Spec /\ Fairness
-----------------------------------------------------------------------------
(* Properties.                                                             *)

\* Every variable has its type.
RequestStates ==
  {NoRequest} \cup [phase : {"sent"}, kind : Kinds, eq : Eq \cup {None}]
    \cup [phase : {"answered"}, kind : Kinds, status : Status \cup {None}]
    \cup [phase : {"failed"}, kind : Kinds]
Hands ==
  {Away} \cup {Focused(b) : b \in Bands}
    \cup [at : {"drag"}, band : Bands, from : Settings]
TypeOK ==
  /\ up \in BOOLEAN /\ stream \in {"sound", "timed out", "dead"}
  /\ engine \in Status /\ engine.eq \in Eq
  /\ request \in [Requests -> RequestStates]
  /\ available \in BOOLEAN /\ running \in BOOLEAN /\ slider \in Eq
  /\ user \in Hands /\ put \in [Bands -> Settings \cup {None}]
  /\ eqTimer \in BOOLEAN /\ wanted \in [Bands -> Settings \cup {None}]
  /\ hidden \in BOOLEAN /\ engineTimer \in {"null", "live", "dead"}
  /\ socket \in {"connecting", "open", "lost", "closed"}
  /\ pill \in {"offline", "route"}
  /\ events \in 0 .. MaxEvents

\* However late the answers come, those to the user's own earlier posts among
\* them: from the first move until the user lets go of them the sliders stay
\* where the user put them last.
EditNotOverwritten ==
  TypeOK /\ \A b \in Bands : put[b] # None => slider[b] = put[b]

\* What the page posts as the user set it gets to the engine and stays there,
\* through the posts for the other bands too.  That is all the page does for an
\* edit: every post says something of every band, and a band which a late answer
\* has moved back on the screen is posted as it stands.  Nor is an edit kept over
\* a post that fails or may cross an earlier one, a failure of the engine or the
\* server, or a start, which the panel makes without an EQ.
EqReachesEngine ==
  \A b \in Bands : <>[](wanted[b] # None => engine.eq[b] = wanted[b])

\* Once the user is done, the page is visible and the server stays, the card
\* shows the engine as it is, though answers arrive in any order, and though
\* the answer to a gain shows a running engine as stopped for a while.  When the
\* server has lost the engine, the card ends up offline.
Calm == up /\ ~hidden /\ user = Away
Shows ==
  IF stream = "sound"
    THEN available /\ running = engine.running /\ slider = engine.eq
    ELSE ~available /\ ~running
PanelCatchesUp == <>[]Calm => <>[]Shows

\* The pill ends up with a route when the server stays, offline when it stays
\* away, though answers to posts set it behind the socket's back.
PillIsTrue ==
  /\ <>[]up => <>[](pill = "route")
  /\ <>[]~up => <>[](pill = "offline")
-----------------------------------------------------------------------------
(* The inductive invariant of the safety property.                         *)

\* Who posts an EQ has one, and an answer about the engine brings a status.
RequestsInv ==
  \A r \in Requests :
    /\ request[r].phase = "sent" /\ request[r].kind = "eq" => request[r].eq \in Eq
    /\ request[r].phase = "answered" /\ request[r].kind # "route"
         => request[r].status \in Status

\* Sliders that were moved are in the user's hand or have the focus, and stand
\* where they were put.
HandInv == \A b \in Bands : put[b] # None => user # Away /\ slider[b] = put[b]

PanelInv == TypeOK /\ RequestsInv /\ HandInv
=============================================================================
