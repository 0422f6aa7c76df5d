--------------------------- MODULE WebPanelProofs ---------------------------
(***************************************************************************)
(* Proofs about WebPanel, for any number of slider positions, of requests  *)
(* under way and of events.                                                *)
(***************************************************************************)
EXTENDS WebPanel, TLAPS

-----------------------------------------------------------------------------
(* Requests.                                                               *)

\* For every band, what is set, if anything.
Edits == [Bands -> Settings \cup {None}]

\* A new engine's settings, and no settings at all.
LEMMA Values ==
  /\ Flat \in Eq /\ Nothing \in Edits
  /\ Fresh \in Status /\ Fresh.eq \in Eq
BY WebPanelAssumption DEF Flat, Eq, Nothing, Edits, Fresh, Status

\* What a request may be.
LEMMA RequestKinds ==
  ASSUME NEW kind \in Kinds
  PROVE  /\ \A eq \in Eq \cup {None} : Sent(kind, eq) \in RequestStates
         /\ \A s \in Status \cup {None} : Answered(kind, s) \in RequestStates
         /\ Failed(kind) \in RequestStates /\ NoRequest \in RequestStates
BY DEF RequestStates, Sent, Answered, Failed

\* One that is sent, answered or failed is what its phase says.
LEMMA RequestPhases ==
  ASSUME TypeOK, NEW r \in Requests
  PROVE  /\ request[r].phase # "free" => request[r].kind \in Kinds
         /\ request[r].phase = "sent" => request[r].eq \in Eq \cup {None}
         /\ request[r].phase = "answered" => request[r].status \in Status \cup {None}
<1>1. request[r] \in RequestStates
  BY DEF TypeOK
<1> QED
  BY <1>1 DEF RequestStates, NoRequest

\* A request that changes to a new state leaves the others as they are.
LEMMA RequestChanges ==
  ASSUME TypeOK, RequestsInv, NEW r \in Requests, NEW state \in RequestStates,
         request' = [request EXCEPT ![r] = state],
         state.phase = "sent" /\ state.kind = "eq" => state.eq \in Eq,
         state.phase = "answered" /\ state.kind # "route" => state.status \in Status
  PROVE  request' \in [Requests -> RequestStates] /\ RequestsInv'
<1>1. \A k \in Requests : request'[k] = IF k = r THEN state ELSE request[k]
  BY DEF TypeOK
<1>2. request' \in [Requests -> RequestStates]
  BY DEF TypeOK
<1> QED
  BY <1>1, <1>2 DEF RequestsInv

\* A post takes a free place and leaves the other requests as they are.
LEMMA PostKeeps ==
  ASSUME TypeOK, RequestsInv, NEW kind \in Kinds, NEW eq \in Eq \cup {None},
         kind = "eq" => eq \in Eq, Post(kind, eq)
  PROVE  request' \in [Requests -> RequestStates] /\ RequestsInv'
<1> DEFINE r == CHOOSE k \in Free : TRUE
<1>1. r \in Requests
  BY DEF Post, Free
<1>2. request' = [request EXCEPT ![r] = Sent(kind, eq)]
  BY DEF Post
<1>3. Sent(kind, eq) \in RequestStates
  BY RequestKinds
<1>4. /\ Sent(kind, eq).phase = "sent" /\ Sent(kind, eq).kind = kind
      /\ Sent(kind, eq).eq = eq
  BY DEF Sent
<1> HIDE DEF r
<1> QED
  BY <1>1, <1>2, <1>3, <1>4, RequestChanges

\* A post of the sliders says something of every band, and of none that the engine is
\* to have what nobody set.
LEMMA PostEqKeeps ==
  ASSUME TypeOK, RequestsInv, NEW set \in Edits, slider' \in Eq, PostEq(set)
  PROVE  request' \in [Requests -> RequestStates] /\ RequestsInv' /\ wanted' \in Edits
<1>1. request' \in [Requests -> RequestStates] /\ RequestsInv'
  <2>1. "eq" \in Kinds /\ slider' \in Eq \cup {None}
    BY DEF Kinds
  <2>2. Post("eq", slider')
    BY DEF PostEq
  <2> QED
    BY <2>1, <2>2, PostKeeps
<1>2. wanted' \in Edits
  <2>1. \A b \in Bands : set[b] \in Settings \cup {None}
    BY DEF Edits
  <2> QED
    BY <2>1 DEF PostEq, Edits
<1> QED
  BY <1>1, <1>2

\* The bound on events is kept.
LEMMA EventCounts ==
  ASSUME TypeOK, Event
  PROVE  events' \in 0 .. MaxEvents
<1>1. events \in 0 .. MaxEvents
  BY DEF TypeOK
<1> QED
  BY <1>1, WebPanelAssumption DEF Event

-----------------------------------------------------------------------------
(* The invariant holds at first, and every action keeps it.                *)

\* The initial state satisfies the invariant.
LEMMA PanelInit == Init => PanelInv
<1> SUFFICES ASSUME Init
             PROVE  PanelInv
  OBVIOUS
<1>1. TypeOK
  <2>1. engine \in Status /\ engine.eq \in Eq
    BY EnginesAssumption DEF Init, Status
  <2>2. request \in [Requests -> RequestStates]
    BY DEF Init, RequestStates
  <2>3. events \in 0 .. MaxEvents
    BY WebPanelAssumption DEF Init
  <2>4. slider \in Eq /\ user \in Hands /\ put \in Edits /\ wanted \in Edits
    BY Values DEF Init, Hands
  <2> QED
    BY <2>1, <2>2, <2>3, <2>4 DEF Init, TypeOK, Edits
<1>2. RequestsInv
  BY DEF Init, RequestsInv, NoRequest
<1>3. HandInv
  BY DEF Init, HandInv, Nothing
<1> QED
  BY <1>1, <1>2, <1>3 DEF PanelInv

\* The timer asks for the status.
LEMMA PollStep ==
  ASSUME PanelInv, Poll
  PROVE  PanelInv'
<1>1. TypeOK /\ RequestsInv /\ HandInv
  BY DEF PanelInv
<1>2. request' \in [Requests -> RequestStates] /\ RequestsInv'
  <2>1. "poll" \in Kinds
    BY DEF Kinds
  <2> QED
    BY <1>1, <2>1, PostKeeps DEF Poll
<1>3. TypeOK'
  <2>1. UNCHANGED <<up, engine, stream, available, running, slider, user, put,
                    eqTimer, wanted, hidden, engineTimer, socket, pill, events>>
    BY <1>1, WebPanelAssumption
       DEF Poll, TypeOK, server, shown, hand, post, rest, page, link
  <2> QED
    BY ZenonT(30), <1>1, <1>2, <2>1 DEF TypeOK
<1>4. RequestsInv'
  BY <1>2
<1>5. HandInv'
  BY <1>1 DEF Poll, HandInv, server, shown, hand, post, rest, page, link
<1> QED
  BY <1>3, <1>4, <1>5 DEF PanelInv

\* The post that was put off is made.
LEMMA EqDueStep ==
  ASSUME PanelInv, EqDue
  PROVE  PanelInv'
<1>1. TypeOK /\ RequestsInv /\ HandInv
  BY DEF PanelInv
<1>2. request' \in [Requests -> RequestStates] /\ RequestsInv' /\ wanted' \in Edits
  <2>1. wanted \in Edits /\ slider' \in Eq
    BY <1>1 DEF EqDue, TypeOK, Edits, shown
  <2> QED
    BY <1>1, <2>1, PostEqKeeps DEF EqDue
<1>3. TypeOK'
  <2>1. /\ UNCHANGED <<up, engine, stream, available, running, slider, user, put,
                       hidden, engineTimer, socket, pill, events>>
        /\ eqTimer' \in BOOLEAN
    BY DEF EqDue, server, shown, hand, rest, page, link
  <2> QED
    BY <1>1, <1>2, <2>1 DEF TypeOK, Edits
<1>4. HandInv'
  BY <1>1 DEF EqDue, HandInv, shown, hand
<1> QED
  BY <1>2, <1>3, <1>4 DEF PanelInv

\* What the engine does leaves it with a status that has an EQ.
LEMMA DoesStatus ==
  ASSUME TypeOK, NEW kind \in Kinds, NEW eq, kind = "eq" => eq \in Eq
  PROVE  /\ Does(kind, eq) \in Status /\ Does(kind, eq).eq \in Eq
         /\ \A e \in DoesInPart(kind, eq) : e \in Status /\ e.eq \in Eq
<1>1. engine \in Status /\ engine.eq \in Eq
  BY DEF TypeOK
<1>2. Does(kind, eq) \in Status /\ Does(kind, eq).eq \in Eq
  <2>1. CASE kind \in {"poll", "gain", "route"}
    BY <1>1, <2>1 DEF Does
  <2>2. CASE kind = "stop"
    BY <1>1, <2>2 DEF Does, Status
  <2>3. CASE kind = "eq"
    BY <1>1, <2>3 DEF Does, Status
  <2>4. CASE kind = "start"
    BY <2>4, Values DEF Does, Status
  <2> QED
    BY <2>1, <2>2, <2>3, <2>4 DEF Kinds
<1>3. ASSUME NEW e \in Eq
      PROVE  [Fresh EXCEPT !.eq = e] \in Status /\ [Fresh EXCEPT !.eq = e].eq \in Eq
  BY <1>3 DEF Fresh, Status
<1>4. ASSUME NEW e \in DoesInPart(kind, eq)
      PROVE  e \in Status /\ e.eq \in Eq
  <2>1. \/ e = engine \/ e = Does(kind, eq)
        \/ \E f \in {engine.eq, Flat} : e = [Fresh EXCEPT !.eq = f]
    BY <1>4 DEF DoesInPart
  <2> QED
    BY <1>1, <1>2, <1>3, <2>1, Values
<1> QED
  BY <1>2, <1>4

\* The server handles a request.
LEMMA HandleStep ==
  ASSUME PanelInv, NEW r \in Requests, Handle(r)
  PROVE  PanelInv'
<1> DEFINE kind == request[r].kind
           status == CASE kind = "gain" -> [running |-> FALSE, eq |-> None]
                       [] kind = "route" -> None
                       [] OTHER -> engine'
<1>1. TypeOK /\ RequestsInv /\ HandInv
  BY DEF PanelInv
<1>2. /\ request[r].phase = "sent" /\ kind \in Kinds
      /\ wanted' \in Edits
      /\ UNCHANGED <<up, stream, available, running, slider, user, put, eqTimer,
                     hidden, engineTimer, socket, pill, events>>
  BY <1>1, RequestPhases, Values DEF Handle, TypeOK, Edits, shown, hand, rest, page, link
<1>3. engine' \in Status /\ engine'.eq \in Eq
  <2>1. kind = "eq" => request[r].eq \in Eq
    BY <1>1, <1>2 DEF RequestsInv
  <2>2. engine' = Does(kind, request[r].eq)
    BY DEF Handle
  <2> QED
    BY <1>1, <1>2, <2>1, <2>2, DoesStatus
<1>4. request' \in [Requests -> RequestStates] /\ RequestsInv'
  <2>1. status \in Status \cup {None} /\ (kind # "route" => status \in Status)
    BY <1>3 DEF Status
  <2>2. Answered(kind, status) \in RequestStates
    BY <1>2, <2>1, RequestKinds
  <2>3. /\ Answered(kind, status).phase = "answered"
        /\ Answered(kind, status).kind = kind
        /\ Answered(kind, status).status = status
    BY DEF Answered
  <2>4. request' = [request EXCEPT ![r] = Answered(kind, status)]
    BY DEF Handle
  <2> HIDE DEF status, kind
  <2> QED
    BY <1>1, <2>1, <2>2, <2>3, <2>4, RequestChanges
<1>5. TypeOK'
  BY ZenonT(30), <1>1, <1>2, <1>3, <1>4 DEF TypeOK, Edits
<1>6. HandInv'
  BY <1>1, <1>2 DEF HandInv
<1> QED
  BY <1>4, <1>5, <1>6 DEF PanelInv

\* A request becomes one that failed.
LEMMA RequestFails ==
  ASSUME TypeOK, RequestsInv, NEW r \in Requests, request[r].phase # "free",
         request' = [request EXCEPT ![r] = Failed(request[r].kind)]
  PROVE  request' \in [Requests -> RequestStates] /\ RequestsInv'
<1> DEFINE kind == request[r].kind
<1>1. kind \in Kinds
  BY RequestPhases
<1>2. Failed(kind) \in RequestStates /\ Failed(kind).phase = "failed"
  BY <1>1, RequestKinds DEF Failed
<1> HIDE DEF kind
<1> QED
  BY <1>2, RequestChanges DEF kind

\* The server fails a request.
LEMMA FailsStep ==
  ASSUME PanelInv, NEW r \in Requests, Fails(r)
  PROVE  PanelInv'
<1> DEFINE kind == request[r].kind
<1>1. TypeOK /\ RequestsInv /\ HandInv
  BY DEF PanelInv
<1>2. /\ request[r].phase = "sent" /\ kind \in Kinds
      /\ UNCHANGED <<up, available, running, slider, user, put, eqTimer,
                     hidden, engineTimer, socket, pill>>
  BY <1>1, RequestPhases DEF Fails, shown, hand, page, link
<1>3. request' \in [Requests -> RequestStates] /\ RequestsInv'
  <2>1. request' = [request EXCEPT ![r] = Failed(request[r].kind)]
    BY DEF Fails
  <2> QED
    BY <1>1, <1>2, <2>1, RequestFails
<1>4. engine' \in Status /\ engine'.eq \in Eq
  <2>1. kind = "eq" => request[r].eq \in Eq
    BY <1>1, <1>2 DEF RequestsInv
  <2>2. engine' = engine \/ engine' \in DoesInPart(kind, request[r].eq)
    BY DEF Fails
  <2>3. engine \in Status /\ engine.eq \in Eq
    BY <1>1 DEF TypeOK
  <2> QED
    BY <1>1, <1>2, <2>1, <2>2, <2>3, DoesStatus
<1>5. wanted' \in Edits
  BY <1>1, Values DEF Fails, TypeOK, Edits
<1>6. stream' \in {"sound", "timed out", "dead"}
  BY <1>1 DEF Fails, TypeOK
<1>7. events' \in 0 .. MaxEvents
  <2>1. Event \/ UNCHANGED events
    BY DEF Fails
  <2> QED
    BY <1>1, <2>1, EventCounts DEF TypeOK
<1>8. TypeOK'
  BY <1>1, <1>2, <1>3, <1>4, <1>5, <1>6, <1>7 DEF TypeOK, Edits
<1>9. HandInv'
  BY <1>1, <1>2 DEF HandInv
<1> QED
  BY <1>3, <1>8, <1>9 DEF PanelInv

\* A request that nobody handles fails.
LEMMA RefuseStep ==
  ASSUME PanelInv, NEW r \in Requests, Refuse(r)
  PROVE  PanelInv'
<1>1. TypeOK /\ RequestsInv /\ HandInv
  BY DEF PanelInv
<1>2. request' \in [Requests -> RequestStates] /\ RequestsInv'
  BY <1>1, RequestFails DEF Refuse
<1>3. wanted' \in Edits
  BY <1>1, Values DEF Refuse, TypeOK, Edits
<1>4. TypeOK'
  BY <1>1, <1>2, <1>3 DEF Refuse, TypeOK, Edits, server, shown, hand, rest, page, link
<1>5. HandInv'
  BY <1>1 DEF Refuse, HandInv, shown, hand
<1> QED
  BY <1>2, <1>4, <1>5 DEF PanelInv

\* An answer arrives: the sliders are left alone while the user has one.
LEMMA DeliverStep ==
  ASSUME PanelInv, NEW r \in Requests, Deliver(r)
  PROVE  PanelInv'
<1>1. TypeOK /\ RequestsInv /\ HandInv
  BY DEF PanelInv
<1>2. request' \in [Requests -> RequestStates] /\ RequestsInv'
  <2>1. NoRequest \in RequestStates /\ NoRequest.phase = "free"
    BY DEF RequestStates, NoRequest
  <2> QED
    BY <1>1, <2>1, RequestChanges DEF Deliver
<1>3. /\ available' \in BOOLEAN /\ running' \in BOOLEAN /\ slider' \in Eq
      /\ pill' \in {"offline", "route"} /\ (slider' # slider => user = Away)
  <2>1. CASE request[r].kind = "route"
    BY <1>1, <2>1 DEF Deliver, TypeOK, shown
  <2>2. CASE request[r].kind # "route"
    <3>1. request[r].status \in Status
      BY <1>1, <2>2 DEF Deliver, RequestsInv
    <3> QED
      BY <1>1, <2>2, <3>1 DEF Deliver, Render, TypeOK, Status
  <2> QED
    BY <2>1, <2>2
<1>4. TypeOK'
  BY <1>1, <1>2, <1>3 DEF Deliver, TypeOK, server, hand, post, page
<1>5. HandInv'
  BY <1>1, <1>3 DEF Deliver, HandInv, hand
<1> QED
  BY <1>2, <1>4, <1>5 DEF PanelInv

\* The news of a failure arrives.
LEMMA DeliverFailureStep ==
  ASSUME PanelInv, NEW r \in Requests, DeliverFailure(r)
  PROVE  PanelInv'
<1>1. TypeOK /\ RequestsInv /\ HandInv
  BY DEF PanelInv
<1>2. request' \in [Requests -> RequestStates] /\ RequestsInv'
  <2>1. NoRequest \in RequestStates /\ NoRequest.phase = "free"
    BY DEF RequestStates, NoRequest
  <2> QED
    BY <1>1, <2>1, RequestChanges DEF DeliverFailure
<1>3. available' \in BOOLEAN /\ running' \in BOOLEAN
  BY <1>1 DEF DeliverFailure, TypeOK
<1>4. TypeOK'
  BY <1>1, <1>2, <1>3
     DEF DeliverFailure, TypeOK, server, hand, post, rest, page, link
<1>5. HandInv'
  BY <1>1 DEF DeliverFailure, HandInv, hand
<1> QED
  BY <1>2, <1>4, <1>5 DEF PanelInv

\* The user presses the pointer on a slider.
LEMMA PressStep ==
  ASSUME PanelInv, NEW b \in Bands, Press(b)
  PROVE  PanelInv'
<1>1. TypeOK /\ RequestsInv /\ HandInv
  BY DEF PanelInv
<1>2. user' \in Hands /\ user' # Away
  <2>1. slider[b] \in Settings
    BY <1>1 DEF TypeOK, Eq
  <2> QED
    BY <2>1 DEF Press, Dragging, Hands, Away
<1>3. TypeOK'
  BY <1>1, <1>2 DEF Press, TypeOK, server, shown, post, rest, page, link
<1>4. RequestsInv'
  BY <1>1 DEF Press, RequestsInv
<1>5. HandInv'
  BY <1>1, <1>2 DEF Press, HandInv, shown
<1> QED
  BY <1>3, <1>4, <1>5 DEF PanelInv

\* Who has a slider has that of some band.
LEMMA HandHasBand ==
  ASSUME TypeOK, user # Away
  PROVE  user.band \in Bands
<1>1. \/ \E b \in Bands : user = Focused(b)
      \/ user \in [at : {"drag"}, band : Bands, from : Settings]
  BY DEF TypeOK, Hands
<1>2. \A b \in Bands : Focused(b).band = b
  BY DEF Focused
<1> QED
  BY <1>1, <1>2

\* The user has a slider, and puts it somewhere.
LEMMA PutsKeeps ==
  ASSUME TypeOK, HandInv, NEW v \in Settings, user.at \in {"drag", "focus"},
         UNCHANGED user, Puts(user.band, v)
  PROVE  /\ user.band \in Bands /\ slider' \in Eq /\ put' \in Edits /\ HandInv'
<1>1. user # Away
  BY DEF Away
<1>2. user.band \in Bands
  BY <1>1, HandHasBand
<1> DEFINE band == user.band
<1>3. /\ slider' = [slider EXCEPT ![band] = v] /\ put' = [put EXCEPT ![band] = v]
      /\ slider \in [Bands -> Settings] /\ put \in [Bands -> Settings \cup {None}]
      /\ band \in Bands
  BY <1>2 DEF Puts, TypeOK, Eq
<1> HIDE DEF band
<1>4. slider' \in Eq /\ put' \in Edits
  BY <1>3 DEF Eq, Edits
<1>5. \A b \in Bands : put'[b] # None => slider'[b] = put'[b]
  BY <1>3 DEF HandInv
<1> QED
  BY <1>1, <1>2, <1>4, <1>5 DEF HandInv

\* The user moves the slider.
LEMMA SlideStep ==
  ASSUME PanelInv, NEW v \in Settings, Slide(v)
  PROVE  PanelInv'
<1>1. TypeOK /\ RequestsInv /\ HandInv
  BY DEF PanelInv
<1>2. user.band \in Bands /\ slider' \in Eq /\ put' \in Edits /\ HandInv'
  BY <1>1, PutsKeeps DEF Slide
<1>3. wanted' \in Edits
  BY <1>1, <1>2 DEF Slide, TypeOK, Edits
<1>4. events' \in 0 .. MaxEvents
  BY <1>1, EventCounts DEF Slide
<1>5. TypeOK'
  BY <1>1, <1>2, <1>3, <1>4 DEF Slide, TypeOK, Edits, server, page, link
<1>6. RequestsInv'
  BY <1>1 DEF Slide, RequestsInv
<1> QED
  BY <1>2, <1>5, <1>6 DEF PanelInv

\* The user lets go of the sliders, or of the pointer only.
LEMMA HandKeeps ==
  ASSUME TypeOK, HandInv, user # Away, UNCHANGED slider, LetGo \/ KeepFocus
  PROVE  user' \in Hands /\ put' \in Edits /\ HandInv'
<1>1. CASE LetGo
  BY <1>1, Values DEF LetGo, Hands, HandInv, Nothing
<1>2. CASE KeepFocus
  <2>1. user.band \in Bands
    BY HandHasBand
  <2>2. user' = Focused(user.band) /\ user' # Away
    BY <1>2 DEF KeepFocus, Focused, Away
  <2> QED
    BY <1>2, <2>1, <2>2 DEF KeepFocus, Hands, TypeOK, Edits, HandInv
<1> QED
  BY <1>1, <1>2

\* The user lets go of the slider, and the post that was due is made.
LEMMA ReleaseStep ==
  ASSUME PanelInv, Release
  PROVE  PanelInv'
<1>1. TypeOK /\ RequestsInv /\ HandInv
  BY DEF PanelInv
<1>2. /\ request' \in [Requests -> RequestStates] /\ RequestsInv'
      /\ wanted' \in Edits /\ eqTimer' \in BOOLEAN
  <2>1. wanted \in Edits /\ slider' \in Eq
    BY <1>1 DEF Release, TypeOK, Edits, shown
  <2>2. CASE PostEq(wanted) /\ eqTimer' = FALSE
    BY <1>1, <2>1, <2>2, PostEqKeeps
  <2>3. CASE UNCHANGED <<eqTimer, request, wanted>>
    BY <1>1, <2>1, <2>3 DEF TypeOK, RequestsInv
  <2> QED
    BY <2>2, <2>3 DEF Release
<1>3. user' \in Hands /\ put' \in Edits /\ HandInv'
  BY <1>1, HandKeeps DEF Release, Away, shown
<1>4. TypeOK'
  <2>1. UNCHANGED <<up, engine, stream, available, running, slider, hidden,
                    engineTimer, socket, pill, events>>
    BY DEF Release, server, shown, rest, page, link
  <2> QED
    BY <1>1, <1>2, <1>3, <2>1 DEF TypeOK, Edits
<1> QED
  BY <1>2, <1>3, <1>4 DEF PanelInv

\* The user presses a key on a focused slider.
LEMMA KeyStep ==
  ASSUME PanelInv, NEW v \in Settings, Key(v)
  PROVE  PanelInv'
<1>1. TypeOK /\ RequestsInv /\ HandInv
  BY DEF PanelInv
<1>2. user.band \in Bands /\ slider' \in Eq /\ put' \in Edits /\ HandInv'
  BY <1>1, PutsKeeps DEF Key
<1>3. request' \in [Requests -> RequestStates] /\ RequestsInv' /\ wanted' \in Edits
  <2> DEFINE set == [wanted EXCEPT ![user.band] = v]
  <2>1. set \in Edits
    BY <1>1, <1>2 DEF TypeOK, Edits
  <2>2. PostEq(set)
    BY DEF Key
  <2> HIDE DEF set
  <2> QED
    BY <1>1, <1>2, <2>1, <2>2, PostEqKeeps
<1>4. events' \in 0 .. MaxEvents
  BY <1>1, EventCounts DEF Key
<1>5. TypeOK'
  <2>1. /\ UNCHANGED <<up, engine, stream, available, running, user, hidden,
                       engineTimer, socket, pill>>
        /\ eqTimer' \in BOOLEAN
    BY DEF Key, server, page, link
  <2> QED
    BY <1>1, <1>2, <1>3, <1>4, <2>1 DEF TypeOK, Edits
<1> QED
  BY <1>2, <1>3, <1>5 DEF PanelInv

\* The user gives a slider the focus.
LEMMA FocusStep ==
  ASSUME PanelInv, NEW b \in Bands, Focus(b)
  PROVE  PanelInv'
<1>1. TypeOK /\ RequestsInv /\ HandInv
  BY DEF PanelInv
<1>2. user' \in Hands /\ user' # Away
  BY DEF Focus, Focused, Hands, Away
<1>3. TypeOK'
  BY <1>1, <1>2 DEF Focus, TypeOK, server, shown, post, rest, page, link
<1>4. RequestsInv'
  BY <1>1 DEF Focus, RequestsInv
<1>5. HandInv'
  BY <1>1, <1>2 DEF Focus, HandInv, shown
<1> QED
  BY <1>3, <1>4, <1>5 DEF PanelInv

\* The user takes the focus away.
LEMMA BlurStep ==
  ASSUME PanelInv, Blur
  PROVE  PanelInv'
<1>1. TypeOK /\ RequestsInv /\ HandInv
  BY DEF PanelInv
<1>2. user' \in Hands /\ put' \in Edits /\ HandInv'
  BY <1>1, HandKeeps DEF Blur, Away, shown
<1>3. TypeOK'
  <2>1. UNCHANGED <<up, engine, stream, request, available, running, slider, eqTimer,
                    wanted, hidden, engineTimer, socket, pill, events>>
    BY DEF Blur, server, shown, post, rest, page, link
  <2> QED
    BY ZenonT(30), <1>1, <1>2, <2>1 DEF TypeOK, Edits
<1>4. RequestsInv'
  BY <1>1 DEF Blur, RequestsInv
<1> QED
  BY <1>2, <1>3, <1>4 DEF PanelInv

\* The user presses another control.
LEMMA ClickStep ==
  ASSUME PanelInv, NEW kind \in {"start", "stop", "gain", "route"}, Click(kind)
  PROVE  PanelInv'
<1>1. TypeOK /\ RequestsInv /\ HandInv
  BY DEF PanelInv
<1>2. request' \in [Requests -> RequestStates] /\ RequestsInv'
  <2>1. kind \in Kinds /\ kind # "eq"
    BY DEF Kinds
  <2> QED
    BY <1>1, <2>1, PostKeeps DEF Click
<1>3. user' \in Hands /\ put' \in Edits /\ HandInv'
  BY Values DEF Click, LetGo, Hands, HandInv, Nothing
<1>4. events' \in 0 .. MaxEvents
  BY <1>1, EventCounts DEF Click
<1>5. TypeOK'
  <2>1. UNCHANGED <<up, engine, stream, available, running, slider, eqTimer,
                    wanted, hidden, engineTimer, socket, pill>>
    BY DEF Click, server, shown, post, page, link
  <2> QED
    BY ZenonT(30), <1>1, <1>2, <1>3, <1>4, <2>1 DEF TypeOK, Edits
<1> QED
  BY <1>2, <1>3, <1>5 DEF PanelInv

\* The page is hidden.
LEMMA HideStep ==
  ASSUME PanelInv, Hide
  PROVE  PanelInv'
<1>1. TypeOK /\ RequestsInv /\ HandInv
  BY DEF PanelInv
<1>2. TypeOK'
  BY <1>1, WebPanelAssumption DEF Hide, TypeOK, server, shown, hand, post, link
<1>3. RequestsInv'
  BY <1>1 DEF Hide, RequestsInv, server, shown, hand, post, link
<1>4. HandInv'
  BY <1>1 DEF Hide, HandInv, server, shown, hand, post, link
<1> QED
  BY <1>2, <1>3, <1>4 DEF PanelInv

\* The page is shown, and asks at once.
LEMMA ShowStep ==
  ASSUME PanelInv, Show
  PROVE  PanelInv'
<1>1. TypeOK /\ RequestsInv /\ HandInv
  BY DEF PanelInv
<1>2. request' \in [Requests -> RequestStates] /\ RequestsInv'
  <2>1. "poll" \in Kinds
    BY DEF Kinds
  <2> QED
    BY <1>1, <2>1, PostKeeps DEF Show
<1>3. TypeOK'
  <2>1. /\ UNCHANGED <<up, engine, stream, available, running, slider, user, put,
                       eqTimer, wanted, socket, pill, events>>
        /\ hidden' \in BOOLEAN /\ engineTimer' \in {"null", "live", "dead"}
    BY <1>1, WebPanelAssumption DEF Show, TypeOK, server, shown, hand, post, link
  <2> QED
    BY <1>1, <1>2, <2>1 DEF TypeOK
<1>4. RequestsInv'
  BY <1>2
<1>5. HandInv'
  BY <1>1 DEF Show, HandInv, server, shown, hand, post, link
<1> QED
  BY <1>3, <1>4, <1>5 DEF PanelInv

\* The socket opens.
LEMMA OpenStep ==
  ASSUME PanelInv, Open
  PROVE  PanelInv'
<1>1. TypeOK /\ RequestsInv /\ HandInv
  BY DEF PanelInv
<1>2. TypeOK'
  BY <1>1, WebPanelAssumption DEF Open, TypeOK, server, shown, hand, post, page
<1>3. RequestsInv'
  BY <1>1 DEF Open, RequestsInv, server, shown, hand, post, page
<1>4. HandInv'
  BY <1>1 DEF Open, HandInv, server, shown, hand, post, page
<1> QED
  BY <1>2, <1>3, <1>4 DEF PanelInv

\* The socket closes.
LEMMA CloseStep ==
  ASSUME PanelInv, Close
  PROVE  PanelInv'
<1>1. TypeOK /\ RequestsInv /\ HandInv
  BY DEF PanelInv
<1>2. TypeOK'
  BY <1>1, WebPanelAssumption DEF Close, TypeOK, server, shown, hand, post, page
<1>3. RequestsInv'
  BY <1>1 DEF Close, RequestsInv, server, shown, hand, post, page
<1>4. HandInv'
  BY <1>1 DEF Close, HandInv, server, shown, hand, post, page
<1> QED
  BY <1>2, <1>3, <1>4 DEF PanelInv

\* The socket tries again.
LEMMA ReconnectStep ==
  ASSUME PanelInv, Reconnect
  PROVE  PanelInv'
<1>1. TypeOK /\ RequestsInv /\ HandInv
  BY DEF PanelInv
<1>2. TypeOK'
  BY <1>1, WebPanelAssumption DEF Reconnect, TypeOK, server, shown, hand, post, page
<1>3. RequestsInv'
  BY <1>1 DEF Reconnect, RequestsInv, server, shown, hand, post, page
<1>4. HandInv'
  BY <1>1 DEF Reconnect, HandInv, server, shown, hand, post, page
<1> QED
  BY <1>2, <1>3, <1>4 DEF PanelInv

\* The server lets the socket go.
LEMMA SnapshotFailsStep ==
  ASSUME PanelInv, SnapshotFails
  PROVE  PanelInv'
<1>1. TypeOK /\ RequestsInv /\ HandInv
  BY DEF PanelInv
<1>2. events' \in 0 .. MaxEvents
  BY <1>1, EventCounts DEF SnapshotFails
<1>3. TypeOK'
  BY <1>1, <1>2 DEF SnapshotFails, TypeOK, server, shown, hand, post, page
<1>4. RequestsInv'
  BY <1>1 DEF SnapshotFails, RequestsInv
<1>5. HandInv'
  BY <1>1 DEF SnapshotFails, HandInv, shown, hand
<1> QED
  BY <1>3, <1>4, <1>5 DEF PanelInv

\* The server goes down: what was sent fails.
LEMMA DownStep ==
  ASSUME PanelInv, Down
  PROVE  PanelInv'
<1>1. TypeOK /\ RequestsInv /\ HandInv
  BY DEF PanelInv
<1>2. ASSUME NEW r \in Requests
      PROVE  /\ request'[r] \in RequestStates
             /\ request'[r] = request[r] \/ request'[r].phase = "failed"
  <2>1. CASE request[r].phase = "sent"
    <3>1. request'[r] = Failed(request[r].kind)
      BY <2>1 DEF Down
    <3>2. request[r].kind \in Kinds
      BY <1>1, <2>1, RequestPhases
    <3> QED
      BY <3>1, <3>2, RequestKinds DEF Failed
  <2>2. CASE request[r].phase # "sent"
    BY <1>1, <2>2 DEF Down, TypeOK
  <2> QED
    BY <2>1, <2>2
<1>3. request' \in [Requests -> RequestStates]
  BY <1>2 DEF Down
<1>4. RequestsInv'
  BY <1>1, <1>2 DEF RequestsInv
<1>5. TypeOK'
  <2>1. engine' \in Status /\ engine'.eq \in Eq
    BY <1>1, Values DEF Down, TypeOK
  <2>2. events' \in 0 .. MaxEvents
    BY <1>1, EventCounts DEF Down
  <2>3. /\ UNCHANGED <<available, running, slider, user, put, eqTimer, hidden,
                       engineTimer, pill>>
        /\ up' \in BOOLEAN /\ stream' \in {"sound", "timed out", "dead"}
        /\ wanted' \in Edits /\ socket' \in {"connecting", "open", "lost", "closed"}
    BY Values DEF Down, shown, hand, page
  <2> QED
    BY <1>1, <1>3, <2>1, <2>2, <2>3 DEF TypeOK, Edits
<1>6. HandInv'
  BY <1>1 DEF Down, HandInv, shown, hand
<1> QED
  BY <1>4, <1>5, <1>6 DEF PanelInv

\* The server is there again.
LEMMA UpStep ==
  ASSUME PanelInv, Up
  PROVE  PanelInv'
<1>1. TypeOK /\ RequestsInv /\ HandInv
  BY DEF PanelInv
<1>2. TypeOK'
  BY <1>1, WebPanelAssumption DEF Up, TypeOK, shown, hand, post, rest, page, link
<1>3. RequestsInv'
  BY <1>1 DEF Up, RequestsInv, shown, hand, post, rest, page, link
<1>4. HandInv'
  BY <1>1 DEF Up, HandInv, shown, hand, post, rest, page, link
<1> QED
  BY <1>2, <1>3, <1>4 DEF PanelInv

\* The engine dies.
LEMMA DieStep ==
  ASSUME PanelInv, Die
  PROVE  PanelInv'
<1>1. TypeOK /\ RequestsInv /\ HandInv
  BY DEF PanelInv
<1>2. events' \in 0 .. MaxEvents
  BY <1>1, EventCounts DEF Die
<1>3. TypeOK'
  <2>1. engine' \in Status /\ engine'.eq \in Eq /\ wanted' \in Edits
    BY Values DEF Die
  <2> QED
    BY <1>1, <1>2, <2>1 DEF Die, TypeOK, Edits, shown, hand, page, link
<1>4. RequestsInv'
  BY <1>1 DEF Die, RequestsInv
<1>5. HandInv'
  BY <1>1 DEF Die, HandInv, shown, hand
<1> QED
  BY <1>3, <1>4, <1>5 DEF PanelInv

\* Nothing happens.
LEMMA PanelStutter ==
  ASSUME PanelInv, UNCHANGED vars
  PROVE  PanelInv'
<1>1. TypeOK /\ RequestsInv /\ HandInv
  BY DEF PanelInv
<1>2. TypeOK'
  BY ZenonT(30), <1>1 DEF TypeOK, vars, server, shown, hand, post, rest, page, link
<1>3. RequestsInv'
  BY <1>1 DEF RequestsInv, vars
<1>4. HandInv'
  BY <1>1 DEF HandInv, vars, shown, hand
<1> QED
  BY <1>2, <1>3, <1>4 DEF PanelInv

-----------------------------------------------------------------------------
(* The theorems.                                                           *)

\* Whatever is under way, and in whatever order it is handled and arrives: requests
\* carry what their kind asks for, and a slider that was moved is not let out of
\* the user's hand.
THEOREM PanelInvariant == Spec => []PanelInv
<1>1. ASSUME PanelInv, [Next]_vars
      PROVE  PanelInv'
  <2>1. ASSUME NEW r \in Requests, Http(r)
        PROVE  PanelInv'
    BY <1>1, <2>1, HandleStep, FailsStep, RefuseStep, DeliverStep, DeliverFailureStep
       DEF Http
  <2>2. CASE User
    BY <1>1, <2>2, PressStep, ReleaseStep, FocusStep, BlurStep, HideStep, ShowStep,
       SlideStep, KeyStep, ClickStep
       DEF User
  <2>3. CASE Socket
    BY <1>1, <2>3, OpenStep, CloseStep, ReconnectStep DEF Socket
  <2>4. CASE Poll \/ EqDue \/ Fault
    BY <1>1, <2>4, PollStep, EqDueStep, DownStep, UpStep, DieStep, SnapshotFailsStep
       DEF Fault
  <2>5. CASE UNCHANGED vars
    BY <1>1, <2>5, PanelStutter
  <2> QED
    BY <1>1, <2>1, <2>2, <2>3, <2>4, <2>5 DEF Next
<1> QED
  BY <1>1, PanelInit, PTL DEF Spec

\* However late the answers come, the sliders stay where the user put them from the
\* first move until he lets go of them.
THEOREM PanelKeepsEdits == Spec => []EditNotOverwritten
<1>1. PanelInv => EditNotOverwritten
  BY DEF PanelInv, HandInv, EditNotOverwritten
<1> QED
  BY <1>1, PanelInvariant, PTL
=============================================================================
