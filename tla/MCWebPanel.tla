----------------------------- MODULE MCWebPanel -----------------------------
(***************************************************************************)
(* WebPanel with two bands and two requests under way, of which one may    *)
(* overtake another.  Its parts share the server and the requests.  With   *)
(* the sliders in focus the page stays visible, and the engine was used    *)
(* before the page was loaded; with the card, nobody moves a slider, and   *)
(* the engine may be a new one; with the socket, nobody does anything on   *)
(* the card.  Out of focus the socket is as it becomes by itself.          *)
(***************************************************************************)
EXTENDS WebPanel

Used == [running |-> TRUE, eq |-> [b \in Bands |-> 1]]
EnginesDef == {Fresh, Used}

VARIABLE focus

Always == Poll \/ Down \/ Up \/ (\E r \in Requests : Http(r))
Sliders ==
  \/ EqDue \/ Release \/ Blur
  \/ \E b \in Bands : Press(b) \/ Focus(b)
  \/ \E v \in Settings : Slide(v) \/ Key(v)
Clicks == \E kind \in {"start", "stop", "gain"} : Click(kind)

\* The socket has done what the server's coming or going makes it do.
Settled == IF up THEN socket = "open" ELSE socket # "lost"

FocusInit ==
  /\ Init
  /\ \/ focus = "sliders" /\ engine = Used
     \/ focus \in {"card", "socket"}
FocusNext ==
  /\ UNCHANGED focus
  /\ \/ Socket
     \/ focus = "sliders" /\ Settled /\ (Always \/ Die \/ Clicks \/ Sliders)
     \/ focus = "card" /\ Settled /\ (Always \/ Die \/ Clicks \/ Hide \/ Show)
     \/ focus = "socket" /\ (Always \/ SnapshotFails \/ Click("route"))
FocusSpec == FocusInit /\ [][FocusNext]_<<vars, focus>> /\ Fairness
=============================================================================
