--------------------------- MODULE PipeWireProofs ---------------------------
(***************************************************************************)
(* Proofs about PipeWire, for any threads, devices, ports and tones and    *)
(* any number of processes, operations and events: an operation that runs  *)
(* alone ends in the route it is named for, and a tone survives the        *)
(* restart of Guitarix.                                                    *)
(***************************************************************************)
EXTENDS PipeWire, SequenceTheorems, TLAPS

-----------------------------------------------------------------------------
(* Plans.                                                                  *)

\* The rest of a sequence.
LEMMA Rest ==
  ASSUME NEW S, NEW s \in Seq(S), s # <<>>
  PROVE  /\ Len(s) \in Nat \ {0} /\ Tail(s) \in Seq(S) /\ Len(Tail(s)) = Len(s) - 1
         /\ Head(s) = s[1] /\ Head(s) \in S
         /\ DOMAIN s = 1 .. Len(s) /\ DOMAIN Tail(s) = 1 .. Len(s) - 1
         /\ \A i \in 1 .. Len(s) - 1 : Tail(s)[i] = s[i + 1]
<1>1. Len(s) \in Nat \ {0} /\ DOMAIN s = 1 .. Len(s)
  BY EmptySeq, LenProperties
<1>2. Tail(s) \in Seq(S) /\ Len(Tail(s)) = Len(s) - 1 /\ Head(s) = s[1]
  BY HeadTailProperties
<1>3. \A i \in 1 .. Len(s) - 1 : Tail(s)[i] = s[i + 1]
  BY <1>1
<1> QED
  BY <1>1, <1>2, <1>3, LenProperties, ElementOfSeq

\* The sequence with another first element.
LEMMA NewHead ==
  ASSUME NEW S, NEW s \in Seq(S), s # <<>>, NEW e \in S
  PROVE  LET n == <<e>> \o Tail(s) IN
         /\ n \in Seq(S) /\ Len(n) = Len(s) /\ n # <<>> /\ Head(n) = e
         /\ DOMAIN n = 1 .. Len(s)
         /\ \A i \in 1 .. Len(s) : n[i] = IF i = 1 THEN e ELSE s[i]
<1> DEFINE n == <<e>> \o Tail(s)
<1>1. <<e>> \in Seq(S) /\ Len(<<e>>) = 1 /\ <<e>>[1] = e
  OBVIOUS
<1>2. /\ n \in Seq(S) /\ Len(n) = Len(s)
      /\ \A i \in 1 .. Len(s) : n[i] = IF i <= 1 THEN e ELSE Tail(s)[i - 1]
  <2>1. /\ Len(s) \in Nat \ {0} /\ Tail(s) \in Seq(S) /\ Len(Tail(s)) = Len(s) - 1
    BY Rest
  <2>2. /\ n \in Seq(S) /\ Len(n) = 1 + (Len(s) - 1)
        /\ \A i \in 1 .. 1 + (Len(s) - 1) :
             n[i] = IF i <= 1 THEN <<e>>[i] ELSE Tail(s)[i - 1]
    BY <1>1, <2>1, ConcatProperties
  <2> HIDE DEF n
  <2>3. 1 + (Len(s) - 1) = Len(s)
    BY <2>1
  <2>4. \A i \in 1 .. Len(s) : i <= 1 => i = 1
    BY <2>1
  <2> QED
    BY <1>1, <2>1, <2>2, <2>3, <2>4
<1>3. \A i \in 1 .. Len(s) : n[i] = IF i = 1 THEN e ELSE s[i]
  <2> HIDE DEF n
  <2> QED
    BY <1>2, Rest
<1>4. n # <<>> /\ DOMAIN n = 1 .. Len(s)
  <2> HIDE DEF n
  <2> QED
    BY <1>2, Rest, EmptySeq, LenProperties
<1>5. Head(n) = e
  <2> HIDE DEF n
  <2>1. Head(n) = n[1]
    BY <1>2, <1>4, HeadTailProperties
  <2> QED
    BY <1>3, <2>1, Rest
<1> QED
  BY <1>2, <1>3, <1>4, <1>5

\* Every plan is a sequence of steps, and stands for its operation.
LEMMA Plans ==
  /\ \A op \in {"direct", "amp", "disconnect", "tone"} : Plan(op) \in Seq(Steps)
  /\ Len(Plan("direct")) = 6 /\ Len(Plan("amp")) = 7
  /\ Len(Plan("disconnect")) = 4 /\ Len(Plan("tone")) = 11
<1>1. Plan("direct") \in Seq(Steps) /\ Len(Plan("direct")) = 6
  BY DEF Plan, Steps
<1>2. Plan("amp") \in Seq(Steps) /\ Len(Plan("amp")) = 7
  BY DEF Plan, Steps
<1>3. Plan("disconnect") \in Seq(Steps) /\ Len(Plan("disconnect")) = 4
  BY DEF Plan, Steps
<1>4. Plan("tone") \in Seq(Steps) /\ Len(Plan("tone")) = 11
  BY DEF Plan, Steps
<1> QED
  BY <1>1, <1>2, <1>3, <1>4

\* Who has a step to take runs an operation.
LEMMA HasOperation ==
  ASSUME NEW r \in Operation, OnPlan(r), r.plan # <<>>
  PROVE  /\ r.op \in {"direct", "amp", "disconnect", "tone"}
         /\ r.plan \in Seq(Steps) /\ Head(r.plan) \in Steps
         /\ Plan(r.op) \in Seq(Steps) /\ Len(r.plan) <= Len(Plan(r.op))
<1>1. r.op # "none"
  <2> SUFFICES ASSUME r.op = "none"
               PROVE  FALSE
    OBVIOUS
  <2>1. r = IdleReq
    BY DEF OnPlan
  <2> QED
    BY <2>1 DEF IdleReq
<1>2. r.op \in {"direct", "amp", "disconnect", "tone"} /\ r.plan \in Seq(Steps)
  BY <1>1 DEF Operation
<1> QED
  BY <1>1, <1>2, Plans, Rest, LenProperties DEF OnPlan

\* Whoever takes a step stays on its plan, and only that step is over.
LEMMA MovesOn ==
  ASSUME NEW r \in Operation, NEW s \in Operation, OnPlan(r), r.plan # <<>>,
         s.op = r.op, s.plan = Tail(r.plan)
  PROVE  /\ OnPlan(s)
         /\ \A x : Done(r, x) => Done(s, x)
         /\ \A x : x # Head(r.plan) => (Done(s, x) <=> Done(r, x))
<1> DEFINE whole == Plan(r.op)
<1>1. /\ r.op # "none" /\ whole \in Seq(Steps)
      /\ r.plan \in Seq(Steps) /\ Len(r.plan) <= Len(whole)
  BY HasOperation
<1>2. /\ Len(s.plan) = Len(r.plan) - 1 /\ Len(r.plan) \in Nat \ {0}
      /\ DOMAIN s.plan = 1 .. Len(r.plan) - 1 /\ DOMAIN r.plan = 1 .. Len(r.plan)
      /\ Head(r.plan) = r.plan[1]
      /\ \A i \in 1 .. Len(r.plan) - 1 : s.plan[i] = r.plan[i + 1]
  BY <1>1, Rest
<1>3. /\ Len(whole) \in Nat /\ Len(r.plan) \in Nat \ {0}
      /\ Len(r.plan) <= Len(whole) /\ Len(s.plan) = Len(r.plan) - 1
  BY <1>1, <1>2, LenProperties
<1>4. OnPlan(r) /\ r.op # "none" =>
        \A i \in DOMAIN r.plan : i # 1 => r.plan[i] = whole[Len(whole) - Len(r.plan) + i]
  BY DEF OnPlan
<1> HIDE DEF whole
<1>5. OnPlan(s)
  <2> DEFINE gone == Len(whole) - Len(r.plan)
             gone2 == Len(whole) - Len(s.plan)
  <2>1. gone \in Nat /\ gone2 = gone + 1
    <3>1. \A a \in Nat, b \in Nat \ {0} : b <= a => a - b \in Nat /\ a - (b - 1) = (a - b) + 1
      OBVIOUS
    <3> QED
      BY <1>3, <3>1
  <2>2. ASSUME NEW i \in DOMAIN s.plan
        PROVE  s.plan[i] = whole[gone2 + i]
    <3>1. i + 1 \in DOMAIN r.plan /\ i + 1 # 1 /\ gone2 + i = gone + (i + 1)
      BY <1>2, <2>1
    <3>2. r.plan[i + 1] = whole[gone + (i + 1)]
      BY <1>1, <1>4, <3>1
    <3> QED
      BY <1>2, <3>1, <3>2
  <2>3. \A x : x \in InPlaceOf(x)
    BY DEF InPlaceOf
  <2>4. \A i \in DOMAIN s.plan : IF i = 1 THEN s.plan[i] \in InPlaceOf(whole[gone2 + i])
                                           ELSE s.plan[i] = whole[gone2 + i]
    BY <2>2, <2>3
  <2>5. s.op # "none" /\ gone2 >= 0
    BY <1>1, <2>1
  <2> QED
    BY <2>4, <2>5 DEF OnPlan, whole
<1>6. ASSUME NEW x, Done(r, x)
      PROVE  Done(s, x)
  BY <1>2, <1>6 DEF Done
<1>7. ASSUME NEW x, x # Head(r.plan), Done(s, x)
      PROVE  Done(r, x)
  <2> SUFFICES ASSUME NEW i \in 1 .. Len(r.plan)
               PROVE  r.plan[i] # x
    BY <1>2 DEF Done
  <2>1. CASE i = 1
    BY <1>2, <1>7, <2>1
  <2>2. CASE i # 1
    <3>1. i - 1 \in 1 .. Len(r.plan) - 1 /\ (i - 1) + 1 = i
      BY <1>2, <2>2
    <3> QED
      BY <1>2, <1>7, <3>1 DEF Done
  <2> QED
    BY <2>1, <2>2
<1> QED
  BY <1>5, <1>6, <1>7

\* So does whoever takes another step instead.
LEMMA Detours ==
  ASSUME NEW r \in Operation, NEW s \in Operation, OnPlan(r), r.plan # <<>>,
         NEW e \in Steps, Head(r.plan) \in {"stop", "start", "start_rpc"},
         e \in InPlaceOf(Head(r.plan)),
         s.op = r.op, s.plan = <<e>> \o Tail(r.plan)
  PROVE  /\ OnPlan(s) /\ Ready(s, e)
         /\ \A x : x # Head(r.plan) /\ x # e => (Done(s, x) <=> Done(r, x))
<1> DEFINE whole == Plan(r.op)
<1>1. /\ r.op # "none" /\ whole \in Seq(Steps)
      /\ r.plan \in Seq(Steps) /\ Len(r.plan) <= Len(whole)
  BY HasOperation
<1>2. /\ Len(s.plan) = Len(r.plan) /\ s.plan # <<>> /\ Head(s.plan) = e
      /\ DOMAIN s.plan = 1 .. Len(r.plan)
      /\ \A i \in 1 .. Len(r.plan) : s.plan[i] = IF i = 1 THEN e ELSE r.plan[i]
  BY <1>1, NewHead
<1>3. /\ Len(r.plan) \in Nat \ {0} /\ DOMAIN r.plan = 1 .. Len(r.plan)
      /\ Head(r.plan) = r.plan[1]
  BY <1>1, Rest
<1>4. OnPlan(s)
  <2> DEFINE gone == Len(whole) - Len(r.plan)
  <2>1. /\ gone >= 0 /\ r.plan[1] \in InPlaceOf(whole[gone + 1])
        /\ \A i \in 1 .. Len(r.plan) : i # 1 => r.plan[i] = whole[gone + i]
    <3>1. /\ gone >= 0
          /\ \A i \in DOMAIN r.plan : IF i = 1 THEN r.plan[i] \in InPlaceOf(whole[gone + i])
                                                 ELSE r.plan[i] = whole[gone + i]
      BY <1>1 DEF OnPlan
    <3>2. 1 \in DOMAIN r.plan
      BY <1>3
    <3> HIDE DEF whole, gone
    <3> QED
      BY <1>3, <3>1, <3>2
  <2>2. e \in InPlaceOf(whole[gone + 1])
    BY <1>3, <2>1 DEF InPlaceOf
  <2> HIDE DEF whole
  <2>3. /\ Len(whole) - Len(s.plan) = gone
        /\ \A i \in DOMAIN s.plan : IF i = 1 THEN s.plan[i] \in InPlaceOf(whole[gone + i])
                                             ELSE s.plan[i] = whole[gone + i]
    BY <1>2, <2>1, <2>2
  <2>4. s.op # "none" /\ gone >= 0 /\ Plan(s.op) = whole
    BY <1>1, <2>1 DEF whole
  <2> HIDE DEF gone
  <2>5. LET gap == Len(Plan(s.op)) - Len(s.plan) IN
        \A i \in DOMAIN s.plan : IF i = 1 THEN s.plan[i] \in InPlaceOf(Plan(s.op)[gap + i])
                                             ELSE s.plan[i] = Plan(s.op)[gap + i]
    BY <2>3, <2>4
  <2>6. Len(Plan(s.op)) - Len(s.plan) >= 0
    BY <2>3, <2>4
  <2> QED
    BY <2>4, <2>5, <2>6 DEF OnPlan
<1>5. ASSUME NEW x, x # Head(r.plan), x # e
      PROVE  Done(s, x) <=> Done(r, x)
  BY <1>2, <1>3, <1>5 DEF Done
<1> QED
  BY <1>2, <1>4, <1>5 DEF Ready

\* There are n steps left of which x is the next.
StepsLeft(r, x, n) ==
  LET whole == Plan(r.op) IN
  /\ n = Len(r.plan) /\ r.plan[1] = x /\ x \in InPlaceOf(whole[(Len(whole) - n) + 1])
  /\ \A i \in 2 .. n : r.plan[i] = whole[(Len(whole) - n) + i]
  /\ \A y : Done(r, y) <=> \A i \in 1 .. n : r.plan[i] # y

\* Some number of steps is left.
LEMMA Position ==
  ASSUME NEW r \in Operation, OnPlan(r), NEW x, Ready(r, x)
  PROVE  \E n \in 1 .. Len(Plan(r.op)) : StepsLeft(r, x, n)
<1> DEFINE n == Len(r.plan)
           whole == Plan(r.op)
<1>1. /\ r.plan \in Seq(Steps) /\ r.plan # <<>> /\ whole \in Seq(Steps)
      /\ n <= Len(whole) /\ Head(r.plan) = x /\ r.op # "none"
  BY HasOperation DEF Ready
<1>2. n \in Nat \ {0} /\ DOMAIN r.plan = 1 .. n /\ r.plan[1] = x
  BY <1>1, Rest
<1>3. Len(whole) \in Nat
  BY <1>1, LenProperties
<1>4. \A i \in DOMAIN r.plan : IF i = 1 THEN r.plan[i] \in InPlaceOf(whole[(Len(whole) - n) + i])
                                       ELSE r.plan[i] = whole[(Len(whole) - n) + i]
  BY <1>1 DEF OnPlan
<1>5. \A y : Done(r, y) <=> \A i \in 1 .. n : r.plan[i] # y
  BY <1>2 DEF Done
<1> HIDE DEF n, whole
<1>6. n \in 1 .. Len(whole)
  BY <1>1, <1>2, <1>3
<1>7. x \in InPlaceOf(whole[(Len(whole) - n) + 1])
  BY <1>2, <1>4
<1>8. \A i \in 2 .. n : r.plan[i] = whole[(Len(whole) - n) + i]
  BY <1>2, <1>4
<1> QED
  BY <1>2, <1>5, <1>6, <1>7, <1>8 DEF StepsLeft, whole, n

\* What a connect_direct has done and has yet to do, whatever its next step is.
LEMMA DirectOrder ==
  ASSUME NEW r \in Operation, OnPlan(r), r.op = "direct", NEW x, Ready(r, x)
  PROVE  /\ x \in {"validate", "stop", "await_stop", "unlink", "link_direct",
                   "read_links", "read_engine"}
         /\ x # "validate" => Done(r, "validate")
         /\ x \in {"unlink", "link_direct", "read_links", "read_engine"}
              <=> Done(r, "stop") /\ Done(r, "await_stop")
         /\ x \in {"link_direct", "read_links", "read_engine"} <=> Done(r, "unlink")
         /\ x \in {"read_links", "read_engine"} <=> Done(r, "link_direct")
         /\ x = "read_engine" <=> Done(r, "read_links")
         /\ x # "await_stop" => Done(r, "await_stop")
         /\ ~Done(r, "read_engine")
<1>1. PICK n \in 1 .. 6 : StepsLeft(r, x, n)
  BY Position, Plans
<1>2. /\ r.plan[1] = x /\ x \in InPlaceOf(Plan("direct")[(6 - n) + 1])
      /\ \A i \in 2 .. n : r.plan[i] = Plan("direct")[(6 - n) + i]
      /\ \A y : Done(r, y) <=> \A i \in 1 .. n : r.plan[i] # y
  BY <1>1, Plans DEF StepsLeft
<1>3. CASE n = 6
  BY <1>2, <1>3 DEF Plan, InPlaceOf
<1>4. CASE n = 5
  BY <1>2, <1>4 DEF Plan, InPlaceOf
<1>5. CASE n = 4
  BY <1>2, <1>5 DEF Plan, InPlaceOf
<1>6. CASE n = 3
  BY <1>2, <1>6 DEF Plan, InPlaceOf
<1>7. CASE n = 2
  BY <1>2, <1>7 DEF Plan, InPlaceOf
<1>8. CASE n = 1
  BY <1>2, <1>8 DEF Plan, InPlaceOf
<1> QED
  BY <1>1, <1>3, <1>4, <1>5, <1>6, <1>7, <1>8

\* What a connect_amp has done.
LEMMA AmpOrder ==
  ASSUME NEW r \in Operation, OnPlan(r), r.op = "amp", NEW x, Ready(r, x)
  PROVE  /\ x \in {"validate", "unlink", "start", "spawn", "wait_ports", "wire_amp",
                   "read_links", "read_engine"}
         /\ x # "validate" => Done(r, "validate")
         /\ x \notin {"validate", "unlink"} <=> Done(r, "unlink")
         /\ x \in {"spawn", "wait_ports", "wire_amp", "read_links", "read_engine"}
              <=> Done(r, "start")
         /\ x \in {"wire_amp", "read_links", "read_engine"} <=> Done(r, "wait_ports")
         /\ x \in {"read_links", "read_engine"} <=> Done(r, "wire_amp")
         /\ x = "read_engine" <=> Done(r, "read_links")
         /\ ~Done(r, "read_engine")
<1>1. PICK n \in 1 .. 7 : StepsLeft(r, x, n)
  BY Position, Plans
<1>2. /\ r.plan[1] = x /\ x \in InPlaceOf(Plan("amp")[(7 - n) + 1])
      /\ \A i \in 2 .. n : r.plan[i] = Plan("amp")[(7 - n) + i]
      /\ \A y : Done(r, y) <=> \A i \in 1 .. n : r.plan[i] # y
  BY <1>1, Plans DEF StepsLeft
<1>3. CASE n = 7
  BY <1>2, <1>3 DEF Plan, InPlaceOf
<1>4. CASE n = 6
  BY <1>2, <1>4 DEF Plan, InPlaceOf
<1>5. CASE n = 5
  BY <1>2, <1>5 DEF Plan, InPlaceOf
<1>6. CASE n = 4
  BY <1>2, <1>6 DEF Plan, InPlaceOf
<1>7. CASE n = 3
  BY <1>2, <1>7 DEF Plan, InPlaceOf
<1>8. CASE n = 2
  BY <1>2, <1>8 DEF Plan, InPlaceOf
<1>9. CASE n = 1
  BY <1>2, <1>9 DEF Plan, InPlaceOf
<1> QED
  BY <1>1, <1>3, <1>4, <1>5, <1>6, <1>7, <1>8, <1>9

\* What a disconnect has done.
LEMMA DisconnectOrder ==
  ASSUME NEW r \in Operation, OnPlan(r), r.op = "disconnect", NEW x, Ready(r, x)
  PROVE  /\ x \in {"unlink", "stop", "await_stop", "read_links", "read_engine"}
         /\ x # "unlink" <=> Done(r, "unlink")
         /\ x \in {"read_links", "read_engine"} <=> Done(r, "stop") /\ Done(r, "await_stop")
         /\ x = "read_engine" <=> Done(r, "read_links")
         /\ x # "await_stop" => Done(r, "await_stop")
         /\ ~Done(r, "read_engine")
<1>1. PICK n \in 1 .. 4 : StepsLeft(r, x, n)
  BY Position, Plans
<1>2. /\ r.plan[1] = x /\ x \in InPlaceOf(Plan("disconnect")[(4 - n) + 1])
      /\ \A i \in 2 .. n : r.plan[i] = Plan("disconnect")[(4 - n) + i]
      /\ \A y : Done(r, y) <=> \A i \in 1 .. n : r.plan[i] # y
  BY <1>1, Plans DEF StepsLeft
<1>3. CASE n = 4
  BY <1>2, <1>3 DEF Plan, InPlaceOf
<1>4. CASE n = 3
  BY <1>2, <1>4 DEF Plan, InPlaceOf
<1>5. CASE n = 2
  BY <1>2, <1>5 DEF Plan, InPlaceOf
<1>6. CASE n = 1
  BY <1>2, <1>6 DEF Plan, InPlaceOf
<1> QED
  BY <1>1, <1>3, <1>4, <1>5, <1>6

\* What a load_tone has done.
LEMMA ToneOrder ==
  ASSUME NEW r \in Operation, OnPlan(r), r.op = "tone", NEW x, Ready(r, x)
  PROVE  /\ x \in {"validate", "unlink", "stop", "await_stop", "start_rpc", "spawn_rpc",
                   "wait_rpc", "setpreset", "set", "start", "spawn", "wait_ports", "wire_amp"}
         /\ x # "validate" => Done(r, "validate")
         /\ x \notin {"validate", "unlink"} <=> Done(r, "unlink")
         /\ x \in {"validate", "unlink", "start_rpc"} => ~Done(r, "start_rpc")
         /\ x \in {"spawn_rpc", "wait_rpc", "setpreset", "set", "start", "spawn",
                   "wait_ports", "wire_amp"} => Done(r, "start_rpc")
         /\ x \in {"stop", "await_stop"} => (Done(r, "set") <=> Done(r, "start_rpc"))
         /\ x \in {"validate", "unlink", "start_rpc", "spawn_rpc", "wait_rpc", "setpreset",
                   "set"} => ~Done(r, "set")
         /\ x \in {"start", "spawn", "wait_ports", "wire_amp"} => Done(r, "set")
         /\ x \in {"spawn", "wait_ports", "wire_amp"} <=> Done(r, "start")
         /\ x \in {"wait_ports", "wire_amp"} => Done(r, "spawn")
         /\ x = "wire_amp" <=> Done(r, "wait_ports")
         /\ ~Done(r, "wire_amp")
<1>1. PICK n \in 1 .. 11 : StepsLeft(r, x, n)
  BY Position, Plans
<1>2. /\ r.plan[1] = x /\ x \in InPlaceOf(Plan("tone")[(11 - n) + 1])
      /\ \A i \in 2 .. n : r.plan[i] = Plan("tone")[(11 - n) + i]
      /\ \A y : Done(r, y) <=> \A i \in 1 .. n : r.plan[i] # y
  BY <1>1, Plans DEF StepsLeft
<1>3. CASE n = 11
  BY <1>2, <1>3 DEF Plan, InPlaceOf
<1>4. CASE n = 10
  BY <1>2, <1>4 DEF Plan, InPlaceOf
<1>5. CASE n = 9
  BY <1>2, <1>5 DEF Plan, InPlaceOf
<1>6. CASE n = 8
  BY <1>2, <1>6 DEF Plan, InPlaceOf
<1>7. CASE n = 7
  BY <1>2, <1>7 DEF Plan, InPlaceOf
<1>8. CASE n = 6
  BY <1>2, <1>8 DEF Plan, InPlaceOf
<1>9. CASE n = 5
  BY <1>2, <1>9 DEF Plan, InPlaceOf
<1>10. CASE n = 4
  BY <1>2, <1>10 DEF Plan, InPlaceOf
<1>11. CASE n = 3
  BY <1>2, <1>11 DEF Plan, InPlaceOf
<1>12. CASE n = 2
  BY <1>2, <1>12 DEF Plan, InPlaceOf
<1>13. CASE n = 1
  BY <1>2, <1>13 DEF Plan, InPlaceOf
<1> QED
  BY <1>1, <1>3, <1>4, <1>5, <1>6, <1>7, <1>8, <1>9, <1>10, <1>11, <1>12, <1>13

\* But for the stop of a load_tone, a step that was taken does not come again.
LEMMA Once ==
  ASSUME NEW r \in Operation, NEW s \in Operation, OnPlan(r), NEW x, Ready(r, x),
         r.op # "tone", s.plan = Tail(r.plan)
  PROVE  Done(s, x)
<1>1. PICK n \in 1 .. Len(Plan(r.op)) : StepsLeft(r, x, n)
  BY Position
<1>2. r.plan \in Seq(Steps) /\ r.plan # <<>> /\ r.op \in {"direct", "amp", "disconnect"}
  BY HasOperation DEF Ready
<1>3. /\ n = Len(r.plan) /\ DOMAIN s.plan = 1 .. n - 1
      /\ \A i \in 1 .. n - 1 : s.plan[i] = r.plan[i + 1]
  BY <1>1, <1>2, Rest DEF StepsLeft
<1>4. ASSUME NEW i \in 2 .. n
      PROVE  r.plan[i] # x
  <2>1. CASE r.op = "direct"
    <3>1. /\ n \in 1 .. 6 /\ x \in InPlaceOf(Plan("direct")[(6 - n) + 1])
          /\ r.plan[i] = Plan("direct")[(6 - n) + i]
      BY <1>1, <2>1, Plans DEF StepsLeft
    <3>2. CASE n = 6 \/ n = 5
      BY <3>1, <3>2 DEF Plan, InPlaceOf
    <3>3. CASE n = 4 \/ n = 3
      BY <3>1, <3>3 DEF Plan, InPlaceOf
    <3>4. CASE n = 2 \/ n = 1
      BY <3>1, <3>4 DEF Plan, InPlaceOf
    <3> QED
      BY <3>1, <3>2, <3>3, <3>4
  <2>2. CASE r.op = "amp"
    <3>1. /\ n \in 1 .. 7 /\ x \in InPlaceOf(Plan("amp")[(7 - n) + 1])
          /\ r.plan[i] = Plan("amp")[(7 - n) + i]
      BY <1>1, <2>2, Plans DEF StepsLeft
    <3>2. CASE n = 7
      BY <3>1, <3>2 DEF Plan, InPlaceOf
    <3>3. CASE n = 6
      BY <3>1, <3>3 DEF Plan, InPlaceOf
    <3>4. CASE n = 5
      BY <3>1, <3>4 DEF Plan, InPlaceOf
    <3>5. CASE n = 4
      BY <3>1, <3>5 DEF Plan, InPlaceOf
    <3>6. CASE n = 3
      BY <3>1, <3>6 DEF Plan, InPlaceOf
    <3>7. CASE n = 2
      BY <3>1, <3>7 DEF Plan, InPlaceOf
    <3>8. CASE n = 1
      BY <3>1, <3>8 DEF Plan, InPlaceOf
    <3> QED
      BY <3>1, <3>2, <3>3, <3>4, <3>5, <3>6, <3>7, <3>8
  <2>3. CASE r.op = "disconnect"
    <3>1. /\ n \in 1 .. 4 /\ x \in InPlaceOf(Plan("disconnect")[(4 - n) + 1])
          /\ r.plan[i] = Plan("disconnect")[(4 - n) + i]
      BY <1>1, <2>3, Plans DEF StepsLeft
    <3> QED
      BY <3>1 DEF Plan, InPlaceOf
  <2> QED
    BY <1>2, <2>1, <2>2, <2>3
<1>5. ASSUME NEW i \in 1 .. n - 1
      PROVE  s.plan[i] # x
  BY <1>3, <1>4
<1> QED
  BY <1>3, <1>5 DEF Done

\* The steps of a load_tone follow each other.
LEMMA ToneNext ==
  ASSUME NEW r \in Operation, NEW s \in Operation, OnPlan(r), NEW x, Ready(r, x),
         r.op = "tone", s.plan = Tail(r.plan)
  PROVE  /\ x = "validate" => Ready(s, "unlink")
         /\ x = "unlink" => Ready(s, "stop")
         /\ x \in {"stop", "await_stop"} =>
              IF Done(r, "set") THEN Ready(s, "start") ELSE Ready(s, "start_rpc")
         /\ x \in {"start_rpc", "spawn_rpc"} => Ready(s, "wait_rpc")
         /\ x = "wait_rpc" => Ready(s, "setpreset")
         /\ x = "setpreset" => Ready(s, "set")
         /\ x = "set" => Ready(s, "stop")
         /\ x \in {"start", "spawn"} => Ready(s, "wait_ports")
         /\ x = "wait_ports" => Ready(s, "wire_amp")
         /\ x = "wire_amp" => s.plan = <<>>
<1>1. PICK n \in 1 .. 11 : StepsLeft(r, x, n)
  BY Position, Plans
<1>2. /\ x \in InPlaceOf(Plan("tone")[(11 - n) + 1])
      /\ \A i \in 2 .. n : r.plan[i] = Plan("tone")[(11 - n) + i]
      /\ \A y : Done(r, y) <=> \A i \in 1 .. n : r.plan[i] # y
      /\ r.plan[1] = x
  <2>1. /\ x \in InPlaceOf(Plan(r.op)[(Len(Plan(r.op)) - n) + 1])
        /\ \A i \in 2 .. n : r.plan[i] = Plan(r.op)[(Len(Plan(r.op)) - n) + i]
        /\ \A y : Done(r, y) <=> \A i \in 1 .. n : r.plan[i] # y
        /\ r.plan[1] = x
    BY <1>1, Zenon DEF StepsLeft
  <2>2. Plan(r.op) = Plan("tone") /\ Len(Plan(r.op)) = 11
    BY Plans
  <2>3. /\ x \in InPlaceOf(Plan("tone")[(11 - n) + 1])
        /\ \A i \in 2 .. n : r.plan[i] = Plan("tone")[(11 - n) + i]
    BY <2>1, <2>2
  <2> QED
    BY <2>1, <2>3, Zenon
<1>3. /\ r.plan \in Seq(Steps) /\ r.plan # <<>> /\ n = Len(r.plan)
  BY <1>1, HasOperation DEF Ready, StepsLeft
<1>4. /\ s.plan \in Seq(Steps) /\ Len(s.plan) = n - 1
      /\ n > 1 => s.plan[1] = r.plan[2]
  BY <1>3, Rest
<1>5. /\ n > 1 => Ready(s, r.plan[2])
      /\ n = 1 => s.plan = <<>>
  <2>1. PICK m \in Nat : m = Len(s.plan) /\ m = n - 1
    BY <1>4, LenProperties
  <2>2. s.plan = <<>> <=> m = 0
    BY <1>4, <2>1, EmptySeq
  <2>3. s.plan # <<>> => Head(s.plan) = s.plan[1]
    BY <1>4, Rest
  <2> QED
    BY <1>4, <2>1, <2>2, <2>3 DEF Ready
<1>6. CASE n = 11
  BY <1>2, <1>5, <1>6 DEF Plan, InPlaceOf
<1>7. CASE n = 10
  BY <1>2, <1>5, <1>7 DEF Plan, InPlaceOf
<1>8. CASE n = 9
  BY <1>2, <1>5, <1>8 DEF Plan, InPlaceOf
<1>9. CASE n = 8
  BY <1>2, <1>5, <1>9 DEF Plan, InPlaceOf
<1>10. CASE n = 7
  BY <1>2, <1>5, <1>10 DEF Plan, InPlaceOf
<1>11. CASE n = 6
  BY <1>2, <1>5, <1>11 DEF Plan, InPlaceOf
<1>12. CASE n = 5
  BY <1>2, <1>5, <1>12 DEF Plan, InPlaceOf
<1>13. CASE n = 4
  BY <1>2, <1>5, <1>13 DEF Plan, InPlaceOf
<1>14. CASE n = 3
  BY <1>2, <1>5, <1>14 DEF Plan, InPlaceOf
<1>15. CASE n = 2
  BY <1>2, <1>5, <1>15 DEF Plan, InPlaceOf
<1>16. CASE n = 1
  BY <1>2, <1>5, <1>16 DEF Plan, InPlaceOf
<1> QED
  BY <1>1, <1>6, <1>7, <1>8, <1>9, <1>10, <1>11, <1>12, <1>13, <1>14, <1>15, <1>16

-----------------------------------------------------------------------------
(* Operations and what befalls them.                                       *)

\* What is said of an operation is said of one that did not overlap another.
LEMMA Overlapped ==
  ASSUME NEW r, r.op = "none" \/ "overlap" \in r.trouble
  PROVE  OperationInv(r) /\ OperationInv(r)'
BY DEF OperationInv, DryInv, StopInv, AmpInv, StatusInv, Reports, ToneInv, Clean

\* The idle operation is none, and has nothing left to do.
LEMMA Idle ==
  /\ IdleReq \in Operation /\ OnPlan(IdleReq) /\ MadeInv(IdleReq)
  /\ IdleReq.op = "none" /\ IdleReq.plan = <<>>
<1>1. IdleReq \in Operation
  BY DEF IdleReq, Operation, Config
<1> QED
  BY <1>1 DEF IdleReq, OnPlan, MadeInv, Ready

\* s is r, at another time or after a step: it knows all of r's troubles, unless it
\* overlaps another.
Follows(r, s) ==
  /\ s.op = r.op /\ s.tone = r.tone /\ s.config = r.config
  /\ r.trouble \subseteq s.trouble \/ "overlap" \in s.trouble
  /\ "overlap" \in r.trouble => "overlap" \in s.trouble
Unmoved(r, s) ==
  Follows(r, s) /\ s.plan = r.plan /\ s.made = r.made /\ s.seen = r.seen /\ s.route = r.route

\* A trouble is all that changes.
LEMMA TroubledKeeps ==
  ASSUME NEW r \in Operation, NEW what \in SUBSET Troubles
  PROVE  /\ Troubled(r, what) \in Operation /\ Unmoved(r, Troubled(r, what))
         /\ \/ what \subseteq Troubled(r, what).trouble
            \/ "overlap" \in Troubled(r, what).trouble
<1>1. {"overlap"} \in SUBSET Troubles /\ r.trouble \cup what \in SUBSET Troubles
  BY DEF Troubles, Operation
<1>2. PICK new \in SUBSET Troubles :
        /\ Troubled(r, what) = [r EXCEPT !.trouble = new]
        /\ new = IF "overlap" \in r.trouble \cup what THEN {"overlap"}
                 ELSE r.trouble \cup what
  BY <1>1 DEF Troubled
<1>3. /\ [r EXCEPT !.trouble = new] \in Operation
      /\ [r EXCEPT !.trouble = new].trouble = new
  BY <1>2 DEF Operation
<1>4. LET s == [r EXCEPT !.trouble = new] IN
        /\ s.op = r.op /\ s.tone = r.tone /\ s.config = r.config /\ s.plan = r.plan
        /\ s.made = r.made /\ s.seen = r.seen /\ s.route = r.route
  BY DEF Operation
<1> QED
  BY <1>2, <1>3, <1>4 DEF Unmoved, Follows

-----------------------------------------------------------------------------
(* Ports and links.                                                        *)

\* What is configured is not Guitarix.
LEMMA ConfigPorts ==
  ASSUME NEW c \in Config
  PROVE  /\ c.source \notin GxPorts /\ Playback(c) \cap GxPorts = {}
         /\ c.output # Unset => c.output \in Outputs /\ Playback(c) = PortsOf(c.output)
         /\ c.source # Unset => c.source \in Sources /\ PortsOf(c.source) = {c.source}
<1>1. c.source \in Sources \cup {Unset} /\ c.output \in Outputs \cup {Unset}
  BY DEF Config
<1>2. \A s \in Sources : s \in Devices /\ PortsOf(s) = {s}
  BY PipeWireAssumption DEF Devices, PortsOf
<1>3. \A d \in Devices : PortsOf(d) \cap GxPorts = {}
  BY PipeWireAssumption
<1>4. Unset \notin GxPorts
  BY PipeWireAssumption
<1> QED
  BY <1>1, <1>2, <1>3, <1>4 DEF Playback, Devices

\* So a link of Guitarix is not one of those the guitar may have without it.
LEMMA DryIsNotWet ==
  ASSUME NEW c \in Config
  PROVE  \A l \in Dry(c) : {l[1], l[2]} \cap GxPorts = {}
BY ConfigPorts DEF Dry

\* The ports of an output, and the one or two of them that are used.
LEMMA OutputPorts ==
  ASSUME NEW d \in Outputs
  PROVE  /\ Len(Ports[d]) \in Nat \ {0} /\ DOMAIN Ports[d] = 1 .. Len(Ports[d])
         /\ PickStereo(d)[1] \in PortsOf(d) /\ PickStereo(d)[2] \in PortsOf(d)
         /\ PortsOf(d) = {Ports[d][i] : i \in 1 .. Len(Ports[d])}
<1>1. Ports[d] \in Seq(PortsOf(d)) /\ Ports[d] # <<>>
  BY PipeWireAssumption
<1>2. Len(Ports[d]) \in Nat \ {0} /\ DOMAIN Ports[d] = 1 .. Len(Ports[d])
  BY <1>1, EmptySeq, LenProperties
<1>3. PortsOf(d) = {Ports[d][i] : i \in 1 .. Len(Ports[d])}
  BY <1>2 DEF PortsOf
<1>4. PickStereo(d)[1] = Ports[d][1]
  BY DEF PickStereo
<1>5. PickStereo(d)[2] = Ports[d][IF Len(Ports[d]) > 1 THEN 2 ELSE 1]
  BY DEF PickStereo
<1> HIDE PipeWireAssumption
<1>6. 1 \in 1 .. Len(Ports[d])
      /\ (IF Len(Ports[d]) > 1 THEN 2 ELSE 1) \in 1 .. Len(Ports[d])
  BY <1>2
<1> QED
  BY <1>2, <1>3, <1>4, <1>5, <1>6

\* The direct links are one or two; Guitarix takes four.
LEMMA Wiring ==
  ASSUME NEW c \in Config, c.output \in Outputs
  PROVE  /\ Len(DirectLinks(c)) \in {1, 2}
         /\ \A i \in 1 .. Len(DirectLinks(c)) :
              /\ DirectLinks(c)[i][1] = c.source
              /\ DirectLinks(c)[i][2] \in PortsOf(c.output)
              /\ DirectLinks(c)[i] = <<c.source, DirectLinks(c)[i][2]>>
         /\ AsSet(DirectLinks(c)) = {DirectLinks(c)[i] : i \in 1 .. Len(DirectLinks(c))}
<1> DEFINE lr == PickStereo(c.output)
<1>1. lr[1] \in PortsOf(c.output) /\ lr[2] \in PortsOf(c.output)
  BY OutputPorts
<1>2. CASE lr[1] = lr[2]
  <2>1. DirectLinks(c) = <<<<c.source, lr[1]>>>>
    BY <1>2 DEF DirectLinks
  <2> HIDE DEF lr
  <2> QED
    BY <1>1, <2>1 DEF AsSet
<1>3. CASE lr[1] # lr[2]
  <2>1. DirectLinks(c) = <<<<c.source, lr[1]>>, <<c.source, lr[2]>>>>
    BY <1>3 DEF DirectLinks
  <2> HIDE DEF lr
  <2>2. Len(DirectLinks(c)) = 2 /\ DOMAIN DirectLinks(c) = 1 .. 2
    BY <2>1
  <2>3. DirectLinks(c)[1] = <<c.source, lr[1]>> /\ DirectLinks(c)[2] = <<c.source, lr[2]>>
    BY <2>1
  <2>4. \A i \in 1 .. 2 : i = 1 \/ i = 2
    OBVIOUS
  <2> QED
    BY <1>1, <2>2, <2>3, <2>4 DEF AsSet
<1> QED
  BY <1>2, <1>3

\* Those that Guitarix takes.
LEMMA Chain ==
  ASSUME NEW c \in Config, c.output \in Outputs
  PROVE  /\ Len(AmpLinks(c)) = 4 /\ DOMAIN AmpLinks(c) = 1 .. 4
         /\ \A i \in 1 .. 4 :
              /\ AmpLinks(c)[i][1] \in {c.source, "amp_out", "fx_out_0", "fx_out_1"}
              /\ AmpLinks(c)[i][2] \in {"amp_in", "fx_in"} \cup PortsOf(c.output)
              /\ {AmpLinks(c)[i][1], AmpLinks(c)[i][2]} \cap GxPorts # {}
         /\ AmpLinks(c)[1] = <<c.source, "amp_in">>
<1> DEFINE lr == PickStereo(c.output)
<1>1. lr[1] \in PortsOf(c.output) /\ lr[2] \in PortsOf(c.output)
  BY OutputPorts
<1>2. AmpLinks(c) = << <<c.source, "amp_in">>, <<"amp_out", "fx_in">>,
                       <<"fx_out_0", lr[1]>>, <<"fx_out_1", lr[2]>> >>
  BY DEF AmpLinks
<1> HIDE DEF lr
<1>3. /\ Len(AmpLinks(c)) = 4 /\ DOMAIN AmpLinks(c) = 1 .. 4
      /\ AmpLinks(c)[1] = <<c.source, "amp_in">> /\ AmpLinks(c)[2] = <<"amp_out", "fx_in">>
      /\ AmpLinks(c)[3] = <<"fx_out_0", lr[1]>> /\ AmpLinks(c)[4] = <<"fx_out_1", lr[2]>>
  BY <1>2
<1>4. {"amp_in", "amp_out", "fx_in", "fx_out_0", "fx_out_1"} \subseteq GxPorts
  BY DEF GxPorts
<1>5. ASSUME NEW i \in 1 .. 4
      PROVE  /\ AmpLinks(c)[i][1] \in {c.source, "amp_out", "fx_out_0", "fx_out_1"}
             /\ AmpLinks(c)[i][2] \in {"amp_in", "fx_in"} \cup PortsOf(c.output)
             /\ {AmpLinks(c)[i][1], AmpLinks(c)[i][2]} \cap GxPorts # {}
  <2>1. CASE i = 1
    BY <1>3, <1>4, <2>1
  <2>2. CASE i = 2
    BY <1>3, <1>4, <2>2
  <2>3. CASE i = 3
    BY <1>1, <1>3, <1>4, <2>3
  <2>4. CASE i = 4
    BY <1>1, <1>3, <1>4, <2>4
  <2> QED
    BY <2>1, <2>2, <2>3, <2>4
<1> QED
  BY <1>3, <1>5
-----------------------------------------------------------------------------
(* What a step leaves alone.  r is an operation or an outcome before it, s the same *)
(* one after it.                                                           *)

\* Between the devices nothing changes: neither they nor their links.
DevicesKept ==
  /\ present' = present
  /\ \A l : {l[1], l[2]} \cap GxPorts = {} => (l \in links' <=> l \in links)

\* The links to be removed are none of Guitarix.
LEMMA UnlinkedPorts ==
  ASSUME NEW c \in Config, present \subseteq Devices
  PROVE  \A i \in DOMAIN Unlinked(c) :
           /\ Unlinked(c)[i][1] = c.source /\ Unlinked(c)[i][2] \in Playback(c)
           /\ {Unlinked(c)[i][1], Unlinked(c)[i][2]} \cap GxPorts = {}
<1> SUFFICES ASSUME NEW i \in DOMAIN Unlinked(c)
             PROVE  /\ Unlinked(c)[i][1] = c.source /\ Unlinked(c)[i][2] \in Playback(c)
                    /\ {Unlinked(c)[i][1], Unlinked(c)[i][2]} \cap GxPorts = {}
  OBVIOUS
<1>0. c.source # Unset /\ c.output \in present
  <2>1. DOMAIN <<>> = {}
    OBVIOUS
  <2>2. ~(c.source # Unset /\ c.output \in present) => Unlinked(c) = <<>>
    BY DEF Unlinked
  <2> QED
    BY <2>1, <2>2
<1>1. /\ DOMAIN Unlinked(c) = DOMAIN Ports[c.output]
      /\ Unlinked(c)[i] = <<c.source, Ports[c.output][i]>>
  BY <1>0 DEF Unlinked
<1>2. CASE c.output = Unset
  <2>1. c.output \in Devices
    BY <1>0
  <2> QED
    BY <1>2, <2>1, PipeWireAssumption
<1>3. CASE c.output # Unset
  <2>1. c.output \in Outputs /\ Playback(c) = PortsOf(c.output)
    BY <1>3, ConfigPorts
  <2>2. Ports[c.output][i] \in PortsOf(c.output)
    BY <1>1, <2>1 DEF PortsOf
  <2> QED
    BY <1>1, <2>1, <2>2, ConfigPorts
<1> QED
  BY <1>2, <1>3

\* An operation's dry links are as far as they were when a step concerns neither
\* its place among the steps that make or remove them nor the devices.
LEMMA DryStays ==
  ASSUME present \subseteq Devices,
         NEW r \in Operation, NEW s \in Operation, Follows(r, s), DryInv(r),
         \A x \in {"validate", "unlink", "link_direct"} : Done(s, x) <=> Done(r, x),
         \/ s.made = r.made
         \/ s.made = 0 /\ (Done(r, "unlink") /\ r.op = "direct" => Done(r, "link_direct"))
         \/ Done(r, "unlink") /\ r.op # "direct",
         DevicesKept \/ "unplugged" \in s.trouble \/ "overlap" \in s.trouble
  PROVE  DryInv(s)'
<1> SUFFICES ASSUME s.op # "none", Clean(s, {"overlap", "unplugged"})
             PROVE  /\ s.op # "disconnect" /\ Done(s, "validate")
                         => {s.config.source, s.config.output} \subseteq present'
                    /\ ~Done(s, "unlink") =>
                         \A i \in DOMAIN Unlinked(s.config)' :
                           i <= s.made => Unlinked(s.config)'[i] \notin links'
                    /\ Done(s, "unlink") => Dry(s.config)' = DrySoFar(s)
  BY DEF DryInv
<1>1. /\ r.op = s.op /\ r.config = s.config /\ Clean(r, {"overlap", "unplugged"})
      /\ DevicesKept
  BY DEF Follows, Clean
<1>2. /\ r.op # "disconnect" /\ Done(r, "validate")
           => {r.config.source, r.config.output} \subseteq present
      /\ ~Done(r, "unlink") => \A i \in DOMAIN Unlinked(r.config) :
           i <= r.made => Unlinked(r.config)[i] \notin links
      /\ Done(r, "unlink") => Dry(r.config) = DrySoFar(r)
  BY <1>1 DEF DryInv
<1>3. Unlinked(s.config)' = Unlinked(s.config) /\ s.config \in Config
  BY <1>1 DEF DevicesKept, Unlinked, Operation
<1>4. ASSUME ~Done(s, "unlink"), NEW i \in DOMAIN Unlinked(s.config), i <= s.made
      PROVE  Unlinked(s.config)[i] \notin links'
  <2>1. {Unlinked(s.config)[i][1], Unlinked(s.config)[i][2]} \cap GxPorts = {}
    BY <1>3, UnlinkedPorts
  <2>2. ~Done(r, "unlink") /\ (s.made = r.made \/ s.made = 0)
    BY <1>4
  <2>3. CASE s.made = r.made
    BY <1>1, <1>2, <1>4, <2>1, <2>2, <2>3 DEF DevicesKept
  <2>4. CASE s.made = 0
    <3>1. i \in 1 .. Len(Ports[s.config.output])
      <4>1. Unlinked(s.config) # <<>> /\ s.config.source # Unset /\ s.config.output \in present
        BY <1>4 DEF Unlinked
      <4>2. DOMAIN Unlinked(s.config) = DOMAIN Ports[s.config.output]
        BY <4>1 DEF Unlinked
      <4>3. s.config.output # Unset => s.config.output \in Outputs
        BY <1>3, ConfigPorts
      <4>4. s.config.output = Unset => FALSE
        BY <1>4, <1>3, UnlinkedPorts DEF Playback
      <4> QED
        BY <1>4, <4>2, <4>3, <4>4, OutputPorts
    <3> QED
      BY <1>4, <2>4, <3>1
  <2> QED
    BY <2>2, <2>3, <2>4
<1>5. Dry(s.config)' = Dry(s.config)
  BY <1>1, <1>3, ConfigPorts DEF Dry, Playback, DevicesKept
<1>6. Done(s, "unlink") => DrySoFar(s) = DrySoFar(r)
  BY <1>1 DEF DrySoFar
<1> QED
  BY <1>1, <1>2, <1>3, <1>4, <1>5, <1>6 DEF DevicesKept

\* A Guitarix that was stopped has no links again, unless one is made.
LEMMA StopStays ==
  ASSUME NEW r \in Operation, NEW s \in Operation, Follows(r, s), StopInv(r),
         s.op \in {"direct", "disconnect"} /\ Done(s, "stop") /\ Done(s, "await_stop")
           => Done(r, "stop") /\ Done(r, "await_stop"),
         s.op \in {"direct", "disconnect"} /\ Clean(s, {"overlap", "gave_up", "unplugged"}) =>
           \A l \in links' : {l[1], l[2]} \cap GxPorts # {} => l \in links
  PROVE  StopInv(s)'
<1> SUFFICES ASSUME s.op \in {"direct", "disconnect"},
                    Clean(s, {"overlap", "gave_up", "unplugged"}),
                    Done(s, "stop"), Done(s, "await_stop")
             PROVE  Wet' = {}
  BY DEF StopInv
<1>1. r.op = s.op /\ Clean(r, {"overlap", "gave_up", "unplugged"})
  BY DEF Follows, Clean
<1>2. Wet = {}
  BY <1>1 DEF StopInv
<1> QED
  BY <1>2 DEF Wet

\* What Guitarix is and has stays, but for a step of dying; or somebody will know.
GuitarixKept ==
  (\A p \in Procs : proc[p].state # "dying") =>
    /\ \A p \in Procs : proc'[p].state # "dying"
    /\ WithPorts # {} => (WithPorts # {})'
    /\ links \subseteq links'

\* The chain through Guitarix is as far as it was while Guitarix and the links stay.
LEMMA AmpStays ==
  ASSUME NEW r \in Operation, NEW s \in Operation, Follows(r, s), AmpInv(r),
         s.op \in {"amp", "tone"} =>
           \A x \in {"start", "wait_ports", "wire_amp"} : Done(s, x) <=> Done(r, x),
         s.made = r.made \/ s.made = 0 \/ (s.op \in {"amp", "tone"} => ~Done(s, "start")),
         GuitarixKept \/ (s.op \in {"amp", "tone"} => ~Done(s, "start"))
           \/ s.trouble \cap {"died", "unplugged", "overlap"} # {}
  PROVE  AmpInv(s)'
<1> SUFFICES ASSUME s.op \in {"amp", "tone"}, Done(s, "start"),
                    Clean(s, {"overlap", "abandoned", "died", "unplugged"})
             PROVE  /\ \A p \in Procs : proc'[p].state # "dying"
                    /\ Done(s, "wait_ports") => (WithPorts # {})'
                    /\ Done(s, "wait_ports") /\ ~Done(s, "wire_amp")
                         => \A i \in 1 .. s.made : AmpLinks(s.config)[i] \in links'
                    /\ Done(s, "wire_amp") => AsSet(AmpLinks(s.config)) \subseteq links'
  BY DEF AmpInv
<1>1. /\ r.op = s.op /\ r.config = s.config
      /\ Clean(r, {"overlap", "abandoned", "died", "unplugged"})
  BY DEF Follows, Clean
<1>2. /\ Done(r, "start")
      /\ Done(r, "wait_ports") <=> Done(s, "wait_ports")
      /\ Done(r, "wire_amp") <=> Done(s, "wire_amp")
  OBVIOUS
<1>3. /\ \A p \in Procs : proc[p].state # "dying"
      /\ Done(r, "wait_ports") => WithPorts # {}
      /\ Done(r, "wait_ports") /\ ~Done(r, "wire_amp")
           => \A i \in 1 .. r.made : AmpLinks(r.config)[i] \in links
      /\ Done(r, "wire_amp") => AsSet(AmpLinks(r.config)) \subseteq links
  BY <1>1, <1>2 DEF AmpInv
<1>4. /\ \A p \in Procs : proc'[p].state # "dying"
      /\ WithPorts # {} => (WithPorts # {})'
      /\ links \subseteq links'
  BY <1>3 DEF GuitarixKept, Clean
<1>5. ASSUME Done(s, "wait_ports"), ~Done(s, "wire_amp"), NEW i \in 1 .. s.made
      PROVE  AmpLinks(s.config)[i] \in links'
  <2>1. s.made = r.made
    BY <1>5
  <2> QED
    BY <1>1, <1>2, <1>3, <1>4, <1>5, <2>1
<1> QED
  BY <1>1, <1>2, <1>3, <1>4, <1>5

\* What status() has seen is still so while the links stay.
LEMMA StatusStays ==
  ASSUME NEW r \in Operation, NEW s \in Operation, Follows(r, s), StatusInv(r),
         s.op \in {"direct", "amp", "disconnect"} =>
           /\ \A x \in {"read_links", "read_engine"} : Done(s, x) <=> Done(r, x)
           /\ s.seen = r.seen /\ s.route = r.route,
         Reports(s) /\ Done(s, "read_links") => links' = links
  PROVE  StatusInv(s)'
<1> SUFFICES ASSUME Reports(s)
             PROVE  /\ Done(s, "read_links") /\ ~Done(s, "read_engine")
                         => s.seen = Targets(s.config.source)'
                    /\ Done(s, "read_engine") => s.route = RouteOf(s.op)
  BY DEF StatusInv, Reports, Clean
<1>1. r.op = s.op /\ r.config = s.config /\ Reports(r)
  BY DEF Follows, Reports, Clean
<1>2. /\ Done(r, "read_links") /\ ~Done(r, "read_engine")
           => r.seen = Targets(r.config.source)
      /\ Done(r, "read_engine") => r.route = RouteOf(r.op)
  BY <1>1 DEF StatusInv
<1>3. /\ \A x \in {"read_links", "read_engine"} : Done(s, x) <=> Done(r, x)
      /\ s.seen = r.seen /\ s.route = r.route
  BY DEF Reports
<1> QED
  BY <1>1, <1>2, <1>3 DEF Targets

\* What is said of Guitarix while a tone is loaded, of which ToneInv is made.
ToneKept(tone) ==
  /\ (NoWrapper => NoWrapper') /\ (NoneLeft => NoneLeft')
  /\ Fresh({"wrapper", "running"}) => Fresh({"wrapper", "running"})'
  /\ Fresh({"running"}) => Fresh({"running"})'
  /\ HalfWay(tone) => HalfWay(tone)'
  /\ AllToHear(tone, "running") => AllToHear(tone, "running")'
  /\ AllToHear(tone, "dying") => (AllToHear(tone, "dying") \/ Kept(tone))'
  /\ Kept(tone) => Kept(tone)'
  /\ Restarted(tone) => Restarted(tone)'

\* The tone is as far on its way as it was while it is kept.
LEMMA ToneStays ==
  ASSUME NEW r \in Operation, NEW s \in Operation, Unmoved(r, s), ToneInv(r),
         \/ ToneKept(s.tone)
         \/ s.trouble \cap {"overlap", "gave_up", "abandoned", "died", "unheard"} # {}
  PROVE  ToneInv(s)'
<1> SUFFICES ASSUME s.op = "tone",
                    Clean(s, {"overlap", "gave_up", "abandoned", "died", "unheard", "wrapper"})
             PROVE  ToneInv(s)'
  BY DEF ToneInv, Clean
<1>1. /\ r.op = s.op /\ r.tone = s.tone /\ ToneKept(s.tone)
      /\ Clean(r, {"overlap", "gave_up", "abandoned", "died", "unheard", "wrapper"})
  BY DEF Unmoved, Follows, Clean
<1>2. \A x : (Ready(s, x) <=> Ready(r, x)) /\ (Done(s, x) <=> Done(r, x))
  BY DEF Unmoved, Ready, Done
<1>3. r.plan = <<>> <=> s.plan = <<>>
  BY DEF Unmoved
<1> QED
  BY <1>1, <1>2, <1>3 DEF ToneInv, ToneKept

\* Once the status has seen the links, there is nothing to be changed in them.
LEMMA Settled ==
  ASSUME NEW r \in Operation, OnPlan(r), StopInv(r), AmpInv(r), Reports(r),
         Done(r, "read_links")
  PROVE  /\ r.op \in {"direct", "disconnect"} => Wet = {}
         /\ r.op = "amp" => \A p \in Procs : proc[p].state # "dying"
<1>1. CASE r.plan = <<>>
  <2>1. \A x : Done(r, x)
    BY <1>1, EmptySeq DEF Done
  <2> QED
    BY <2>1 DEF StopInv, AmpInv, Reports, Clean
<1>2. CASE r.plan # <<>>
  <2>1. PICK x : Ready(r, x)
    BY <1>2 DEF Ready
  <2>2. CASE r.op = "direct"
    <3>1. Done(r, "stop") /\ Done(r, "await_stop")
      BY <2>1, <2>2, DirectOrder
    <3> QED
      BY <2>2, <3>1 DEF StopInv, Reports, Clean
  <2>3. CASE r.op = "disconnect"
    <3>1. Done(r, "stop") /\ Done(r, "await_stop")
      BY <2>1, <2>3, DisconnectOrder
    <3> QED
      BY <2>3, <3>1 DEF StopInv, Reports, Clean
  <2>4. CASE r.op = "amp"
    <3>1. Done(r, "start")
      BY <2>1, <2>4, AmpOrder
    <3> QED
      BY <2>4, <3>1 DEF AmpInv, Reports, Clean
  <2> QED
    BY <2>2, <2>3, <2>4 DEF Reports
<1> QED
  BY <1>1, <1>2

-----------------------------------------------------------------------------
(* Guitarix, PipeWire and the user.                                        *)

\* The environment takes no step of an operation, and adds no link.
LEMMA Undisturbed ==
  ASSUME present \subseteq Devices, NEW r \in Operation, NEW s \in Operation,
         OnPlan(r), OperationInv(r), Unmoved(r, s),
         DevicesKept \/ s.trouble \cap {"unplugged", "overlap"} # {},
         GuitarixKept \/ s.trouble \cap {"died", "unplugged", "overlap"} # {},
         ToneKept(s.tone) \/ s.trouble \cap {"died", "unheard", "abandoned", "overlap"} # {},
         links' \subseteq links,
         \/ s.trouble \cap {"unplugged", "overlap"} # {}
         \/ links' = links
         \/ /\ Wet = {} => links' = links
            /\ s.trouble \cap {"died"} # {} \/ \E p \in Procs : proc[p].state = "dying"
  PROVE  OperationInv(s)'
<1>1. Follows(r, s) /\ s.made = r.made /\ s.seen = r.seen /\ s.route = r.route
  BY DEF Unmoved
<1>2. \A x : Done(s, x) <=> Done(r, x)
  BY DEF Unmoved, Done
<1>3. DryInv(r) /\ StopInv(r) /\ AmpInv(r) /\ StatusInv(r) /\ ToneInv(r)
  BY DEF OperationInv
<1>4. DryInv(s)'
  BY <1>1, <1>2, <1>3, DryStays
<1>5. StopInv(s)'
  BY <1>1, <1>2, <1>3, StopStays
<1>6. AmpInv(s)'
  BY <1>1, <1>2, <1>3, AmpStays
<1>7. StatusInv(s)'
  <2>1. ASSUME Reports(s), Done(s, "read_links")
        PROVE  links' = links
    <3>1. Reports(r) /\ r.op = s.op /\ Done(r, "read_links")
      BY <1>1, <1>2, <2>1 DEF Follows, Reports, Clean
    <3>2. /\ r.op \in {"direct", "disconnect"} => Wet = {}
          /\ r.op = "amp" => \A p \in Procs : proc[p].state # "dying"
      BY <1>3, <3>1, Settled
    <3>3. s.trouble \cap {"unplugged", "overlap"} = {}
          /\ (s.op = "amp" => s.trouble \cap {"died"} = {})
          /\ s.op \in {"direct", "amp", "disconnect"}
      BY <2>1 DEF Reports, Clean
    <3> QED
      BY <3>1, <3>2, <3>3
  <2> QED
    BY <1>1, <1>2, <1>3, <2>1, StatusStays
<1>8. ToneInv(s)'
  BY <1>3, ToneStays
<1> QED
  BY <1>4, <1>5, <1>6, <1>7, <1>8 DEF OperationInv

\* What the type invariant says of the operations.
Requests ==
  /\ req \in [Threads -> Operation] /\ last \in Operation
  /\ \A t \in Threads : t \notin Busy => req[t] = IdleReq

\* Something happens to all operations, or nothing does.
Befalls(what) ==
  \/ UNCHANGED <<req, last>> /\ what = {}
  \/ Disturb(what) /\ last' = IdleReq

\* What happens to all operations alike keeps the invariant when it keeps each one's.
LEMMA Befallen ==
  ASSUME Requests, PlanInv, OperationInv(last), \A t \in Threads : OperationInv(req[t]),
         NEW what \in SUBSET Troubles, Befalls(what),
         \A r, s \in Operation :
           /\ OnPlan(r) /\ OperationInv(r) /\ Unmoved(r, s)
           /\ what \subseteq s.trouble \/ "overlap" \in s.trouble
           => OperationInv(s)'
  PROVE  /\ Requests' /\ PlanInv'
         /\ \A t \in Threads : OperationInv(req[t])'
         /\ OperationInv(last)'
         /\ \A t \in Threads : At(t, "await_stop")' <=> At(t, "await_stop")
<1>1. CASE UNCHANGED <<req, last>> /\ what = {}
  <2>1. Requests' /\ PlanInv'
    BY <1>1 DEF Requests, PlanInv, Busy
  <2>2. \A r \in Operation : OnPlan(r) /\ OperationInv(r) => OperationInv(r)'
    BY <1>1 DEF Unmoved, Follows
  <2>3. ASSUME NEW t \in Threads
        PROVE  OperationInv(req[t])'
    <3>1. PICK s \in Operation : s = req[t] /\ OnPlan(s) /\ OperationInv(s)
      BY DEF Requests, PlanInv
    <3>2. OperationInv(s)' /\ s = req'[t]
      BY <1>1, <2>2, <3>1
    <3> QED
      BY <3>2
  <2>4. OperationInv(last)'
    <3>1. PICK s \in Operation : s = last /\ OnPlan(s) /\ OperationInv(s)
      BY DEF Requests, PlanInv
    <3>2. OperationInv(s)' /\ s = last'
      BY <1>1, <2>2, <3>1
    <3> QED
      BY <3>2
  <2>5. \A t \in Threads : At(t, "await_stop")' <=> At(t, "await_stop")
    BY <1>1 DEF At
  <2> QED
    BY <2>1, <2>3, <2>4, <2>5
<1>2. CASE Disturb(what) /\ last' = IdleReq
  <2>1. ASSUME NEW t \in Threads
        PROVE  /\ req'[t] \in Operation /\ Unmoved(req[t], req'[t])
               /\ t \notin Busy => req'[t] = IdleReq
               /\ t \in Busy => what \subseteq req'[t].trouble \/ "overlap" \in req'[t].trouble
    <3>1. req[t] \in Operation
      BY DEF Requests
    <3>2. CASE t \in Busy
      <4>1. req'[t] = Troubled(req[t], what)
        BY <1>2, <3>2 DEF Disturb
      <4> QED
        BY <3>1, <3>2, <4>1, TroubledKeeps
    <3>3. CASE t \notin Busy
      <4>1. req'[t] = req[t]
        BY <1>2, <3>3 DEF Disturb
      <4> QED
        BY <3>1, <3>3, <4>1 DEF Requests, Unmoved, Follows
    <3> QED
      BY <3>2, <3>3
  <2>2. req' \in [Threads -> Operation]
    <3>1. req' = [t \in Threads |-> req'[t]]
      BY <1>2 DEF Disturb
    <3> QED
      BY <2>1, <3>1
  <2>3. \A t \in Threads : t \in Busy' <=> t \in Busy
    BY <2>1 DEF Busy, Unmoved
  <2>4. Requests'
    BY <1>2, <2>1, <2>2, <2>3, Idle DEF Requests
  <2>5. ASSUME NEW t \in Threads
        PROVE  OnPlan(req'[t]) /\ MadeInv(req'[t])
    <3>1. OnPlan(req[t]) /\ MadeInv(req[t])
      BY DEF PlanInv
    <3>2. CASE t \notin Busy
      BY <2>1, <3>2, Idle
    <3>3. CASE t \in Busy
      <4>1. req[t].op # "none"
        BY <2>1, <3>1, <3>3, HasOperation DEF Busy, Requests
      <4> QED
        BY <2>1, <3>1, <4>1 DEF Unmoved, Follows, OnPlan, MadeInv, Ready
    <3> QED
      BY <3>2, <3>3
  <2>6. PlanInv'
    <3>1. \A t, u \in Busy : t # u => "overlap" \in req'[t].trouble
      BY <2>1 DEF PlanInv, Busy, Unmoved, Follows
    <3> QED
      BY <1>2, <2>3, <2>5, <3>1, Idle DEF PlanInv, Busy
  <2>7. ASSUME NEW t \in Threads
        PROVE  OperationInv(req[t])'
    <3>1. PICK r \in Operation, s \in Operation : r = req[t] /\ s = req'[t]
      BY <2>1 DEF Requests
    <3>2. OperationInv(s)'
      <4>1. CASE t \in Busy
        BY <2>1, <3>1, <4>1 DEF PlanInv
      <4>2. CASE t \notin Busy
        BY <2>1, <3>1, <4>2, Idle, Overlapped
      <4> QED
        BY <4>1, <4>2
    <3> QED
      BY <3>1, <3>2
  <2>8. OperationInv(last)'
    <3>1. PICK s : s = IdleReq
      OBVIOUS
    <3>2. OperationInv(s)' /\ s = last'
      BY <1>2, <3>1, Idle, Overlapped
    <3> QED
      BY <3>2
  <2>9. \A t \in Threads : At(t, "await_stop")' <=> At(t, "await_stop")
    BY <2>1 DEF At, Unmoved
  <2> QED
    BY <2>4, <2>6, <2>7, <2>8, <2>9
<1> QED
  BY <1>1, <1>2 DEF Befalls

\* What the type invariant says of everything else.
World ==
  /\ config \in Configs /\ present \subseteq Devices /\ saved \in Tone
  /\ links \subseteq AllPorts \X AllPorts
  /\ \A l \in links : Exists(l[1]) /\ Exists(l[2])
  /\ proc \in [Procs -> Process] /\ WithPorts \subseteq Running
  /\ abandoned \subseteq {p \in Procs : proc[p].state = "dying"}
  /\ ops \in 0 .. MaxOps /\ events \in 0 .. MaxEvents

\* The types are those of the world and those of the operations.
LEMMA Types ==
  /\ TypeOK <=> World /\ Requests
  /\ (TypeOK <=> World /\ Requests)'
<1>1. TypeOK <=> World /\ Requests
  BY DEF TypeOK, World, Requests
<1> QED
  BY <1>1, PTL

\* What happens befalls the operations that it concerns.
Harmless(what) ==
  /\ Befalls(what) /\ links' \subseteq links
  /\ DevicesKept \/ "unplugged" \in what
  /\ GuitarixKept \/ what \cap {"died", "unplugged"} # {}
  /\ (\A tone : ToneKept(tone)) \/ what \cap {"died", "unheard"} # {}
  /\ \/ "unplugged" \in what \/ links' = links
     \/ /\ Wet = {} => links' = links
        /\ "died" \in what \/ \E p \in Procs : proc[p].state = "dying"
  /\ \A p \in Procs : proc'[p].state = "dying" /\ p \notin abandoned'
       => proc[p].state = "dying" /\ p \notin abandoned

\* A harmless step keeps the invariant: the operations it harms are told.
LEMMA HarmlessKeeps ==
  ASSUME RoutesInv, World', NEW what \in SUBSET Troubles, Harmless(what)
  PROVE  RoutesInv'
<1>1. /\ World /\ Requests /\ PlanInv /\ DyingInv /\ OperationInv(last)
      /\ \A t \in Threads : OperationInv(req[t])
  BY Types DEF RoutesInv
<1>2. ASSUME NEW r \in Operation, NEW s \in Operation,
             OnPlan(r), OperationInv(r), Unmoved(r, s),
             what \subseteq s.trouble \/ "overlap" \in s.trouble
      PROVE  OperationInv(s)'
  <2>1. present \subseteq Devices
    BY <1>1 DEF World
  <2>2. /\ DevicesKept \/ s.trouble \cap {"unplugged", "overlap"} # {}
        /\ GuitarixKept \/ s.trouble \cap {"died", "unplugged", "overlap"} # {}
        /\ ToneKept(s.tone) \/ s.trouble \cap {"died", "unheard", "abandoned", "overlap"} # {}
        /\ links' \subseteq links
    BY <1>2 DEF Harmless
  <2>3. \/ s.trouble \cap {"unplugged", "overlap"} # {}
        \/ links' = links
        \/ /\ Wet = {} => links' = links
           /\ s.trouble \cap {"died"} # {} \/ \E p \in Procs : proc[p].state = "dying"
    BY <1>2 DEF Harmless
  <2> QED
    BY <1>2, <2>1, <2>2, <2>3, Undisturbed
<1>3. /\ Requests' /\ PlanInv'
      /\ \A t \in Threads : OperationInv(req[t])'
      /\ OperationInv(last)'
      /\ \A t \in Threads : At(t, "await_stop")' <=> At(t, "await_stop")
  <2>1. Befalls(what)
    BY DEF Harmless
  <2> QED
    BY <1>1, <1>2, <2>1, Befallen
<1>4. DyingInv'
  BY <1>1, <1>3 DEF DyingInv, Harmless
<1> QED
  BY <1>3, <1>4, Types DEF RoutesInv

\* The requests of a load_tone, as they wait to be heard.
LEMMA Inboxes ==
  ASSUME NEW p, NEW tone
  PROVE  LET setpreset == [method |-> "setpreset", tone |-> tone]
             set == [method |-> "set", tone |-> tone] IN
         /\ Will(p, <<"setpreset">>, tone) <=> proc[p].inbox = <<setpreset>>
         /\ Will(p, <<"set">>, tone) <=> proc[p].inbox = <<set>>
         /\ Will(p, <<"setpreset", "set">>, tone) <=> proc[p].inbox = <<setpreset, set>>
         /\ Will(p, <<"setpreset">>, tone)' <=> proc'[p].inbox = <<setpreset>>
         /\ Will(p, <<"set">>, tone)' <=> proc'[p].inbox = <<set>>
         /\ Will(p, <<"setpreset", "set">>, tone)' <=> proc'[p].inbox = <<setpreset, set>>
<1> DEFINE of(methods) == [i \in DOMAIN methods |-> [method |-> methods[i], tone |-> tone]]
<1>1. of(<<"setpreset">>) = <<[method |-> "setpreset", tone |-> tone]>>
  OBVIOUS
<1>2. of(<<"set">>) = <<[method |-> "set", tone |-> tone]>>
  OBVIOUS
<1>3. of(<<"setpreset", "set">>)
        = <<[method |-> "setpreset", tone |-> tone], [method |-> "set", tone |-> tone]>>
  OBVIOUS
<1> QED
  BY <1>1, <1>2, <1>3 DEF Will

\* The same Guitarix in the same mood.
LEMMA SameMinds ==
  ASSUME saved' = saved,
         \A p \in Procs : /\ proc'[p].state = proc[p].state /\ proc'[p].tone = proc[p].tone
                          /\ proc'[p].inbox = proc[p].inbox,
         NEW tone
  PROVE  ToneKept(tone)
<1>1. \A p \in Procs : Alone(p)' <=> Alone(p)
  BY DEF Alone
<1>2. (NoWrapper => NoWrapper') /\ (NoneLeft => NoneLeft')
  BY DEF NoWrapper, NoneLeft
<1>3. \A states : Fresh(states) => Fresh(states)'
  BY <1>1 DEF Fresh
<1>4. HalfWay(tone) => HalfWay(tone)'
  BY <1>1 DEF HalfWay, Will, Heard, Half
<1>5. \A state : AllToHear(tone, state) => AllToHear(tone, state)'
  BY <1>1 DEF AllToHear, Will, Heard, Half, Whole
<1>6. Kept(tone) => Kept(tone)'
  BY <1>2 DEF Kept, Whole
<1>7. Restarted(tone) => Restarted(tone)'
  BY DEF Restarted, Whole
<1> QED
  BY <1>2, <1>3, <1>4, <1>5, <1>6, <1>7 DEF ToneKept

\* A process, and what becomes of it.
LEMMA Processes ==
  /\ NoProc \in Process /\ NoProc.state = "none" /\ NoProc.inbox = <<>> /\ ~NoProc.ports
  /\ ~NoProc.rpc
  /\ \A q \in Process, state \in {"none", "wrapper", "running", "dying"} :
       LET n == [q EXCEPT !.state = state] IN
       /\ n \in Process /\ n.state = state /\ n.inbox = q.inbox /\ n.tone = q.tone
       /\ n.ports = q.ports /\ n.rpc = q.rpc
<1>1. NewTone \in Tone /\ <<>> \in Seq(Message)
  BY DEF NewTone, Tone
<1>2. NoProc \in Process /\ NoProc.state = "none" /\ NoProc.inbox = <<>> /\ ~NoProc.ports
      /\ ~NoProc.rpc
  BY <1>1 DEF NoProc, Process
<1> QED
  BY <1>2 DEF Process

\* One port less or a device more, and what is left exists.
LEMMA ExistsStill ==
  ASSUME NEW port, Exists(port), present \subseteq present',
         port \in GxPorts => (WithPorts # {} => WithPorts' # {})
  PROVE  Exists(port)'
BY DEF Exists

\* pw-jack executes guitarix: no operation counts on its wrapper to stay one.
LEMMA LaunchKeeps ==
  ASSUME World, NEW p \in Procs, Launch(p)
  PROVE  World' /\ Harmless({})
<1>1. /\ p \in Procs /\ proc[p] \in Process /\ proc[p].state = "wrapper"
      /\ proc' = [proc EXCEPT ![p] = [[proc[p] EXCEPT !.state = "running"]
                                                EXCEPT !.tone = saved]]
      /\ UNCHANGED <<config, present, saved, links, req, abandoned, last, ops, events>>
  <2>1. proc \in [Procs -> Process]
    BY DEF World
  <2> QED
    BY <2>1 DEF Launch, bounds
<1>2. LET n == [[proc[p] EXCEPT !.state = "running"] EXCEPT !.tone = saved] IN
      /\ n \in Process /\ n.state = "running" /\ n.inbox = proc[p].inbox /\ n.tone = saved
      /\ n.ports = proc[p].ports
  <2>1. saved \in Tone
    BY DEF World
  <2> QED
    BY <1>1, <2>1 DEF Process
<1>3. /\ proc' \in [Procs -> Process]
      /\ proc'[p].state = "running" /\ proc'[p].inbox = proc[p].inbox
      /\ proc'[p].tone = saved /\ proc'[p].ports = proc[p].ports
      /\ \A q \in Procs : q # p => proc'[q] = proc[q]
  BY <1>1, <1>2 DEF World
<1> HIDE DEF Launch
<1>4. WithPorts' = WithPorts /\ p \notin WithPorts
  <2>1. p \notin Running
    BY <1>1 DEF Running
  <2> QED
    BY <1>3, <2>1 DEF World, WithPorts
<1>5. World'
  <2>1. \A l \in links : Exists(l[1])' /\ Exists(l[2])'
    BY <1>1, <1>4, ExistsStill DEF World
  <2>2. WithPorts' \subseteq Running'
    BY <1>3, <1>4 DEF World, Running
  <2>3. abandoned' \subseteq {q \in Procs : proc'[q].state = "dying"}
    BY <1>1, <1>3 DEF World
  <2> QED
    BY <1>1, <1>3, <2>1, <2>2, <2>3 DEF World
<1>6. ASSUME NEW tone
      PROVE  ToneKept(tone)
  <2>1. ~NoWrapper /\ ~NoneLeft /\ ~Kept(tone)
    BY <1>1 DEF NoWrapper, NoneLeft, Kept
  <2>2. \A q \in Procs : Alone(q) => q = p
    BY <1>1 DEF Alone
  <2>3. ~HalfWay(tone) /\ \A state : state # "wrapper" => ~AllToHear(tone, state)
    BY <1>1, <2>2 DEF HalfWay, AllToHear
  <2>4. ~Fresh({"running"})
    BY <1>1, <2>2 DEF Fresh
  <2>5. Fresh({"wrapper", "running"}) => Fresh({"wrapper", "running"})'
    <3>1. Alone(p) => Alone(p)'
      BY <1>3 DEF Alone
    <3> QED
      BY <1>3, <2>2, <3>1 DEF Fresh
  <2>6. Restarted(tone) => Restarted(tone)'
    BY <1>1, <1>3 DEF Restarted, Whole
  <2> QED
    BY <2>1, <2>3, <2>4, <2>5, <2>6 DEF ToneKept
<1>7. GuitarixKept
  BY <1>1, <1>3, <1>4 DEF GuitarixKept
<1>8. DevicesKept /\ Befalls({})
  BY <1>1 DEF DevicesKept, Befalls
<1> QED
  BY <1>1, <1>3, <1>5, <1>6, <1>7, <1>8 DEF Harmless

\* Guitarix registers its ports, which are the first.
LEMMA ExposePortsKeeps ==
  ASSUME World, NEW p \in Procs, ExposePorts(p)
  PROVE  World' /\ Harmless({})
<1>1. /\ proc \in [Procs -> Process] /\ proc[p].state = "running" /\ WithPorts = {}
      /\ proc' = [proc EXCEPT ![p].ports = TRUE]
      /\ UNCHANGED <<config, present, saved, links, req, abandoned, last, ops, events>>
  BY DEF World, ExposePorts, bounds
<1>2. /\ proc' \in [Procs -> Process]
      /\ \A q \in Procs : /\ proc'[q].state = proc[q].state /\ proc'[q].tone = proc[q].tone
                          /\ proc'[q].inbox = proc[q].inbox
                          /\ q # p => proc'[q].ports = proc[q].ports
  BY <1>1 DEF Process
<1>3. World'
  <2>1. \A l \in links : Exists(l[1])' /\ Exists(l[2])'
    BY <1>1, ExistsStill DEF World
  <2>2. WithPorts' \subseteq Running'
    BY <1>1, <1>2 DEF WithPorts, Running
  <2> QED
    BY <1>1, <1>2, <2>1, <2>2 DEF World
<1>4. \A tone : ToneKept(tone)
  BY <1>1, <1>2, SameMinds
<1>5. GuitarixKept
  BY <1>1, <1>2 DEF GuitarixKept
<1> QED
  BY <1>1, <1>2, <1>3, <1>4, <1>5 DEF Harmless, DevicesKept, Befalls

\* Guitarix hears the next request: what was still to hear of a tone, it has now.
LEMMA HandleKeeps ==
  ASSUME World, NEW p \in Procs, Handle(p)
  PROVE  World' /\ Harmless({})
<1> DEFINE m == Head(proc[p].inbox)
           tone1 == IF m.method = "setpreset" THEN [preset |-> m.tone, params |-> Unset]
                    ELSE [proc[p].tone EXCEPT !.params = m.tone]
<1>1. /\ proc \in [Procs -> Process] /\ p \in Running /\ proc[p].inbox # <<>>
      /\ proc' = [proc EXCEPT ![p] = [[proc[p] EXCEPT !.inbox = Tail(@)]
                                                EXCEPT !.tone = tone1]]
      /\ UNCHANGED <<config, present, saved, links, req, abandoned, last, ops, events>>
  BY DEF World, Handle, bounds
<1>2. proc[p] \in Process /\ proc[p].inbox \in Seq(Message) /\ proc[p].tone \in Tone
  BY <1>1 DEF Process
<1>3. Tail(proc[p].inbox) \in Seq(Message) /\ m \in Message
  BY <1>1, <1>2, Rest
<1>4. tone1 \in Tone
  BY <1>2, <1>3 DEF Tone, Message
<1> HIDE DEF tone1
<1>5. /\ proc' \in [Procs -> Process]
      /\ proc'[p].inbox = Tail(proc[p].inbox) /\ proc'[p].tone = tone1
      /\ \A q \in Procs : /\ proc'[q].state = proc[q].state /\ proc'[q].ports = proc[q].ports
                          /\ q # p => proc'[q] = proc[q]
  <2>1. LET n == [[proc[p] EXCEPT !.inbox = Tail(@)] EXCEPT !.tone = tone1] IN
        /\ n \in Process /\ n.inbox = Tail(proc[p].inbox) /\ n.tone = tone1
        /\ n.state = proc[p].state /\ n.ports = proc[p].ports
    BY <1>2, <1>3, <1>4 DEF Process
  <2> QED
    BY <1>1, <2>1
<1>6. WithPorts' = WithPorts /\ Running' = Running
  BY <1>5 DEF WithPorts, Running
<1>7. World'
  <2>1. \A l \in links : Exists(l[1])' /\ Exists(l[2])'
    BY <1>1, <1>6, ExistsStill DEF World
  <2> QED
    BY <1>1, <1>5, <1>6, <2>1 DEF World
<1>8. ASSUME NEW tone
      PROVE  ToneKept(tone)
  <2>1. NoWrapper => NoWrapper'
    BY <1>5 DEF NoWrapper
  <2>2. ~NoneLeft /\ ~Kept(tone)
    BY <1>1 DEF NoneLeft, Kept, Running
  <2>3. \A q \in Procs : Alone(q) => q = p /\ Alone(p)'
    BY <1>1, <1>5 DEF Alone, Running
  <2>4. \A states : ~Fresh(states)
    BY <1>1, <2>3 DEF Fresh
  <2>5. HalfWay(tone) => HalfWay(tone)'
    <3>1. SUFFICES ASSUME Alone(p), proc[p].state = "running",
                          Will(p, <<"setpreset">>, tone)
                   PROVE  HalfWay(tone)'
      BY <1>1, <2>3 DEF HalfWay, Heard
    <3>2. proc[p].inbox = <<[method |-> "setpreset", tone |-> tone]>>
      BY <3>1, Inboxes
    <3>3. Tail(proc[p].inbox) = <<>> /\ m = [method |-> "setpreset", tone |-> tone]
      BY <3>2
    <3>4. tone1 = Half(tone)
      BY <3>3 DEF tone1, Half
    <3>5. Heard(p, Half(tone))'
      BY <1>5, <3>3, <3>4 DEF Heard, Half
    <3> QED
      BY <1>5, <2>3, <3>1, <3>5 DEF HalfWay
  <2>6. ASSUME NEW state, AllToHear(tone, state)
        PROVE  AllToHear(tone, state)'
    <3>1. /\ Alone(p) /\ Alone(p)' /\ proc'[p].state = state
          /\ \/ Will(p, <<"setpreset", "set">>, tone)
             \/ Will(p, <<"set">>, tone) /\ proc[p].tone = Half(tone)
      BY <1>1, <1>5, <2>3, <2>6 DEF AllToHear, Heard
    <3>2. CASE Will(p, <<"setpreset", "set">>, tone)
      <4>1. proc[p].inbox = <<[method |-> "setpreset", tone |-> tone],
                              [method |-> "set", tone |-> tone]>>
        BY <3>2, Inboxes
      <4>2. /\ Tail(proc[p].inbox) = <<[method |-> "set", tone |-> tone]>>
            /\ m = [method |-> "setpreset", tone |-> tone]
        BY <4>1
      <4>3. tone1 = Half(tone)
        BY <4>2 DEF tone1, Half
      <4>4. proc'[p].inbox = <<[method |-> "set", tone |-> tone]>>
        BY <1>5, <4>2
      <4>5. Will(p, <<"set">>, tone)'
        BY <4>4, Inboxes
      <4>6. (proc[p].tone = Half(tone))'
        BY <1>5, <4>3 DEF Half
      <4> QED
        BY <3>1, <4>5, <4>6 DEF AllToHear
    <3>3. CASE Will(p, <<"set">>, tone) /\ proc[p].tone = Half(tone)
      <4>1. proc[p].inbox = <<[method |-> "set", tone |-> tone]>>
        BY <3>3, Inboxes
      <4>2. Tail(proc[p].inbox) = <<>> /\ m = [method |-> "set", tone |-> tone]
        BY <4>1
      <4>3. tone1 = Whole(tone)
        BY <3>3, <4>2 DEF tone1, Half, Whole
      <4>4. Heard(p, Whole(tone))'
        BY <1>5, <4>2, <4>3 DEF Heard, Whole
      <4> QED
        BY <3>1, <4>4 DEF AllToHear
    <3> QED
      BY <3>1, <3>2, <3>3
  <2>7. ~Restarted(tone)
    BY <1>1 DEF Restarted, Running
  <2> QED
    BY <2>1, <2>2, <2>4, <2>5, <2>6, <2>7 DEF ToneKept
<1>9. GuitarixKept
  BY <1>1, <1>5, <1>6 DEF GuitarixKept
<1> QED
  BY <1>1, <1>5, <1>7, <1>8, <1>9 DEF Harmless, DevicesKept, Befalls

\* A process that has gone leaves no link to it, and is not abandoned.
LEMMA GoneKeeps ==
  ASSUME World, NEW p \in Procs, NEW what, proc[p].state # "none",
         Gone(p, what), saved' \in Tone, events' \in 0 .. MaxEvents
  PROVE  /\ World' /\ proc'[p] = NoProc /\ \A q \in Procs : q # p => proc'[q] = proc[q]
         /\ DevicesKept /\ links' \subseteq links /\ (Wet = {} => links' = links)
         /\ abandoned' = abandoned \ {p}
<1>1. /\ proc' = [proc EXCEPT ![p] = NoProc]
      /\ links' = IF proc[p].ports THEN {l \in links : {l[1], l[2]} \cap GxPorts = {}} ELSE links
      /\ abandoned' = abandoned \ {p} /\ UNCHANGED <<config, present, ops>>
  BY DEF Gone
<1>2. /\ proc' \in [Procs -> Process]
      /\ proc'[p] = NoProc /\ \A q \in Procs : q # p => proc'[q] = proc[q]
  BY <1>1, Processes DEF World
<1>3. DevicesKept /\ links' \subseteq links
  <2>1. CASE proc[p].ports
    BY <1>1, <2>1 DEF DevicesKept
  <2>2. CASE ~proc[p].ports
    BY <1>1, <2>2 DEF DevicesKept
  <2> QED
    BY <2>1, <2>2
<1>4. Wet = {} => links' = links
  BY <1>1 DEF Wet
<1>5. ASSUME NEW l \in links'
      PROVE  Exists(l[1])' /\ Exists(l[2])'
  <2>1. Exists(l[1]) /\ Exists(l[2])
    BY <1>3, <1>5 DEF World
  <2>2. CASE proc[p].ports
    <3>1. l[1] \notin GxPorts /\ l[2] \notin GxPorts
      BY <1>1, <1>5, <2>2
    <3> QED
      BY <1>1, <2>1, <3>1, ExistsStill
  <2>3. CASE ~proc[p].ports
    <3>1. WithPorts' = WithPorts
      BY <1>2, <2>3, Processes DEF WithPorts
    <3> QED
      BY <1>1, <2>1, <3>1, ExistsStill
  <2> QED
    BY <2>2, <2>3
<1>6. WithPorts' \subseteq Running'
  BY <1>2, Processes DEF World, WithPorts, Running
<1>7. abandoned' \subseteq {q \in Procs : proc'[q].state = "dying"}
  BY <1>1, <1>2 DEF World
<1> QED
  BY <1>1, <1>2, <1>3, <1>4, <1>5, <1>6, <1>7 DEF World

\* Guitarix exits: whoever gave it up is told that it died, and whoever sent it a
\* request that it was not heard.  What it has heard, it saves.
LEMMA ExitKeeps ==
  ASSUME World, NEW p \in Procs, Exit(p)
  PROVE  World' /\ \E what \in SUBSET Troubles : Harmless(what)
<1> DEFINE what == (IF p \in abandoned THEN {"died"} ELSE {})
                     \cup (IF proc[p].inbox # <<>> THEN {"unheard"} ELSE {})
<1>1. /\ proc[p].state = "dying" /\ saved' = proc[p].tone /\ Gone(p, what)
      /\ events' = events
  BY DEF Exit
<1>2. what \in SUBSET Troubles
  BY DEF Troubles
<1>3. saved' \in Tone /\ events' \in 0 .. MaxEvents
  BY <1>1 DEF World, Process
<1>4. Befalls(what)
  BY <1>1 DEF Gone, Befalls
<1>5. what \cap {"died", "unheard"} = {} => p \notin abandoned /\ proc[p].inbox = <<>>
  OBVIOUS
<1> HIDE DEF what
<1>6. /\ World' /\ proc'[p] = NoProc /\ \A q \in Procs : q # p => proc'[q] = proc[q]
      /\ DevicesKept /\ links' \subseteq links /\ (Wet = {} => links' = links)
      /\ abandoned' = abandoned \ {p}
  BY <1>1, <1>3, GoneKeeps
<1>7. ASSUME p \notin abandoned, proc[p].inbox = <<>>, NEW tone
      PROVE  ToneKept(tone)
  <2>1. NoWrapper => NoWrapper'
    BY <1>6, Processes DEF NoWrapper
  <2>2. ~NoneLeft /\ ~Kept(tone) /\ ~Restarted(tone)
    BY <1>1 DEF NoneLeft, Kept, Restarted
  <2>3. \A q \in Procs : Alone(q) => q = p
    BY <1>1 DEF Alone
  <2>4. /\ ~HalfWay(tone) /\ ~AllToHear(tone, "running")
        /\ ~Fresh({"running"}) /\ ~Fresh({"wrapper", "running"})
    BY <1>1, <2>3 DEF HalfWay, AllToHear, Fresh
  <2>5. AllToHear(tone, "dying") => Kept(tone)'
    <3>1. SUFFICES ASSUME AllToHear(tone, "dying")
                   PROVE  Kept(tone)'
      OBVIOUS
    <3>2. Alone(p) /\ proc[p].tone = Whole(tone)
      <4>1. <<[method |-> "set", tone |-> tone]>> # <<>>
        OBVIOUS
      <4>2. <<[method |-> "setpreset", tone |-> tone], [method |-> "set", tone |-> tone]>> # <<>>
        OBVIOUS
      <4>3. ~Will(p, <<"set">>, tone) /\ ~Will(p, <<"setpreset", "set">>, tone)
        BY <1>7, <4>1, <4>2, Inboxes
      <4>4. Alone(p) /\ Heard(p, Whole(tone))
        BY <2>3, <3>1, <4>3 DEF AllToHear
      <4>5. proc[p].tone = Whole(tone)
        BY <4>4, Zenon DEF Heard
      <4> QED
        BY <4>4, <4>5
    <3>3. NoneLeft'
      BY <1>6, <3>2, Processes DEF NoneLeft, Alone
    <3> QED
      BY <1>1, <3>2, <3>3 DEF Kept, Whole
  <2> QED
    BY <2>1, <2>2, <2>4, <2>5 DEF ToneKept
<1>8. GuitarixKept
  BY <1>1 DEF GuitarixKept
<1>9. \A q \in Procs : proc'[q].state = "dying" /\ q \notin abandoned'
        => proc[q].state = "dying" /\ q \notin abandoned
  BY <1>6, Processes
<1>10. Harmless(what)
  BY <1>1, <1>4, <1>5, <1>6, <1>7, <1>8, <1>9 DEF Harmless
<1> QED
  BY <1>2, <1>6, <1>10

\* Guitarix crashes: every operation under way is told.
LEMMA CrashKeeps ==
  ASSUME World, NEW p \in Procs, Crash(p)
  PROVE  World' /\ Harmless({"died"})
<1>1. /\ proc[p].state # "none" /\ events' = events + 1 /\ events < MaxEvents
      /\ Gone(p, {"died"}) /\ saved' = saved
  BY DEF Crash
<1>2. saved' \in Tone /\ events' \in 0 .. MaxEvents
  BY <1>1, PipeWireAssumption DEF World
<1>3. Befalls({"died"})
  BY <1>1 DEF Gone, Befalls
<1>4. /\ World' /\ proc'[p] = NoProc /\ \A q \in Procs : q # p => proc'[q] = proc[q]
      /\ DevicesKept /\ links' \subseteq links /\ (Wet = {} => links' = links)
      /\ abandoned' = abandoned \ {p}
  BY <1>1, <1>2, GoneKeeps
<1>5. \A q \in Procs : proc'[q].state = "dying" /\ q \notin abandoned'
        => proc[q].state = "dying" /\ q \notin abandoned
  BY <1>4, Processes
<1> QED
  BY <1>3, <1>4, <1>5 DEF Harmless

\* A device is unplugged, and its links go.
LEMMA UnplugKeeps ==
  ASSUME World, NEW d \in Devices, Unplug(d)
  PROVE  World' /\ Harmless({"unplugged"})
<1>1. /\ present' = present \ {d} /\ events' = events + 1 /\ events < MaxEvents
      /\ links' = {l \in links : {l[1], l[2]} \cap PortsOf(d) = {}}
      /\ Befalls({"unplugged"})
      /\ UNCHANGED <<config, proc, saved, abandoned, ops>>
  BY DEF Unplug, Befalls
<1>2. ASSUME NEW l \in links', NEW port \in {l[1], l[2]}
      PROVE  Exists(port)'
  <2>1. Exists(port) /\ port \notin PortsOf(d)
    BY <1>1, <1>2 DEF World
  <2> QED
    BY <1>1, <2>1 DEF Exists, WithPorts
<1>3. events' \in 0 .. MaxEvents
  BY <1>1, PipeWireAssumption DEF World
<1>4. World'
  BY <1>1, <1>2, <1>3 DEF World, WithPorts, Running
<1>5. \A tone : ToneKept(tone)
  BY <1>1, SameMinds
<1> QED
  BY <1>1, <1>4, <1>5 DEF Harmless

\* A device is plugged in.
LEMMA PlugKeeps ==
  ASSUME World, NEW d \in Devices, Plug(d)
  PROVE  World' /\ Harmless({"unplugged"})
<1>1. /\ present' = present \cup {d} /\ Befalls({"unplugged"})
      /\ UNCHANGED <<config, proc, saved, links, abandoned, ops, events>>
  BY DEF Plug, Befalls, bounds
<1>2. \A l \in links : Exists(l[1])' /\ Exists(l[2])'
  BY <1>1 DEF World, Exists, WithPorts
<1>3. World'
  BY <1>1, <1>2 DEF World, WithPorts, Running
<1>4. \A tone : ToneKept(tone)
  BY <1>1, SameMinds
<1> QED
  BY <1>1, <1>3, <1>4 DEF Harmless

\* A saved configuration does not concern the operations, which have read theirs.
LEMMA PutConfigKeeps ==
  ASSUME World, NEW c \in Configs, PutConfig(c)
  PROVE  World' /\ Harmless({})
<1>1. /\ config' = c /\ events' = events + 1 /\ events < MaxEvents
      /\ UNCHANGED <<present, proc, saved, links, req, abandoned, last, ops>>
  BY DEF PutConfig
<1>2. events' \in 0 .. MaxEvents
  BY <1>1, PipeWireAssumption DEF World
<1>3. World'
  BY <1>1, <1>2 DEF World, WithPorts, Running, Exists
<1>4. \A tone : ToneKept(tone)
  BY <1>1, SameMinds
<1> QED
  BY <1>1, <1>3, <1>4 DEF Harmless, DevicesKept, GuitarixKept, WithPorts, Befalls

\* So no step of the environment takes anything away from the invariant.
LEMMA EnvironmentKeeps ==
  ASSUME RoutesInv, Environment
  PROVE  RoutesInv'
<1>1. World
  BY Types DEF RoutesInv
<1>2. World' /\ \E what \in SUBSET Troubles : Harmless(what)
  <2>1. {} \in SUBSET Troubles /\ {"died"} \in SUBSET Troubles
        /\ {"unplugged"} \in SUBSET Troubles
    BY DEF Troubles
  <2>2. ASSUME NEW p \in Procs, Launch(p) \/ ExposePorts(p) \/ Handle(p) \/ Exit(p) \/ Crash(p)
        PROVE  World' /\ \E what \in SUBSET Troubles : Harmless(what)
    BY <1>1, <2>1, <2>2, LaunchKeeps, ExposePortsKeeps, HandleKeeps, ExitKeeps, CrashKeeps
  <2>3. ASSUME NEW d \in Devices, Unplug(d) \/ Plug(d)
        PROVE  World' /\ \E what \in SUBSET Troubles : Harmless(what)
    BY <1>1, <2>1, <2>3, UnplugKeeps, PlugKeeps
  <2>4. ASSUME NEW c \in Configs, PutConfig(c)
        PROVE  World' /\ \E what \in SUBSET Troubles : Harmless(what)
    BY <1>1, <2>1, <2>4, PutConfigKeeps
  <2> QED
    BY <2>2, <2>3, <2>4 DEF Environment
<1> QED
  BY <1>2, HarmlessKeeps

-----------------------------------------------------------------------------
(* Threads.                                                                *)

\* Which operations take which steps.
LEMMA Belongs ==
  ASSUME NEW r \in Operation, OnPlan(r), NEW x, Ready(r, x)
  PROVE  /\ r.op \in {"direct", "amp", "disconnect", "tone"}
         /\ x = "validate" => r.op # "disconnect"
         /\ x \in {"stop", "await_stop"} => r.op \in {"direct", "disconnect", "tone"}
         /\ x = "link_direct" => r.op = "direct"
         /\ x \in {"start", "spawn", "wait_ports", "wire_amp"} => r.op \in {"amp", "tone"}
         /\ x \in {"start_rpc", "spawn_rpc", "wait_rpc", "setpreset", "set"} => r.op = "tone"
         /\ x \in {"read_links", "read_engine"} => r.op \in {"direct", "amp", "disconnect"}
<1>1. r.op \in {"direct", "amp", "disconnect", "tone"}
  BY HasOperation DEF Ready
<1>2. CASE r.op = "direct"
  BY <1>2, DirectOrder
<1>3. CASE r.op = "amp"
  BY <1>3, AmpOrder
<1>4. CASE r.op = "disconnect"
  BY <1>4, DisconnectOrder
<1>5. CASE r.op = "tone"
  BY <1>5, ToneOrder
<1> QED
  BY <1>1, <1>2, <1>3, <1>4, <1>5

\* The direct links are one or two and Guitarix takes four, all of them pairs.
LEMMA Pairs ==
  ASSUME NEW c
  PROVE  /\ Len(DirectLinks(c)) \in {1, 2} /\ Len(AmpLinks(c)) = 4
         /\ \A i \in 1 .. Len(DirectLinks(c)) :
              DirectLinks(c)[i] = <<DirectLinks(c)[i][1], DirectLinks(c)[i][2]>>
         /\ \A i \in 1 .. 4 : /\ AmpLinks(c)[i] = <<AmpLinks(c)[i][1], AmpLinks(c)[i][2]>>
                           /\ {AmpLinks(c)[i][1], AmpLinks(c)[i][2]} \cap GxPorts # {}
<1> DEFINE lr == PickStereo(c.output)
<1>1. /\ Len(DirectLinks(c)) \in {1, 2}
      /\ \A i \in 1 .. Len(DirectLinks(c)) :
           DirectLinks(c)[i] = <<DirectLinks(c)[i][1], DirectLinks(c)[i][2]>>
  <2>1. CASE lr[1] = lr[2]
    <3>1. DirectLinks(c) = <<<<c.source, lr[1]>>>>
      BY <2>1 DEF DirectLinks
    <3> HIDE DEF lr
    <3>2. Len(DirectLinks(c)) = 1 /\ DirectLinks(c)[1] = <<c.source, lr[1]>>
      BY <3>1
    <3> QED
      BY <3>2
  <2>2. CASE lr[1] # lr[2]
    <3>1. DirectLinks(c) = <<<<c.source, lr[1]>>, <<c.source, lr[2]>>>>
      BY <2>2 DEF DirectLinks
    <3> HIDE DEF lr
    <3>2. /\ Len(DirectLinks(c)) = 2
          /\ DirectLinks(c)[1] = <<c.source, lr[1]>> /\ DirectLinks(c)[2] = <<c.source, lr[2]>>
      BY <3>1
    <3>3. \A i \in 1 .. 2 : i = 1 \/ i = 2
      OBVIOUS
    <3> QED
      BY <3>2, <3>3
  <2> QED
    BY <2>1, <2>2
<1>2. AmpLinks(c) = << <<c.source, "amp_in">>, <<"amp_out", "fx_in">>,
                       <<"fx_out_0", lr[1]>>, <<"fx_out_1", lr[2]>> >>
  BY DEF AmpLinks
<1> HIDE DEF lr
<1>3. /\ Len(AmpLinks(c)) = 4
      /\ AmpLinks(c)[1] = <<c.source, "amp_in">> /\ AmpLinks(c)[2] = <<"amp_out", "fx_in">>
      /\ AmpLinks(c)[3] = <<"fx_out_0", lr[1]>> /\ AmpLinks(c)[4] = <<"fx_out_1", lr[2]>>
  BY <1>2
<1>4. ASSUME NEW i \in 1 .. 4
      PROVE  /\ AmpLinks(c)[i] = <<AmpLinks(c)[i][1], AmpLinks(c)[i][2]>>
             /\ {AmpLinks(c)[i][1], AmpLinks(c)[i][2]} \cap GxPorts # {}
  <2>1. {"amp_in", "amp_out", "fx_out_0", "fx_out_1"} \subseteq GxPorts
    BY DEF GxPorts
  <2>2. CASE i = 1
    BY <1>3, <2>1, <2>2
  <2>3. CASE i = 2
    BY <1>3, <2>1, <2>3
  <2>4. CASE i = 3
    BY <1>3, <2>1, <2>4
  <2>5. CASE i = 4
    BY <1>3, <2>1, <2>5
  <2> QED
    BY <2>2, <2>3, <2>4, <2>5
<1> QED
  BY <1>1, <1>3, <1>4

\* With no link made yet, there is one to be made.
LEMMA SomeLinks ==
  ASSUME NEW c
  PROVE  0 < Len(DirectLinks(c)) /\ 0 < Len(AmpLinks(c))
<1>1. Len(DirectLinks(c)) \in {1, 2} /\ Len(AmpLinks(c)) = 4
  BY Pairs
<1> QED
  BY <1>1

\* Who has made no link has not made too many.
LEMMA NothingMade ==
  ASSUME NEW r, r.made = 0
  PROVE  MadeInv(r)
BY SomeLinks DEF MadeInv

\* Being on the plan is a matter of the operation and of what is left.
LEMMA SamePlan ==
  ASSUME NEW r, NEW s, OnPlan(r), r.op # "none", s.op = r.op, s.plan = r.plan
  PROVE  OnPlan(s)
BY DEF OnPlan

\* The operation of t becomes s, or has ended with s.
Becomes(t, s) ==
  IF s.plan # <<>> THEN req' = [req EXCEPT ![t] = s] /\ last' = last
  ELSE /\ req' = [req EXCEPT ![t] = IdleReq]
       /\ last' = IF "overlap" \in s.trouble THEN last ELSE s

\* s is r when its next step is over.
After(r, s) ==
  /\ s.op = r.op /\ s.tone = r.tone /\ s.config = r.config /\ s.seen = r.seen
  /\ s.route = r.route /\ s.trouble = r.trouble /\ s.made = 0 /\ s.plan = Tail(r.plan)

\* Whoever advances has his step behind him and is otherwise where he was.
LEMMA Advanced ==
  ASSUME NEW t, NEW r \in Operation, OnPlan(r), r.plan # <<>>, Advance(t, r)
  PROVE  \E s \in Operation :
           /\ After(r, s) /\ Becomes(t, s) /\ OnPlan(s) /\ MadeInv(s)
           /\ \A x : x # Head(r.plan) => (Done(s, x) <=> Done(r, x))
<1> DEFINE s == [r EXCEPT !.plan = Tail(@), !.made = 0]
<1>1. s \in Operation /\ After(r, s)
  <2>1. Tail(r.plan) \in Seq(Steps)
    BY HasOperation, Rest
  <2> QED
    BY <2>1 DEF Operation, After
<1>2. Becomes(t, s)
  BY <1>1 DEF Advance, Becomes, After
<1> HIDE DEF s
<1>3. /\ OnPlan(s)
      /\ \A x : x # Head(r.plan) => (Done(s, x) <=> Done(r, x))
  BY <1>1, MovesOn DEF After
<1>4. MadeInv(s)
  <2>1. s.made = 0
    BY <1>1 DEF After
  <2> QED
    BY <2>1, NothingMade
<1> QED
  BY <1>1, <1>2, <1>3, <1>4

\* The next round of a loop.
LEMMA Looped ==
  ASSUME NEW t, NEW r \in Operation, r = req[t], OnPlan(r), r.plan # <<>>,
         req' = [req EXCEPT ![t].made = @ + 1], last' = last
  PROVE  \E s \in Operation :
           /\ Follows(r, s) /\ Becomes(t, s) /\ OnPlan(s) /\ s.trouble = r.trouble
           /\ s.plan = r.plan /\ s.made = r.made + 1 /\ s.seen = r.seen /\ s.route = r.route
<1> DEFINE s == [r EXCEPT !.made = @ + 1]
<1>1. /\ s \in Operation /\ Follows(r, s) /\ s.trouble = r.trouble
      /\ s.plan = r.plan /\ s.made = r.made + 1 /\ s.seen = r.seen /\ s.route = r.route
  BY DEF Operation, Follows
<1>2. Becomes(t, s)
  BY <1>1 DEF Becomes
<1> HIDE DEF s
<1>3. OnPlan(s)
  <2>1. r.op # "none"
    BY HasOperation
  <2>2. s.op = r.op /\ s.plan = r.plan
    BY <1>1 DEF Follows
  <2> QED
    BY <2>1, <2>2, SamePlan
<1> QED
  BY <1>1, <1>2, <1>3

\* Another step instead.
LEMMA Replaced ==
  ASSUME NEW t, NEW r \in Operation, r = req[t], OnPlan(r), r.plan # <<>>,
         Head(r.plan) \in {"stop", "start", "start_rpc"},
         NEW e \in Steps, e \in InPlaceOf(Head(r.plan)), e # Head(r.plan), Instead(t, e)
  PROVE  \E s \in Operation :
           /\ s.trouble = r.trouble
           /\ Follows(r, s) /\ s.made = r.made /\ s.seen = r.seen /\ s.route = r.route
           /\ Becomes(t, s) /\ OnPlan(s) /\ MadeInv(s) /\ Ready(s, e)
           /\ \A x : x # Head(r.plan) /\ x # e => (Done(s, x) <=> Done(r, x))
<1> DEFINE s == [r EXCEPT !.plan = <<e>> \o Tail(@)]
<1>1. r.plan \in Seq(Steps)
  BY HasOperation
<1>2. <<e>> \o Tail(r.plan) \in Seq(Steps)
  BY <1>1, NewHead
<1>3. /\ s \in Operation /\ s.plan = <<e>> \o Tail(r.plan) /\ s.op = r.op
      /\ s.trouble = r.trouble /\ s.made = r.made /\ s.seen = r.seen /\ s.route = r.route
      /\ Follows(r, s)
  BY <1>2 DEF Operation, Follows
<1>4. /\ OnPlan(s) /\ Ready(s, e)
      /\ \A x : x # Head(r.plan) /\ x # e => (Done(s, x) <=> Done(r, x))
  <2> HIDE DEF s
  <2> QED
    BY <1>3, Detours
<1>5. Becomes(t, s)
  BY <1>3, <1>4 DEF Instead, Becomes, Ready
<1> HIDE DEF s
<1>6. MadeInv(s)
  <2>1. e \in {"await_stop", "spawn", "spawn_rpc", "stop", "start", "start_rpc"}
    BY DEF InPlaceOf
  <2> QED
    BY <1>4, <2>1 DEF MadeInv, Ready
<1> QED
  BY <1>3, <1>4, <1>5, <1>6

\* What the invariant says of an operation whose next step is x.
AtStep(t, r, x) ==
  /\ r = req[t] /\ Ready(r, x) /\ r.plan # <<>> /\ Head(r.plan) = x
  /\ OnPlan(r) /\ MadeInv(r) /\ r.config \in Config
  /\ DryInv(r) /\ StopInv(r) /\ AmpInv(r) /\ StatusInv(r) /\ ToneInv(r)

\* A thread at a step has an operation of which the invariant speaks.
LEMMA Stepping ==
  ASSUME RoutesInv, NEW t \in Threads, NEW x, At(t, x)
  PROVE  /\ \E r \in Operation : AtStep(t, r, x)
         /\ World /\ present \subseteq Devices /\ proc \in [Procs -> Process]
<1>1. /\ World /\ Requests /\ PlanInv /\ OperationInv(req[t])
  BY Types DEF RoutesInv
<1>2. req[t] \in Operation /\ OnPlan(req[t]) /\ MadeInv(req[t])
  BY <1>1 DEF Requests, PlanInv
<1>3. PICK r \in Operation : r = req[t]
  BY <1>2
<1>4. r.config \in Config
  BY DEF Operation
<1>5. AtStep(t, r, x)
  BY <1>1, <1>2, <1>3, <1>4 DEF AtStep, At, Ready, OperationInv
<1> QED
  BY <1>1, <1>5 DEF World

\* A step of t keeps the invariant if what it makes of its operation does: the
\* others that are under way overlap it.
LEMMA StepKeeps ==
  ASSUME RoutesInv, World', NEW t \in Threads, NEW r \in Operation, r = req[t], r.plan # <<>>,
         NEW s \in Operation, Becomes(t, s), OnPlan(s), MadeInv(s), OperationInv(s)',
         "overlap" \in r.trouble => "overlap" \in s.trouble \/ s = IdleReq,
         \/ Ready(s, "await_stop")
         \/ \A p \in Procs : proc'[p].state = "dying" => p \in abandoned'
         \/ /\ ~Ready(r, "await_stop")
            /\ \A p \in Procs : proc'[p].state = "dying" /\ p \notin abandoned'
                 => proc[p].state = "dying" /\ p \notin abandoned
  PROVE  RoutesInv'
<1>1. /\ Requests /\ PlanInv /\ DyingInv /\ t \in Busy
      /\ last = IdleReq
  BY Types DEF RoutesInv, PlanInv, Busy
<1>2. /\ req'[t] = IF s.plan # <<>> THEN s ELSE IdleReq
      /\ \A u \in Threads : u # t => req'[u] = req[u]
      /\ req' \in [Threads -> Operation]
  BY <1>1, Idle DEF Requests, Becomes
<1>3. last' = IF s.plan # <<>> \/ "overlap" \in s.trouble THEN IdleReq ELSE s
  BY <1>1 DEF Becomes
<1>4. Requests'
  BY <1>1, <1>2, <1>3, Idle DEF Requests, Busy
<1>5. PlanInv'
  <2>1. \A u \in Threads : OnPlan(req'[u]) /\ MadeInv(req'[u])
    BY <1>1, <1>2, Idle DEF PlanInv
  <2>2. OnPlan(last') /\ last'.plan = <<>>
    BY <1>3, Idle
  <2>3. ASSUME NEW u \in Threads, NEW v \in Threads, u # v,
               req'[u].plan # <<>>, req'[v].plan # <<>>
        PROVE  "overlap" \in req'[u].trouble
    <3>1. CASE u # t /\ v # t
      BY <1>1, <1>2, <2>3, <3>1 DEF PlanInv, Busy
    <3>2. CASE u # t /\ v = t
      BY <1>1, <1>2, <2>3, <3>2 DEF PlanInv, Busy
    <3>3. CASE u = t
      <4>1. "overlap" \in r.trouble
        BY <1>1, <1>2, <2>3, <3>3 DEF PlanInv, Busy
      <4>2. req'[u] = s /\ s # IdleReq
        BY <1>2, <2>3, <3>3, Idle
      <4> QED
        BY <4>1, <4>2
    <3> QED
      BY <3>1, <3>2, <3>3
  <2>4. ASSUME NEW v \in Threads, req'[v].plan # <<>>
        PROVE  last' = IdleReq
    <3>1. CASE v = t
      BY <1>2, <1>3, <2>4, <3>1, Idle
    <3>2. CASE v # t
      <4>1. "overlap" \in r.trouble
        BY <1>1, <1>2, <2>4, <3>2 DEF PlanInv, Busy
      <4> QED
        BY <1>3, <4>1
    <3> QED
      BY <3>1, <3>2
  <2> QED
    BY <2>1, <2>2, <2>3, <2>4 DEF PlanInv, Busy
<1>6. ASSUME NEW u \in Threads
      PROVE  OperationInv(req[u])'
  <2>1. CASE u = t /\ s.plan # <<>>
    BY <1>2, <2>1
  <2>2. CASE ~(u = t /\ s.plan # <<>>)
    <3>1. PICK v : v = req'[u]
      OBVIOUS
    <3>2. v.op = "none" \/ "overlap" \in v.trouble
      <4>1. CASE u = t
        BY <1>2, <2>2, <3>1, <4>1, Idle
      <4>2. CASE u # t /\ u \in Busy
        BY <1>1, <1>2, <3>1, <4>2 DEF PlanInv
      <4>3. CASE u # t /\ u \notin Busy
        BY <1>1, <1>2, <3>1, <4>3, Idle DEF Requests
      <4> QED
        BY <4>1, <4>2, <4>3
    <3>3. OperationInv(v)'
      BY <3>2, Overlapped
    <3> QED
      BY <3>1, <3>3
  <2> QED
    BY <2>1, <2>2
<1>7. OperationInv(last)'
  <2>1. CASE s.plan # <<>> \/ "overlap" \in s.trouble
    <3>1. PICK v : v = IdleReq
      OBVIOUS
    <3>2. OperationInv(v)' /\ v = last'
      BY <1>3, <2>1, <3>1, Idle, Overlapped
    <3> QED
      BY <3>2
  <2>2. CASE ~(s.plan # <<>> \/ "overlap" \in s.trouble)
    BY <1>3, <2>2
  <2> QED
    BY <2>1, <2>2
<1>8. DyingInv'
  <2>1. SUFFICES ASSUME \A u \in Threads : ~At(u, "await_stop")'
                 PROVE  \A p \in Procs : proc'[p].state = "dying" => p \in abandoned'
    BY DEF DyingInv
  <2>2. ~Ready(s, "await_stop")
    BY <1>2, <2>1 DEF At, Ready
  <2>3. ASSUME ~Ready(r, "await_stop"), NEW u \in Threads
        PROVE  ~At(u, "await_stop")
    <3>1. CASE u = t
      BY <2>3, <3>1 DEF At, Ready
    <3>2. CASE u # t
      BY <1>2, <2>1, <3>2 DEF At
    <3> QED
      BY <3>1, <3>2
  <2> QED
    BY <1>1, <2>2, <2>3 DEF DyingInv
<1> QED
  BY <1>4, <1>5, <1>6, <1>7, <1>8, Types DEF RoutesInv

\* The same if it raises an exception.
LEMMA RaiseKeeps ==
  ASSUME RoutesInv, World', NEW t \in Threads, NEW x, At(t, x), x # "await_stop", Raise(t),
         UNCHANGED <<proc, abandoned>>
  PROVE  RoutesInv'
<1>1. PICK r \in Operation : AtStep(t, r, x)
  BY Stepping
<1>2. PICK s : s = IdleReq
  OBVIOUS
<1>3. last = IdleReq
  <2>1. t \in Busy
    BY DEF At, Busy
  <2> QED
    BY <2>1 DEF RoutesInv, PlanInv
<1>4. /\ s \in Operation /\ OnPlan(s) /\ MadeInv(s) /\ OperationInv(s)'
  BY <1>2, Idle, Overlapped
<1>5. Becomes(t, s)
  BY <1>2, <1>3, Idle DEF Raise, Becomes
<1>6. r = req[t] /\ r.plan # <<>> /\ ~Ready(r, "await_stop")
  BY <1>1 DEF AtStep, Ready
<1> QED
  BY <1>2, <1>4, <1>5, <1>6, StepKeeps

-----------------------------------------------------------------------------
(* Steps that have nothing to do with a part of the invariant: s is r after the *)
(* step x, or a round of it, or with another step in its place.            *)

Passes(r, x, s) ==
  /\ Follows(r, s) /\ OnPlan(s)
  /\ \A y : y # x /\ y \notin {"await_stop", "spawn", "spawn_rpc"} => (Done(s, y) <=> Done(r, y))
  /\ s.made = 0 \/ s.made = r.made \/ x \in {"unlink", "link_direct", "wire_amp"}

\* A step that makes and removes no dry links keeps DryInv ...
LEMMA DryQuiet ==
  ASSUME present \subseteq Devices, NEW r \in Operation, NEW s \in Operation, OnPlan(r),
         NEW x, Ready(r, x), x \notin {"validate", "unlink", "link_direct"},
         DryInv(r), Passes(r, x, s), DevicesKept
  PROVE  DryInv(s)'
<1>1. \A y \in {"validate", "unlink", "link_direct"} : Done(s, y) <=> Done(r, y)
  BY DEF Passes
<1>2. Done(r, "unlink") /\ r.op = "direct" => Done(r, "link_direct")
  BY DirectOrder
<1>3. x = "wire_amp" => Done(r, "unlink") /\ r.op # "direct"
  BY Belongs, AmpOrder, ToneOrder
<1> QED
  BY <1>1, <1>2, <1>3, DryStays DEF Passes

\* ... one that does not stop Guitarix keeps StopInv ...
LEMMA StopQuiet ==
  ASSUME NEW r \in Operation, NEW s \in Operation, OnPlan(r),
         NEW x, Ready(r, x), x \notin {"stop", "await_stop"},
         StopInv(r), Passes(r, x, s),
         s.op \in {"direct", "disconnect"} /\ Clean(s, {"overlap", "gave_up", "unplugged"}) =>
           \A l \in links' : {l[1], l[2]} \cap GxPorts # {} => l \in links
  PROVE  StopInv(s)'
<1>1. /\ Follows(r, s) /\ s.op = r.op
      /\ Done(s, "stop") <=> Done(r, "stop")
  BY DEF Passes, Follows
<1>2. r.op \in {"direct", "disconnect"} => Done(r, "await_stop")
  BY DirectOrder, DisconnectOrder
<1> QED
  BY <1>1, <1>2, StopStays

\* ... one that neither starts nor wires Guitarix keeps AmpInv, if it lets it be ...
LEMMA AmpQuiet ==
  ASSUME NEW r \in Operation, NEW s \in Operation, OnPlan(r),
         NEW x, Ready(r, x), x \notin {"start", "wait_ports", "wire_amp"},
         AmpInv(r), Passes(r, x, s),
         GuitarixKept \/ x \in {"validate", "unlink", "stop", "await_stop"}
  PROVE  AmpInv(s)'
<1>1. /\ Follows(r, s) /\ s.op = r.op
      /\ s.made = r.made \/ s.made = 0 \/ x \in {"unlink", "link_direct"}
      /\ \A y \in {"start", "wait_ports", "wire_amp"} : Done(s, y) <=> Done(r, y)
  BY DEF Passes, Follows
<1>2. x \in {"validate", "unlink", "stop", "await_stop"} /\ r.op \in {"amp", "tone"}
        => ~Done(r, "start")
  BY AmpOrder, ToneOrder
<1>3. x = "link_direct" => r.op = "direct"
  BY Belongs
<1> QED
  BY <1>1, <1>2, <1>3, AmpStays

\* ... and one that does not belong to a status keeps StatusInv.
LEMMA StatusQuiet ==
  ASSUME NEW r \in Operation, NEW s \in Operation, OnPlan(r),
         NEW x, Ready(r, x), x \notin {"read_links", "read_engine"},
         StatusInv(r), Passes(r, x, s), s.seen = r.seen, s.route = r.route
  PROVE  StatusInv(s)'
<1>1. /\ Follows(r, s) /\ s.op = r.op
      /\ \A y \in {"read_links", "read_engine"} : Done(s, y) <=> Done(r, y)
  BY DEF Passes, Follows
<1>2. r.op \in {"direct", "amp", "disconnect"} => ~Done(r, "read_links")
  BY DirectOrder, AmpOrder, DisconnectOrder
<1> QED
  BY <1>1, <1>2, StatusStays DEF Reports

\* Only a load_tone has to do with the tone.
LEMMA ToneQuiet ==
  ASSUME NEW s, s.op # "tone"
  PROVE  ToneInv(s)'
BY DEF ToneInv

\* They are counted from one.
LEMMA UnlinkedIndex ==
  ASSUME NEW c \in Config, present \subseteq Devices
  PROVE  /\ Len(Unlinked(c)) \in Nat /\ DOMAIN Unlinked(c) = 1 .. Len(Unlinked(c))
         /\ Unlinked(c) = <<>> <=> ~(c.source # Unset /\ c.output \in present)
<1>1. CASE ~(c.source # Unset /\ c.output \in present)
  <2>1. Unlinked(c) = <<>>
    BY <1>1 DEF Unlinked
  <2> QED
    BY <1>1, <2>1
<1>2. CASE c.source # Unset /\ c.output \in present
  <2>1. c.output \in Outputs
    BY <1>2, ConfigPorts, PipeWireAssumption
  <2>2. Unlinked(c) = [i \in 1 .. Len(Ports[c.output]) |-> <<c.source, Ports[c.output][i]>>]
    BY <1>2, <2>1, OutputPorts DEF Unlinked
  <2>3. Len(Ports[c.output]) \in Nat \ {0}
    BY <2>1, OutputPorts
  <2>4. \A n \in Nat \ {0} : \A f :
          DOMAIN f = 1 .. n /\ f \in Seq({f[i] : i \in 1 .. n}) => Len(f) = n /\ f # <<>>
    BY LenProperties, EmptySeq
  <2>5. Unlinked(c) \in Seq({Unlinked(c)[i] : i \in 1 .. Len(Ports[c.output])})
    <3>1. ASSUME NEW n \in Nat, NEW f, f = [i \in 1 .. n |-> f[i]]
          PROVE  f \in Seq({f[i] : i \in 1 .. n})
      <4>1. f \in [1 .. n -> {f[i] : i \in 1 .. n}]
        BY <3>1
      <4> QED
        BY <4>1, SeqDef
    <3>2. Unlinked(c) = [i \in 1 .. Len(Ports[c.output]) |-> Unlinked(c)[i]]
      BY <2>2
    <3> QED
      BY <2>3, <3>1, <3>2
  <2> QED
    BY <1>2, <2>2, <2>3, <2>4, <2>5
<1> QED
  BY <1>1, <1>2

-----------------------------------------------------------------------------
(* The steps, one by one.                                                  *)

\* A step that changes the operation only.
LEMMA Still ==
  ASSUME World, UNCHANGED <<external, links, abandoned, bounds>>
  PROVE  /\ World' /\ DevicesKept /\ GuitarixKept
         /\ UNCHANGED <<config, present, proc, saved, links, abandoned, ops, events>>
BY DEF World, DevicesKept, GuitarixKept, external, bounds, Exists, WithPorts, Running

\* One step over, another comes.
LEMMA NextStep ==
  ASSUME NEW s, NEW y, Ready(s, y)
  PROVE  s.plan # <<>> /\ \A z : Ready(s, z) <=> z = y
BY DEF Ready

\* To have a step behind one is to pass it.
LEMMA PassesAfter ==
  ASSUME NEW r, NEW s, After(r, s), OnPlan(s),
         \A y : y # Head(r.plan) => (Done(s, y) <=> Done(r, y))
  PROVE  Follows(r, s) /\ Passes(r, Head(r.plan), s)
BY DEF After, Follows, Passes

\* _validate_route: the devices are there, or the operation fails.
LEMMA ValidateKeeps ==
  ASSUME RoutesInv, NEW t \in Threads, Validate(t)
  PROVE  RoutesInv'
<1>1. At(t, "validate") /\ UNCHANGED <<external, links, abandoned, bounds>>
  BY DEF Validate
<1>2. PICK r \in Operation : AtStep(t, r, "validate")
  BY <1>1, Stepping
<1>3. /\ World' /\ DevicesKept /\ GuitarixKept
      /\ UNCHANGED <<config, present, proc, saved, links, abandoned, ops, events>>
      /\ present \subseteq Devices
  BY <1>1, Still, Stepping
<1>4. CASE Raise(t)
  BY <1>1, <1>3, <1>4, RaiseKeeps
<1>5. CASE {r.config.source, r.config.output} \subseteq present /\ Advance(t, r)
  <2>1. /\ r = req[t] /\ Ready(r, "validate") /\ r.plan # <<>> /\ Head(r.plan) = "validate"
        /\ OnPlan(r) /\ DryInv(r) /\ StopInv(r) /\ AmpInv(r) /\ StatusInv(r) /\ ToneInv(r)
    BY <1>2 DEF AtStep
  <2>2. PICK s \in Operation :
           /\ After(r, s) /\ Becomes(t, s) /\ OnPlan(s) /\ MadeInv(s)
           /\ \A y : y # Head(r.plan) => (Done(s, y) <=> Done(r, y))
    BY <1>5, <2>1, Advanced
  <2>3. Follows(r, s) /\ Passes(r, "validate", s)
    BY <2>1, <2>2, PassesAfter
  <2>4. /\ s.op = r.op /\ s.config = r.config /\ s.trouble = r.trouble
        /\ s.seen = r.seen /\ s.route = r.route /\ s.made = 0 /\ s.plan = Tail(r.plan)
    BY <2>2 DEF After
  <2>5. DryInv(s)'
    <3>1. ~Done(s, "unlink")
      <4>1. ~Done(r, "unlink")
        BY <2>1, Belongs, DirectOrder, AmpOrder, ToneOrder
      <4> QED
        BY <2>1, <2>2, <4>1
    <3>2. \A i \in DOMAIN Unlinked(s.config)' : ~(i <= 0)
      BY <1>3, UnlinkedIndex
    <3> QED
      BY <1>3, <1>5, <2>4, <3>1, <3>2 DEF DryInv
  <2>6. StopInv(s)'
    BY <1>3, <2>1, <2>3, StopQuiet
  <2>7. AmpInv(s)'
    BY <1>3, <2>1, <2>3, AmpQuiet
  <2>8. StatusInv(s)'
    BY <2>1, <2>3, <2>4, StatusQuiet
  <2>9. ToneInv(s)'
    <3>1. CASE s.op # "tone"
      BY <3>1, ToneQuiet
    <3>2. CASE s.op = "tone"
      <4>1. Ready(s, "unlink")
        BY <2>1, <2>4, <3>2, ToneNext
      <4>2. Clean(s, {"overlap", "gave_up", "abandoned", "died", "unheard", "wrapper"})
              => NoWrapper'
        BY <1>3, <2>1, <2>4, <3>2 DEF ToneInv, Clean, NoWrapper
      <4> QED
        BY <4>1, <4>2, NextStep DEF ToneInv
    <3> QED
      BY <3>1, <3>2
  <2>10. OperationInv(s)'
    BY <2>5, <2>6, <2>7, <2>8, <2>9 DEF OperationInv
  <2> QED
    BY <1>3, <2>1, <2>2, <2>4, <2>10, NextStep, StepKeeps
<1> QED
  BY <1>2, <1>4, <1>5 DEF Validate, AtStep

\* A step of t goes well for its operation.
LEMMA GoesOn ==
  ASSUME RoutesInv, World', NEW t \in Threads, NEW r \in Operation, NEW x, AtStep(t, r, x),
         NEW s \in Operation, Becomes(t, s), OnPlan(s), MadeInv(s), Follows(r, s),
         DryInv(s)', StopInv(s)', AmpInv(s)', StatusInv(s)', ToneInv(s)',
         x # "await_stop",
         \/ Ready(s, "await_stop")
         \/ \A p \in Procs : proc'[p].state = "dying" /\ p \notin abandoned'
              => proc[p].state = "dying" /\ p \notin abandoned
  PROVE  RoutesInv'
<1>1. r = req[t] /\ r.plan # <<>> /\ ~Ready(r, "await_stop")
  BY NextStep DEF AtStep
<1>2. OperationInv(s)'
  BY DEF OperationInv
<1>3. "overlap" \in r.trouble => "overlap" \in s.trouble
  BY DEF Follows
<1> QED
  BY <1>1, <1>2, <1>3, StepKeeps

\* No link of an unplugged output or of a guitar that is not there is left.
LEMMA DryEnds ==
  ASSUME World, NEW c \in Config, NEW l \in Dry(c)
  PROVE  /\ c.source # Unset /\ c.output \in present
         /\ \E i \in DOMAIN Unlinked(c) : Unlinked(c)[i] = l
<1>1. /\ l \in links /\ l[1] = c.source /\ l[2] \in Playback(c)
      /\ Exists(l[1]) /\ Exists(l[2]) /\ l = <<l[1], l[2]>>
  BY DEF Dry, World
<1>2. c.source # Unset
  <2>1. \A d \in present : Unset \notin PortsOf(d)
    BY PipeWireAssumption DEF World
  <2>2. Unset \notin GxPorts
    BY PipeWireAssumption
  <2> QED
    BY <1>1, <2>1, <2>2 DEF Exists
<1>3. c.output \in Outputs /\ Playback(c) = PortsOf(c.output)
  BY <1>1, ConfigPorts DEF Playback
<1>4. c.output \in present
  <2>1. l[2] \notin GxPorts
    BY <1>1, ConfigPorts
  <2>2. PICK d \in present : l[2] \in PortsOf(d)
    BY <1>1, <2>1 DEF Exists
  <2>3. d = c.output
    BY <1>1, <1>3, <2>2, PipeWireAssumption DEF World, Devices
  <2> QED
    BY <2>2, <2>3
<1>5. PICK i \in 1 .. Len(Ports[c.output]) : l[2] = Ports[c.output][i]
  BY <1>1, <1>3, OutputPorts
<1>6. i \in DOMAIN Unlinked(c) /\ Unlinked(c)[i] = l
  BY <1>1, <1>2, <1>3, <1>4, <1>5, OutputPorts DEF Unlinked
<1> QED
  BY <1>2, <1>4, <1>6

\* _unlink_direct removes the links one by one: those it is past are gone, and when it
\* is done there is no dry link left.
LEMMA UnlinkKeeps ==
  ASSUME RoutesInv, NEW t \in Threads, Unlink(t)
  PROVE  RoutesInv'
<1>1. At(t, "unlink") /\ UNCHANGED <<config, present, proc, saved, abandoned, ops, events>>
  BY DEF Unlink, external, bounds
<1>2. PICK r \in Operation : AtStep(t, r, "unlink")
  BY <1>1, Stepping
<1>3. World /\ present \subseteq Devices
  BY <1>1, Stepping
<1>0. PICK todo : todo = Unlinked(r.config)
  OBVIOUS
<1>4. /\ r = req[t] /\ Ready(r, "unlink") /\ r.plan # <<>> /\ Head(r.plan) = "unlink"
      /\ r.config \in Config /\ r.made \in Nat
      /\ OnPlan(r) /\ DryInv(r) /\ StopInv(r) /\ AmpInv(r) /\ StatusInv(r) /\ ToneInv(r)
  BY <1>2 DEF AtStep, Operation
<1>5. /\ links' = IF todo = <<>> THEN links ELSE links \ {todo[r.made + 1]}
      /\ Loop(t, todo)
  BY <1>0, <1>4 DEF Unlink
<1>6. /\ Len(todo) \in Nat /\ DOMAIN todo = 1 .. Len(todo) /\ Unlinked(r.config)' = todo
      /\ (todo = <<>> => Len(todo) = 0)
  BY <1>0, <1>1, <1>3, <1>4, UnlinkedIndex DEF Unlinked
<1>7. links' \subseteq links
  BY <1>5
<1>8. World'
  BY <1>1, <1>3, <1>7 DEF World, Exists, WithPorts, Running
<1>9. ~Done(r, "unlink")
  BY <1>4, Belongs, DirectOrder, AmpOrder, DisconnectOrder, ToneOrder
<1>10. \A i \in 1 .. Len(todo) : Clean(r, {"overlap", "unplugged"}) /\ i <= r.made + 1
         => todo[i] \notin links'
  <2>1. SUFFICES ASSUME NEW i \in 1 .. Len(todo), Clean(r, {"overlap", "unplugged"}),
                        i <= r.made + 1
                 PROVE  todo[i] \notin links'
    OBVIOUS
  <2>2. r.op # "none"
    BY <1>4, Belongs
  <2>3. CASE i <= r.made
    <3>1. todo[i] \notin links
      BY <1>0, <1>4, <1>6, <1>9, <2>1, <2>2, <2>3 DEF DryInv
    <3> QED
      BY <1>7, <3>1
  <2>4. CASE ~(i <= r.made)
    <3>1. i = r.made + 1 /\ todo # <<>>
      BY <1>4, <1>6, <2>1, <2>4
    <3> QED
      BY <1>5, <3>1
  <2> QED
    BY <2>3, <2>4
<1>11. CASE r.made + 1 < Len(todo)
  <2>0. req' = [req EXCEPT ![t].made = @ + 1] /\ last' = last
    BY <1>4, <1>5, <1>11 DEF Loop
  <2>1. PICK s \in Operation :
          /\ Follows(r, s) /\ Becomes(t, s) /\ OnPlan(s) /\ s.trouble = r.trouble
          /\ s.plan = r.plan /\ s.made = r.made + 1 /\ s.seen = r.seen /\ s.route = r.route
    BY <1>4, <2>0, Looped
  <2>2. /\ \A y : Done(s, y) <=> Done(r, y)
        /\ Passes(r, "unlink", s) /\ Ready(s, "unlink")
        /\ s.op = r.op /\ s.config = r.config /\ s.tone = r.tone
    BY <1>4, <2>1 DEF Done, Passes, Ready, Follows
  <2>3. MadeInv(s)
    BY <2>2, NextStep DEF MadeInv
  <2>4. DryInv(s)'
    <3>1. SUFFICES ASSUME s.op # "none", Clean(s, {"overlap", "unplugged"})
                   PROVE  DryInv(s)'
      BY DEF DryInv
    <3>2. Clean(r, {"overlap", "unplugged"})
      BY <2>1, <3>1 DEF Follows, Clean
    <3>3. s.op # "disconnect" /\ Done(s, "validate")
            => {s.config.source, s.config.output} \subseteq present'
      BY <1>1, <1>4, <2>2, <3>1, <3>2 DEF DryInv
    <3>4. \A i \in DOMAIN Unlinked(s.config)' :
            i <= s.made => Unlinked(s.config)'[i] \notin links'
      BY <1>6, <1>10, <2>1, <2>2, <3>2
    <3> QED
      BY <1>9, <2>2, <3>3, <3>4 DEF DryInv
  <2>5. StopInv(s)'
    BY <1>4, <1>7, <2>2, StopQuiet
  <2>6. AmpInv(s)'
    BY <1>4, <2>2, AmpQuiet
  <2>7. StatusInv(s)'
    BY <1>4, <2>1, <2>2, StatusQuiet
  <2>8. ToneInv(s)'
    <3>1. s.op = "tone" /\ Clean(s, {"overlap", "gave_up", "abandoned", "died", "unheard", "wrapper"})
            => NoWrapper'
      BY <1>1, <1>4, <2>1, <2>2 DEF ToneInv, Follows, Clean, NoWrapper
    <3> QED
      BY <2>2, <3>1, NextStep DEF ToneInv
  <2> QED
    BY <1>1, <1>2, <1>8, <2>1, <2>3, <2>4, <2>5, <2>6, <2>7, <2>8, GoesOn
<1>12. CASE ~(r.made + 1 < Len(todo))
  <2>0. Advance(t, r)
    BY <1>4, <1>5, <1>12 DEF Loop
  <2>1. PICK s \in Operation :
          /\ After(r, s) /\ Becomes(t, s) /\ OnPlan(s) /\ MadeInv(s)
          /\ \A x : x # Head(r.plan) => (Done(s, x) <=> Done(r, x))
    BY <1>4, <2>0, Advanced
  <2>2. Follows(r, s) /\ Passes(r, "unlink", s)
    BY <1>4, <2>1, PassesAfter
  <2>3. /\ s.op = r.op /\ s.config = r.config /\ s.trouble = r.trouble
        /\ s.seen = r.seen /\ s.route = r.route /\ s.made = 0 /\ s.plan = Tail(r.plan)
    BY <2>1 DEF After
  <2>4. DryInv(s)'
    <3>1. SUFFICES ASSUME s.op # "none", Clean(s, {"overlap", "unplugged"})
                   PROVE  DryInv(s)'
      BY DEF DryInv
    <3>2. Clean(r, {"overlap", "unplugged"})
      BY <2>3, <3>1 DEF Clean
    <3>3. s.op # "disconnect" /\ Done(s, "validate")
            => {s.config.source, s.config.output} \subseteq present'
      BY <1>1, <1>4, <2>1, <2>3, <3>1, <3>2 DEF DryInv
    <3>4. \A i \in DOMAIN Unlinked(s.config)' : ~(i <= s.made)
      BY <1>6, <2>3
    <3>5. Dry(s.config)' = {}
      <4>1. ASSUME NEW l \in Dry(s.config), l \in links'
            PROVE  FALSE
        <5>1. PICK i \in DOMAIN todo : todo[i] = l
          BY <1>0, <1>3, <1>4, <2>3, <4>1, DryEnds
        <5>2. i \in 1 .. Len(todo) /\ i <= r.made + 1
          BY <1>4, <1>6, <1>12, <5>1
        <5> QED
          BY <1>10, <3>2, <4>1, <5>1, <5>2
      <4> QED
        BY <1>7, <4>1 DEF Dry, Playback
    <3>6. DrySoFar(s) = {}
      <4>1. CASE s.op = "direct"
        <5>1. ~Done(r, "link_direct")
          BY <1>4, <2>3, <4>1, DirectOrder
        <5>2. ~Done(s, "link_direct")
          BY <1>4, <2>1, <5>1
        <5> QED
          BY <2>3, <4>1, <5>2 DEF DrySoFar
      <4>2. CASE s.op # "direct"
        BY <4>2 DEF DrySoFar
      <4> QED
        BY <4>1, <4>2
    <3> QED
      BY <3>3, <3>4, <3>5, <3>6 DEF DryInv
  <2>5. StopInv(s)'
    BY <1>4, <1>7, <2>2, StopQuiet
  <2>6. AmpInv(s)'
    BY <1>4, <2>2, AmpQuiet
  <2>7. StatusInv(s)'
    BY <1>4, <2>2, <2>3, StatusQuiet
  <2>8. ToneInv(s)'
    <3>1. CASE s.op # "tone"
      BY <3>1, ToneQuiet
    <3>2. CASE s.op = "tone"
      <4>1. Ready(s, "stop") /\ ~Done(s, "set")
        <5>1. Ready(s, "stop") /\ ~Done(r, "set")
          <6>1. r.op = "tone" /\ s.plan = Tail(r.plan)
            BY <2>3, <3>2
          <6>2. Ready(s, "stop")
            BY <1>4, <6>1, ToneNext
          <6> QED
            BY <1>4, <6>1, <6>2, ToneOrder
        <5> QED
          BY <1>4, <2>1, <5>1
      <4>2. Clean(s, {"overlap", "gave_up", "abandoned", "died", "unheard", "wrapper"})
              => NoWrapper'
        BY <1>1, <1>4, <2>3, <3>2 DEF ToneInv, Clean, NoWrapper
      <4> QED
        BY <4>1, <4>2, NextStep DEF ToneInv
    <3> QED
      BY <3>1, <3>2
  <2> QED
    BY <1>1, <1>2, <1>8, <2>1, <2>2, <2>4, <2>5, <2>6, <2>7, <2>8, GoesOn
<1> QED
  BY <1>11, <1>12

\* A step that is done is not the next one.
LEMMA ReadyNotDone ==
  ASSUME NEW r \in Operation, OnPlan(r), NEW x, Done(r, x)
  PROVE  ~Ready(r, x)
<1>1. SUFFICES ASSUME r.plan # <<>>
               PROVE  Head(r.plan) # x
  BY DEF Ready
<1>2. r.plan \in Seq(Steps)
  BY <1>1, HasOperation
<1>3. Len(r.plan) \in Nat \ {0} /\ DOMAIN r.plan = 1 .. Len(r.plan) /\ Head(r.plan) = r.plan[1]
  BY <1>1, <1>2, Rest
<1>4. 1 \in DOMAIN r.plan
  BY <1>3
<1> QED
  BY <1>3, <1>4 DEF Done

\* The four links of Guitarix.
LEMMA AmpSet ==
  ASSUME NEW c, NEW L, \A i \in 1 .. 4 : AmpLinks(c)[i] \in L
  PROVE  AsSet(AmpLinks(c)) \subseteq L
<1>1. DOMAIN AmpLinks(c) = 1 .. 4
  BY DEF AmpLinks
<1> QED
  BY <1>1 DEF AsSet

\* A link is made between ports that exist, and is a link like the others.
LEMMA LinkMade ==
  ASSUME World, NEW l, l = <<l[1], l[2]>>,
         links' = IF Exists(l[1]) /\ Exists(l[2]) THEN links \cup {l} ELSE links,
         UNCHANGED <<external, abandoned, bounds>>
  PROVE  /\ World'
         /\ UNCHANGED <<config, present, proc, saved, abandoned, ops, events>>
<1>1. UNCHANGED <<config, present, proc, saved, abandoned, ops, events>>
  BY DEF external, bounds
<1>2. ASSUME NEW port, Exists(port)
      PROVE  port \in AllPorts /\ Exists(port)'
  BY <1>1, <1>2 DEF World, Exists, AllPorts, WithPorts
<1>3. links' \subseteq AllPorts \X AllPorts
  <2>1. CASE Exists(l[1]) /\ Exists(l[2])
    <3>1. <<l[1], l[2]>> \in AllPorts \X AllPorts
      BY <1>2, <2>1
    <3> QED
      BY <2>1, <3>1 DEF World
  <2>2. CASE ~(Exists(l[1]) /\ Exists(l[2]))
    BY <2>2 DEF World
  <2> QED
    BY <2>1, <2>2
<1>4. \A k \in links' : Exists(k[1])' /\ Exists(k[2])'
  BY <1>2 DEF World
<1> QED
  BY <1>1, <1>3, <1>4 DEF World, WithPorts, Running

\* connect_direct makes its links one by one, from none to all.
LEMMA LinkDirectKeeps ==
  ASSUME RoutesInv, NEW t \in Threads, Link(t, "link_direct", DirectLinks(req[t].config))
  PROVE  RoutesInv'
<1>1. At(t, "link_direct")
  BY DEF Link
<1>2. PICK r \in Operation : AtStep(t, r, "link_direct")
  BY <1>1, Stepping
<1>3. World /\ present \subseteq Devices
  BY <1>1, Stepping
<1>4. /\ r = req[t] /\ Ready(r, "link_direct") /\ r.plan # <<>> /\ Head(r.plan) = "link_direct"
      /\ r.config \in Config /\ r.made \in Nat /\ MadeInv(r) /\ r.op = "direct"
      /\ OnPlan(r) /\ DryInv(r) /\ StopInv(r) /\ AmpInv(r) /\ StatusInv(r)
  BY <1>2, Belongs DEF AtStep, Operation
<1>5. PICK todo : todo = DirectLinks(r.config)
  OBVIOUS
<1>6. PICK l : l = todo[r.made + 1]
  OBVIOUS
<1>7. /\ links' = IF Exists(l[1]) /\ Exists(l[2]) THEN links \cup {l} ELSE links
      /\ Loop(t, todo) /\ UNCHANGED <<external, abandoned, bounds>>
  BY <1>4, <1>5, <1>6 DEF Link
<1>8. Len(todo) \in {1, 2} /\ r.made < Len(todo)
  BY <1>4, <1>5, Pairs DEF MadeInv
<1>9. r.made + 1 \in 1 .. Len(todo)
  BY <1>4, <1>8
<1>10. l = <<l[1], l[2]>>
  BY <1>5, <1>6, <1>9, Pairs
<1>11. /\ World'
       /\ UNCHANGED <<config, present, proc, saved, abandoned, ops, events>>
  BY <1>3, <1>7, <1>10, LinkMade
<1>12. Done(r, "unlink") /\ ~Done(r, "link_direct") /\ Done(r, "validate")
  BY <1>4, DirectOrder
\* With the devices there, the link is made, and it is a dry one.
<1>13. ASSUME Clean(r, {"overlap", "unplugged"})
       PROVE  /\ {r.config.source, r.config.output} \subseteq present
              /\ links' = links \cup {l} /\ {l[1], l[2]} \cap GxPorts = {}
              /\ Dry(r.config)' = {todo[i] : i \in 1 .. r.made} \cup {l}
              /\ AsSet(todo) = {todo[i] : i \in 1 .. Len(todo)}
  <2>1. /\ {r.config.source, r.config.output} \subseteq present
        /\ Dry(r.config) = DrySoFar(r)
    BY <1>4, <1>12, <1>13 DEF DryInv
  <2>2. /\ r.config.source \in Sources /\ PortsOf(r.config.source) = {r.config.source}
        /\ r.config.output \in Outputs /\ Playback(r.config) = PortsOf(r.config.output)
    <3>1. r.config.source # Unset /\ r.config.output # Unset
      BY <1>3, <2>1, PipeWireAssumption
    <3> QED
      BY <1>4, <3>1, ConfigPorts
  <2>3. /\ l[1] = r.config.source /\ l[2] \in PortsOf(r.config.output)
        /\ AsSet(todo) = {todo[i] : i \in 1 .. Len(todo)}
    BY <1>4, <1>5, <1>6, <1>9, <2>2, Wiring
  <2>4. Exists(l[1]) /\ Exists(l[2])
    BY <2>1, <2>2, <2>3 DEF Exists
  <2>5. links' = links \cup {l}
    BY <1>7, <2>4
  <2>6. Dry(r.config)' = Dry(r.config) \cup {l}
    BY <2>2, <2>3, <2>5 DEF Dry, Playback
  <2>7. DrySoFar(r) = {todo[i] : i \in 1 .. r.made}
    BY <1>4, <1>5, <1>12 DEF DrySoFar
  <2>8. {l[1], l[2]} \cap GxPorts = {}
    BY <1>4, <2>2, <2>3, ConfigPorts
  <2> QED
    BY <2>1, <2>3, <2>5, <2>6, <2>7, <2>8
<1>14. {todo[i] : i \in 1 .. r.made} \cup {l} = {todo[i] : i \in 1 .. r.made + 1}
  <2>1. \A i : i \in 1 .. r.made + 1 <=> i \in 1 .. r.made \/ i = r.made + 1
    BY <1>4
  <2> QED
    BY <1>6, <2>1
<1>15. GuitarixKept
  BY <1>7, <1>11 DEF GuitarixKept, WithPorts
\* The next link, or the next step.
<1>16. PICK s \in Operation :
         /\ Becomes(t, s) /\ OnPlan(s) /\ MadeInv(s) /\ Follows(r, s)
         /\ Passes(r, "link_direct", s)
         /\ s.op = r.op /\ s.config = r.config /\ s.trouble = r.trouble
         /\ s.seen = r.seen /\ s.route = r.route /\ ~Ready(s, "await_stop")
         /\ \/ s.made = r.made + 1 /\ ~Done(s, "link_direct")
            \/ Done(s, "link_direct") /\ r.made + 1 = Len(todo)
  <2>1. CASE r.made + 1 < Len(todo)
    <3>1. req' = [req EXCEPT ![t].made = @ + 1] /\ last' = last
      BY <1>4, <1>7, <2>1 DEF Loop
    <3>2. PICK s \in Operation :
            /\ Follows(r, s) /\ Becomes(t, s) /\ OnPlan(s) /\ s.trouble = r.trouble
            /\ s.plan = r.plan /\ s.made = r.made + 1 /\ s.seen = r.seen /\ s.route = r.route
      BY <1>4, <3>1, Looped
    <3>3. /\ \A y : Done(s, y) <=> Done(r, y)
          /\ Passes(r, "link_direct", s) /\ Ready(s, "link_direct")
          /\ s.op = r.op /\ s.config = r.config
      BY <1>4, <3>2 DEF Done, Passes, Ready, Follows
    <3>4. MadeInv(s)
      <4>1. s.made < Len(DirectLinks(s.config))
        BY <1>5, <2>1, <3>2, <3>3
      <4> QED
        BY <3>3, <4>1, NextStep DEF MadeInv
    <3> QED
      BY <1>12, <3>2, <3>3, <3>4, NextStep
  <2>2. CASE ~(r.made + 1 < Len(todo))
    <3>1. Advance(t, r)
      BY <1>4, <1>7, <2>2 DEF Loop
    <3>2. PICK s \in Operation :
            /\ After(r, s) /\ Becomes(t, s) /\ OnPlan(s) /\ MadeInv(s)
            /\ \A x : x # Head(r.plan) => (Done(s, x) <=> Done(r, x))
      BY <1>4, <3>1, Advanced
    <3>3. Follows(r, s) /\ Passes(r, "link_direct", s)
      BY <1>4, <3>2, PassesAfter
    <3>4. /\ s.op = r.op /\ s.config = r.config /\ s.trouble = r.trouble
          /\ s.seen = r.seen /\ s.route = r.route /\ s.plan = Tail(r.plan)
      BY <3>2 DEF After
    <3>5. Done(s, "link_direct")
      BY <1>4, <3>4, Once
    <3>6. r.made + 1 = Len(todo)
      BY <1>4, <1>8, <2>2
    <3>7. ~Ready(s, "await_stop")
      <4>1. Done(s, "await_stop")
        BY <1>4, <3>2, DirectOrder
      <4> QED
        BY <3>2, <4>1, ReadyNotDone
    <3> QED
      BY <3>2, <3>3, <3>4, <3>5, <3>6, <3>7
  <2> QED
    BY <2>1, <2>2
<1>17. DryInv(s)'
  <2>1. SUFFICES ASSUME Clean(s, {"overlap", "unplugged"})
                 PROVE  DryInv(s)'
    BY DEF DryInv
  <2>2. Clean(r, {"overlap", "unplugged"})
    BY <1>16, <2>1 DEF Clean
  <2>3. Done(s, "unlink")
    BY <1>12, <1>16 DEF Passes
  <2>4. {s.config.source, s.config.output} \subseteq present'
    BY <1>11, <1>13, <1>16, <2>2
  <2>5. Dry(s.config)' = {todo[i] : i \in 1 .. r.made + 1}
    BY <1>13, <1>14, <1>16, <2>2
  <2>6. DrySoFar(s) = {todo[i] : i \in 1 .. r.made + 1}
    BY <1>4, <1>5, <1>13, <1>16, <2>2 DEF DrySoFar
  <2> QED
    BY <2>3, <2>4, <2>5, <2>6 DEF DryInv
<1>18. StopInv(s)'
  <2>1. Clean(s, {"overlap", "gave_up", "unplugged"}) =>
          \A k \in links' : {k[1], k[2]} \cap GxPorts # {} => k \in links
    BY <1>13, <1>16 DEF Clean
  <2> QED
    BY <1>4, <1>16, <2>1, StopQuiet
<1>19. AmpInv(s)'
  BY <1>4, <1>15, <1>16, AmpQuiet
<1>20. StatusInv(s)'
  BY <1>4, <1>16, StatusQuiet
<1>21. ToneInv(s)'
  BY <1>4, <1>16, ToneQuiet
<1> QED
  BY <1>2, <1>11, <1>16, <1>17, <1>18, <1>19, <1>20, <1>21, GoesOn

\* _wire_amp makes the chain link by link; one that is not made has had its reason.
LEMMA WireAmpKeeps ==
  ASSUME RoutesInv, NEW t \in Threads, Link(t, "wire_amp", AmpLinks(req[t].config))
  PROVE  RoutesInv'
<1>1. At(t, "wire_amp")
  BY DEF Link
<1>2. PICK r \in Operation : AtStep(t, r, "wire_amp")
  BY <1>1, Stepping
<1>3. World /\ present \subseteq Devices
  BY <1>1, Stepping
<1>4. /\ r = req[t] /\ Ready(r, "wire_amp") /\ r.plan # <<>> /\ Head(r.plan) = "wire_amp"
      /\ r.config \in Config /\ r.made \in Nat /\ MadeInv(r) /\ r.op \in {"amp", "tone"}
      /\ OnPlan(r) /\ DryInv(r) /\ StopInv(r) /\ AmpInv(r) /\ StatusInv(r) /\ ToneInv(r)
  BY <1>2, Belongs DEF AtStep, Operation
<1>5. PICK todo : todo = AmpLinks(r.config)
  OBVIOUS
<1>6. PICK l : l = todo[r.made + 1]
  OBVIOUS
<1>7. /\ links' = IF Exists(l[1]) /\ Exists(l[2]) THEN links \cup {l} ELSE links
      /\ Loop(t, todo) /\ UNCHANGED <<external, abandoned, bounds>>
  BY <1>4, <1>5, <1>6 DEF Link
<1>8. Len(todo) = 4 /\ r.made < 4
  BY <1>4, <1>5, Pairs DEF MadeInv
<1>9. r.made + 1 \in 1 .. 4
  BY <1>4, <1>8
<1>10. l = <<l[1], l[2]>> /\ {l[1], l[2]} \cap GxPorts # {}
  BY <1>5, <1>6, <1>9, Pairs
<1>11. /\ World'
       /\ UNCHANGED <<config, present, proc, saved, abandoned, ops, events>>
  BY <1>3, <1>7, <1>10, LinkMade
<1>12. /\ Done(r, "unlink") /\ ~Done(r, "wire_amp") /\ Done(r, "validate")
       /\ Done(r, "start") /\ Done(r, "wait_ports")
  BY <1>4, AmpOrder, ToneOrder
<1>13. GuitarixKept /\ DevicesKept /\ links \subseteq links'
  <2>1. links \subseteq links' /\ \A k \in links' : k \in links \/ k = l
    BY <1>7
  <2> QED
    BY <1>10, <1>11, <2>1 DEF GuitarixKept, DevicesKept, WithPorts
\* With the devices and Guitarix there, the link is made.
<1>14. ASSUME Clean(r, {"overlap", "abandoned", "died", "unplugged"})
       PROVE  /\ \A p \in Procs : proc[p].state # "dying"
              /\ WithPorts # {} /\ \A i \in 1 .. r.made + 1 : todo[i] \in links'
  <2>1. Clean(r, {"overlap", "unplugged"}) /\ r.op # "none"
    BY <1>4, <1>14 DEF Clean
  <2>2. {r.config.source, r.config.output} \subseteq present
    BY <1>4, <1>12, <2>1 DEF DryInv
  <2>3. /\ \A p \in Procs : proc[p].state # "dying"
        /\ WithPorts # {} /\ \A i \in 1 .. r.made : todo[i] \in links
    BY <1>4, <1>5, <1>12, <1>14 DEF AmpInv
  <2>4. r.config.source # Unset /\ r.config.output # Unset
    BY <1>3, <2>2, PipeWireAssumption
  <2>5. PortsOf(r.config.source) = {r.config.source} /\ r.config.output \in Outputs
    BY <1>4, <2>4, ConfigPorts
  <2>6. /\ l[1] \in {r.config.source, "amp_out", "fx_out_0", "fx_out_1"}
        /\ l[2] \in {"amp_in", "fx_in"} \cup PortsOf(r.config.output)
    BY <1>4, <1>5, <1>6, <1>9, <2>5, Chain
  <2>7. {"amp_in", "amp_out", "fx_in", "fx_out_0", "fx_out_1"} \subseteq GxPorts
    BY DEF GxPorts
  <2>8. Exists(l[1]) /\ Exists(l[2])
    BY <2>2, <2>3, <2>5, <2>6, <2>7 DEF Exists
  <2>9. l \in links'
    BY <1>7, <2>8
  <2>10. \A i \in 1 .. r.made + 1 : i \in 1 .. r.made \/ i = r.made + 1
    BY <1>4
  <2> QED
    BY <1>6, <1>13, <2>3, <2>9, <2>10
<1>15. PICK s \in Operation :
         /\ Becomes(t, s) /\ OnPlan(s) /\ MadeInv(s) /\ Follows(r, s)
         /\ Passes(r, "wire_amp", s)
         /\ s.op = r.op /\ s.config = r.config /\ s.trouble = r.trouble /\ s.tone = r.tone
         /\ s.seen = r.seen /\ s.route = r.route /\ ~Ready(s, "await_stop")
         /\ \/ s.made = r.made + 1 /\ s.plan = r.plan
            \/ s.made = 0 /\ s.plan = Tail(r.plan) /\ r.made + 1 = 4
  <2>1. CASE r.made + 1 < Len(todo)
    <3>1. req' = [req EXCEPT ![t].made = @ + 1] /\ last' = last
      BY <1>4, <1>7, <2>1 DEF Loop
    <3>2. PICK s \in Operation :
            /\ Follows(r, s) /\ Becomes(t, s) /\ OnPlan(s) /\ s.trouble = r.trouble
            /\ s.plan = r.plan /\ s.made = r.made + 1 /\ s.seen = r.seen /\ s.route = r.route
      BY <1>4, <3>1, Looped
    <3>3. /\ Passes(r, "wire_amp", s) /\ Ready(s, "wire_amp")
          /\ s.op = r.op /\ s.config = r.config /\ s.tone = r.tone
      BY <1>4, <3>2 DEF Done, Passes, Ready, Follows
    <3>4. MadeInv(s)
      <4>1. s.made < Len(AmpLinks(s.config))
        BY <1>5, <2>1, <3>2, <3>3
      <4> QED
        BY <3>3, <4>1, NextStep DEF MadeInv
    <3> QED
      BY <3>2, <3>3, <3>4, NextStep
  <2>2. CASE ~(r.made + 1 < Len(todo))
    <3>1. Advance(t, r)
      BY <1>4, <1>7, <2>2 DEF Loop
    <3>2. PICK s \in Operation :
            /\ After(r, s) /\ Becomes(t, s) /\ OnPlan(s) /\ MadeInv(s)
            /\ \A x : x # Head(r.plan) => (Done(s, x) <=> Done(r, x))
      BY <1>4, <3>1, Advanced
    <3>3. Follows(r, s) /\ Passes(r, "wire_amp", s)
      BY <1>4, <3>2, PassesAfter
    <3>4. /\ s.op = r.op /\ s.config = r.config /\ s.trouble = r.trouble /\ s.tone = r.tone
          /\ s.seen = r.seen /\ s.route = r.route /\ s.plan = Tail(r.plan) /\ s.made = 0
      BY <3>2 DEF After
    <3>5. r.made + 1 = 4
      BY <1>4, <1>8, <2>2
    <3>6. ~Ready(s, "await_stop")
      BY <1>4, <3>2, <3>4, Belongs, AmpOrder, ToneNext, NextStep DEF Ready
    <3> QED
      BY <3>2, <3>3, <3>4, <3>5, <3>6
  <2> QED
    BY <2>1, <2>2
<1>16. DryInv(s)'
  BY <1>3, <1>4, <1>13, <1>15, DryQuiet
<1>17. StopInv(s)'
  BY <1>4, <1>15, StopQuiet
<1>18. AmpInv(s)'
  <2>1. SUFFICES ASSUME Clean(s, {"overlap", "abandoned", "died", "unplugged"})
                 PROVE  AmpInv(s)'
    BY DEF AmpInv
  <2>2. /\ \A p \in Procs : proc'[p].state # "dying"
        /\ (WithPorts # {})' /\ \A i \in 1 .. r.made + 1 : AmpLinks(s.config)[i] \in links'
    BY <1>5, <1>11, <1>14, <1>15, <2>1 DEF Clean, WithPorts
  <2>3. CASE s.made = r.made + 1 /\ s.plan = r.plan
    <3>1. ~Done(s, "wire_amp")
      BY <1>12, <2>3 DEF Done
    <3> QED
      BY <2>2, <2>3, <3>1 DEF AmpInv
  <2>4. CASE s.made = 0 /\ r.made + 1 = 4
    <3>1. AsSet(AmpLinks(s.config)) \subseteq links'
      BY <2>2, <2>4, AmpSet
    <3>2. \A i : i \notin 1 .. s.made
      BY <2>4
    <3> QED
      BY <2>2, <3>1, <3>2 DEF AmpInv
  <2> QED
    BY <1>15, <2>3, <2>4
<1>19. StatusInv(s)'
  BY <1>4, <1>15, StatusQuiet
<1>20. ToneInv(s)'
  <2>1. s.op = "tone" /\ Clean(s, {"overlap", "gave_up", "abandoned", "died", "unheard", "wrapper"})
          => Restarted(s.tone)'
    BY <1>4, <1>11, <1>15 DEF ToneInv, Clean, Restarted, Whole
  <2>2. s.op = "tone" => s.plan = <<>> \/ Ready(s, "wire_amp")
    BY <1>4, <1>15, ToneNext DEF Ready
  <2> QED
    BY <2>1, <2>2, NextStep DEF ToneInv, Ready
<1> QED
  BY <1>2, <1>11, <1>15, <1>16, <1>17, <1>18, <1>19, <1>20, GoesOn

\* s is r when its next step x is over, and what befell it is known.
Over(t, r, x, what, s) ==
  /\ Becomes(t, s) /\ OnPlan(s) /\ MadeInv(s) /\ Follows(r, s) /\ Passes(r, x, s)
  /\ s.op = r.op /\ s.tone = r.tone /\ s.config = r.config /\ s.seen = r.seen
  /\ s.route = r.route /\ s.made = 0 /\ s.plan = Tail(r.plan)
  /\ what \subseteq s.trouble \/ "overlap" \in s.trouble
  /\ \A y : y # x => (Done(s, y) <=> Done(r, y))

\* So does whoever advances in trouble.
LEMMA AdvancedIn ==
  ASSUME NEW t, NEW r \in Operation, OnPlan(r), r.plan # <<>>,
         NEW what \in SUBSET Troubles, Advance(t, Troubled(r, what))
  PROVE  \E s \in Operation : Over(t, r, Head(r.plan), what, s)
<1>1. PICK q \in Operation : q = Troubled(r, what)
  BY TroubledKeeps
<1>2. Unmoved(r, q) /\ (what \subseteq q.trouble \/ "overlap" \in q.trouble)
  BY <1>1, TroubledKeeps
<1>3. r.op # "none"
  BY HasOperation
<1>4. /\ q.op = r.op /\ q.tone = r.tone /\ q.config = r.config /\ q.seen = r.seen
      /\ q.route = r.route /\ q.plan = r.plan /\ Follows(r, q)
      /\ \A x : Done(q, x) <=> Done(r, x)
  BY <1>2 DEF Unmoved, Follows, Done
<1>5. OnPlan(q)
  BY <1>3, <1>4, SamePlan
<1>6. PICK s \in Operation :
        /\ After(q, s) /\ Becomes(t, s) /\ OnPlan(s) /\ MadeInv(s)
        /\ \A x : x # Head(q.plan) => (Done(s, x) <=> Done(q, x))
  BY <1>1, <1>4, <1>5, Advanced
<1>7. /\ s.op = r.op /\ s.tone = r.tone /\ s.config = r.config /\ s.seen = r.seen
      /\ s.route = r.route /\ s.made = 0 /\ s.plan = Tail(r.plan)
      /\ what \subseteq s.trouble \/ "overlap" \in s.trouble
      /\ Follows(r, s)
  BY <1>2, <1>4, <1>6 DEF After, Follows
<1>8. \A x : x # Head(r.plan) => (Done(s, x) <=> Done(r, x))
  BY <1>4, <1>6
<1>9. Passes(r, Head(r.plan), s)
  BY <1>6, <1>7, <1>8 DEF Passes
<1> QED
  BY <1>6, <1>7, <1>8, <1>9 DEF Over

\* Without Guitarix there are no links to it.
LEMMA NoneIsDry ==
  ASSUME World, Running = {}
  PROVE  Wet = {} /\ WithPorts = {} /\ \A p \in Procs : proc[p].state \in {"none", "wrapper"}
<1>1. WithPorts = {}
  BY DEF World
<1>2. ASSUME NEW port \in GxPorts, Exists(port)
      PROVE  FALSE
  BY <1>1, <1>2, PipeWireAssumption DEF World, Exists
<1>3. Wet = {}
  BY <1>2 DEF World, Wet
<1>4. \A p \in Procs : proc[p].state \in {"none", "wrapper"}
  BY DEF World, Process, Running
<1> QED
  BY <1>1, <1>3, <1>4

\* Every running Guitarix begins to die.
LEMMA Stopped ==
  ASSUME World,
         proc' = [p \in Procs |-> IF p \in Running THEN [proc[p] EXCEPT !.state = "dying"]
                                                   ELSE proc[p]],
         UNCHANGED <<config, present, links, saved, abandoned, bounds>>
  PROVE  /\ World' /\ DevicesKept /\ (NoWrapper => NoWrapper')
         /\ \A tone : AllToHear(tone, "running") => AllToHear(tone, "dying")'
<1>1. \A p \in Procs :
        /\ proc[p] \in Process /\ proc'[p] \in Process /\ proc'[p].inbox = proc[p].inbox
        /\ proc'[p].tone = proc[p].tone /\ proc'[p].ports = proc[p].ports
        /\ proc'[p].state = IF p \in Running THEN "dying" ELSE proc[p].state
  <2>1. SUFFICES ASSUME NEW p \in Procs
                 PROVE  /\ proc[p] \in Process /\ proc'[p] \in Process
                        /\ proc'[p].inbox = proc[p].inbox /\ proc'[p].tone = proc[p].tone
                        /\ proc'[p].ports = proc[p].ports
                        /\ proc'[p].state = IF p \in Running THEN "dying" ELSE proc[p].state
    OBVIOUS
  <2>2. PICK q \in Process : q = proc[p]
    BY DEF World
  <2>3. CASE p \in Running
    <3>1. PICK n : n = [q EXCEPT !.state = "dying"]
      OBVIOUS
    <3>2. /\ n \in Process /\ n.state = "dying" /\ n.inbox = q.inbox /\ n.tone = q.tone
          /\ n.ports = q.ports
      BY <3>1, Processes
    <3>3. proc'[p] = n
      BY <2>2, <2>3, <3>1
    <3> QED
      BY <2>2, <2>3, <3>2, <3>3
  <2>4. CASE p \notin Running
    BY <2>2, <2>4
  <2> QED
    BY <2>3, <2>4
<1>2. proc' \in [Procs -> Process]
  BY <1>1
<1>3. UNCHANGED <<config, present, links, saved, abandoned, ops, events>>
  BY DEF bounds
<1>4. WithPorts' = WithPorts /\ Running' = Running
  BY <1>1 DEF WithPorts, Running
<1>5. World'
  <2>1. \A l \in links : Exists(l[1])' /\ Exists(l[2])'
    BY <1>3, <1>4 DEF World, Exists
  <2>2. abandoned' \subseteq {p \in Procs : proc'[p].state = "dying"}
    BY <1>1, <1>3 DEF World
  <2> QED
    BY <1>2, <1>3, <1>4, <2>1, <2>2 DEF World
<1>6. NoWrapper => NoWrapper'
  BY <1>1 DEF NoWrapper
<1>7. ASSUME NEW tone, AllToHear(tone, "running")
      PROVE  AllToHear(tone, "dying")'
  <2>1. PICK p \in Procs :
          /\ Alone(p) /\ proc[p].state = "running"
          /\ \/ Will(p, <<"setpreset", "set">>, tone)
             \/ Will(p, <<"set">>, tone) /\ proc[p].tone = Half(tone)
             \/ Heard(p, Whole(tone))
    BY <1>7 DEF AllToHear
  <2>2. Alone(p)' /\ proc'[p].state = "dying"
    BY <1>1, <2>1 DEF Alone, Running
  <2>3. (\/ Will(p, <<"setpreset", "set">>, tone)
         \/ Will(p, <<"set">>, tone) /\ proc[p].tone = Half(tone)
         \/ Heard(p, Whole(tone)))'
    BY <1>1, <2>1 DEF Will, Heard, Half, Whole
  <2> QED
    BY <2>2, <2>3 DEF AllToHear
<1> QED
  BY <1>3, <1>5, <1>6, <1>7 DEF DevicesKept

\* What is done when no Guitarix is left.
LEMMA AllGone ==
  ASSUME World, Running = {}, NEW t, NEW r \in Operation, NEW s \in Operation,
         NEW x \in {"stop", "await_stop"}, AtStep(t, r, x), Follows(r, s), OnPlan(s),
         s.plan = Tail(r.plan), UNCHANGED <<external, links>>
  PROVE  StopInv(s)' /\ ToneInv(s)'
<1>1. Wet = {} /\ \A p \in Procs : proc[p].state \in {"none", "wrapper"}
  BY NoneIsDry
<1>2. /\ proc' = proc /\ saved' = saved /\ links' = links
      /\ Ready(r, x) /\ OnPlan(r) /\ ToneInv(r) /\ s.op = r.op /\ s.tone = r.tone
  BY DEF AtStep, Follows, external
<1>3. StopInv(s)'
  BY <1>1, <1>2 DEF StopInv, Wet
<1>4. ToneInv(s)'
  <2>1. SUFFICES ASSUME s.op = "tone",
                        Clean(s, {"overlap", "gave_up", "abandoned", "died", "unheard", "wrapper"})
                 PROVE  ToneInv(s)'
    BY DEF ToneInv
  <2>2. Clean(r, {"overlap", "gave_up", "abandoned", "died", "unheard", "wrapper"})
    BY <2>1 DEF Clean, Follows
  <2>3. IF Done(r, "set") THEN Ready(s, "start") ELSE Ready(s, "start_rpc")
    BY <1>2, <2>1, ToneNext
  <2>4. CASE Done(r, "set")
    <3>1. \A state : state \in {"running", "dying"} => ~AllToHear(r.tone, state)
      BY <1>1 DEF AllToHear
    <3>2. Kept(r.tone)
      BY <1>2, <2>1, <2>2, <2>4, <3>1 DEF ToneInv
    <3>3. Kept(s.tone)'
      BY <1>2, <3>2 DEF Kept, NoneLeft, Whole
    <3> QED
      BY <2>3, <2>4, <3>3, NextStep DEF ToneInv
  <2>5. CASE ~Done(r, "set")
    <3>1. NoWrapper
      BY <1>2, <2>1, <2>2, <2>5 DEF ToneInv
    <3>2. NoneLeft'
      BY <1>1, <1>2, <3>1 DEF NoWrapper, NoneLeft
    <3> QED
      BY <2>3, <2>5, <3>2, NextStep DEF ToneInv
  <2> QED
    BY <2>4, <2>5
<1> QED
  BY <1>3, <1>4

\* _stop_guitarix sends SIGTERM: all that run are dying, and are waited for.
LEMMA StopKeeps ==
  ASSUME RoutesInv, NEW t \in Threads, Stop(t)
  PROVE  RoutesInv'
<1>1. At(t, "stop") /\ UNCHANGED <<config, present, links, saved, abandoned, bounds>>
  BY DEF Stop
<1>2. PICK r \in Operation : AtStep(t, r, "stop")
  BY <1>1, Stepping
<1>3. World /\ present \subseteq Devices
  BY <1>1, Stepping
<1>4. /\ r = req[t] /\ Ready(r, "stop") /\ r.plan # <<>> /\ Head(r.plan) = "stop"
      /\ OnPlan(r) /\ DryInv(r) /\ StopInv(r) /\ AmpInv(r) /\ StatusInv(r) /\ ToneInv(r)
  BY <1>2 DEF AtStep
<1>5. CASE Running = {}
  <2>1. Advance(t, r) /\ UNCHANGED proc
    BY <1>4, <1>5 DEF Stop
  <2>2. UNCHANGED <<external, links, abandoned, bounds>>
    BY <1>1, <2>1 DEF external
  <2>3. World' /\ DevicesKept /\ GuitarixKept /\ UNCHANGED <<proc, abandoned>>
    BY <1>3, <2>2, Still
  <2>4. PICK s \in Operation :
          /\ After(r, s) /\ Becomes(t, s) /\ OnPlan(s) /\ MadeInv(s)
          /\ \A x : x # Head(r.plan) => (Done(s, x) <=> Done(r, x))
    BY <1>4, <2>1, Advanced
  <2>5. Follows(r, s) /\ Passes(r, "stop", s)
    BY <1>4, <2>4, PassesAfter
  <2>6. s.plan = Tail(r.plan) /\ s.seen = r.seen /\ s.route = r.route
    BY <2>4 DEF After
  <2>7. StopInv(s)' /\ ToneInv(s)'
    BY <1>2, <1>3, <1>5, <2>2, <2>4, <2>5, <2>6, AllGone
  <2>8. DryInv(s)'
    BY <1>3, <1>4, <2>3, <2>5, DryQuiet
  <2>9. AmpInv(s)'
    BY <1>4, <2>5, AmpQuiet
  <2>10. StatusInv(s)'
    BY <1>4, <2>5, <2>6, StatusQuiet
  <2> QED
    BY <1>2, <2>3, <2>4, <2>5, <2>7, <2>8, <2>9, <2>10, GoesOn
<1>6. CASE Running # {}
  <2>1. /\ proc' = [p \in Procs |-> IF p \in Running THEN [proc[p] EXCEPT !.state = "dying"]
                                                      ELSE proc[p]]
        /\ Instead(t, "await_stop")
    BY <1>6 DEF Stop
  <2>2. /\ World' /\ DevicesKept /\ (NoWrapper => NoWrapper')
        /\ \A tone : AllToHear(tone, "running") => AllToHear(tone, "dying")'
    BY <1>1, <1>3, <2>1, Stopped
  <2>3. PICK s \in Operation :
          /\ s.trouble = r.trouble /\ Follows(r, s) /\ s.made = r.made /\ s.seen = r.seen
          /\ s.route = r.route
          /\ Becomes(t, s) /\ OnPlan(s) /\ MadeInv(s) /\ Ready(s, "await_stop")
          /\ \A x : x # "stop" /\ x # "await_stop" => (Done(s, x) <=> Done(r, x))
    <3>1. "await_stop" \in Steps /\ "await_stop" \in InPlaceOf("stop")
      BY DEF Steps, InPlaceOf
    <3>2. PICK e \in Steps : e = "await_stop"
      BY <3>1
    <3>3. e \in InPlaceOf(Head(r.plan)) /\ e # Head(r.plan) /\ Instead(t, e)
      BY <1>4, <2>1, <3>1, <3>2
    <3>4. PICK s \in Operation :
            /\ s.trouble = r.trouble
            /\ Follows(r, s) /\ s.made = r.made /\ s.seen = r.seen /\ s.route = r.route
            /\ Becomes(t, s) /\ OnPlan(s) /\ MadeInv(s) /\ Ready(s, e)
            /\ \A x : x # Head(r.plan) /\ x # e => (Done(s, x) <=> Done(r, x))
      BY <1>4, <3>3, Replaced
    <3> QED
      BY <1>4, <3>2, <3>4
  <2>4. Passes(r, "stop", s)
    BY <2>3 DEF Passes
  <2>5. ~Done(s, "await_stop")
    BY <2>3, ReadyNotDone
  <2>6. DryInv(s)'
    BY <1>3, <1>4, <2>2, <2>4, DryQuiet
  <2>7. StopInv(s)'
    BY <2>5 DEF StopInv
  <2>8. AmpInv(s)'
    BY <1>4, <2>4, AmpQuiet
  <2>9. StatusInv(s)'
    BY <1>4, <2>3, <2>4, StatusQuiet
  <2>10. ToneInv(s)'
    <3>1. SUFFICES ASSUME s.op = "tone",
                          Clean(s, {"overlap", "gave_up", "abandoned", "died", "unheard", "wrapper"})
                   PROVE  ToneInv(s)'
      BY DEF ToneInv
    <3>2. /\ r.op = "tone" /\ r.tone = s.tone /\ (Done(s, "set") <=> Done(r, "set"))
          /\ Clean(r, {"overlap", "gave_up", "abandoned", "died", "unheard", "wrapper"})
      BY <2>3, <3>1 DEF Clean, Follows
    <3>3. /\ ~Done(r, "set") => NoWrapper
          /\ Done(r, "set") => AllToHear(r.tone, "running")
      BY <1>4, <3>2 DEF ToneInv
    <3>4. /\ ~Done(s, "set") => NoWrapper'
          /\ Done(s, "set") => AllToHear(s.tone, "dying")'
      BY <2>2, <3>2, <3>3
    <3> QED
      BY <2>3, <3>4, NextStep DEF ToneInv
  <2> QED
    BY <1>2, <2>2, <2>3, <2>6, <2>7, <2>8, <2>9, <2>10, GoesOn
<1> QED
  BY <1>5, <1>6

\* _stop_guitarix returns when none runs, which leaves no link to one, or gives up on
\* those that do.
LEMMA AwaitStopKeeps ==
  ASSUME RoutesInv, NEW t \in Threads, AwaitStop(t)
  PROVE  RoutesInv'
<1>1. At(t, "await_stop") /\ UNCHANGED <<external, links, bounds>>
  BY DEF AwaitStop
<1>2. PICK r \in Operation : AtStep(t, r, "await_stop")
  BY <1>1, Stepping
<1>3. World /\ present \subseteq Devices
  BY <1>1, Stepping
<1>4. /\ r = req[t] /\ Ready(r, "await_stop") /\ r.plan # <<>> /\ Head(r.plan) = "await_stop"
      /\ OnPlan(r) /\ DryInv(r) /\ StopInv(r) /\ AmpInv(r) /\ StatusInv(r) /\ ToneInv(r)
  BY <1>2 DEF AtStep
<1>5. UNCHANGED <<config, present, proc, saved, links, ops, events>>
  BY <1>1 DEF external, bounds
<1>6. /\ World' /\ DevicesKept
      /\ \A p \in Procs : proc'[p].state = "dying" => p \in abandoned'
  <2>1. abandoned' = {p \in Procs : proc[p].state = "dying"}
    <3>1. CASE Running = {}
      <4>1. abandoned' = abandoned
        BY <3>1 DEF AwaitStop
      <4>2. {p \in Procs : proc[p].state = "dying"} = {}
        BY <3>1 DEF Running
      <4> QED
        BY <1>3, <4>1, <4>2 DEF World
    <3>2. CASE Running # {}
      BY <3>2 DEF AwaitStop
    <3> QED
      BY <3>1, <3>2
  <2>2. \A l \in links : Exists(l[1])' /\ Exists(l[2])'
    BY <1>3, <1>5 DEF World, Exists, WithPorts
  <2> QED
    BY <1>3, <1>5, <2>1, <2>2 DEF World, DevicesKept, WithPorts, Running
<1>7. PICK what \in SUBSET Troubles :
        /\ Advance(t, Troubled(r, what)) \/ (what = {} /\ Advance(t, r))
        /\ Running # {} => "gave_up" \in what
  <2>1. {} \in SUBSET Troubles /\ {"gave_up"} \in SUBSET Troubles
    BY DEF Troubles
  <2>2. CASE Running = {}
    BY <1>4, <2>1, <2>2 DEF AwaitStop
  <2>3. CASE Running # {}
    BY <1>4, <2>1, <2>3 DEF AwaitStop
  <2> QED
    BY <2>2, <2>3
<1>8. PICK s \in Operation :
        /\ Becomes(t, s) /\ OnPlan(s) /\ MadeInv(s) /\ Follows(r, s)
        /\ Passes(r, "await_stop", s) /\ s.seen = r.seen
        /\ s.route = r.route /\ s.plan = Tail(r.plan)
        /\ what \subseteq s.trouble \/ "overlap" \in s.trouble
  <2>1. CASE Advance(t, Troubled(r, what))
    <3>1. PICK s \in Operation : Over(t, r, "await_stop", what, s)
      BY <1>4, <2>1, AdvancedIn
    <3> QED
      BY <1>4, <3>1 DEF Over
  <2>2. CASE what = {} /\ Advance(t, r)
    <3>1. PICK s \in Operation :
            /\ After(r, s) /\ Becomes(t, s) /\ OnPlan(s) /\ MadeInv(s)
            /\ \A x : x # Head(r.plan) => (Done(s, x) <=> Done(r, x))
      BY <1>4, <2>2, Advanced
    <3>2. Follows(r, s) /\ Passes(r, "await_stop", s)
      BY <1>4, <3>1, PassesAfter
    <3> QED
      BY <2>2, <3>1, <3>2 DEF After
  <2> QED
    BY <1>7, <2>1, <2>2
<1>9. StopInv(s)' /\ ToneInv(s)'
  <2>1. CASE Running = {}
    BY <1>1, <1>2, <1>3, <1>8, <2>1, AllGone
  <2>2. CASE Running # {}
    <3>1. "gave_up" \in s.trouble \/ "overlap" \in s.trouble
      BY <1>7, <1>8, <2>2
    <3> QED
      BY <3>1 DEF StopInv, ToneInv, Clean
  <2> QED
    BY <2>1, <2>2
<1>10. DryInv(s)'
  BY <1>3, <1>4, <1>6, <1>8, DryQuiet
<1>11. AmpInv(s)'
  BY <1>4, <1>8, AmpQuiet
<1>12. StatusInv(s)'
  BY <1>4, <1>8, StatusQuiet
<1>13. OperationInv(s)'
  BY <1>9, <1>10, <1>11, <1>12 DEF OperationInv
<1>14. "overlap" \in r.trouble => "overlap" \in s.trouble
  BY <1>8 DEF Follows
<1> QED
  BY <1>4, <1>6, <1>8, <1>13, <1>14, StepKeeps

\* A step is over and nothing befell the operation.
LEMMA StepOver ==
  ASSUME NEW t, NEW r \in Operation, OnPlan(r), r.plan # <<>>, Advance(t, r)
  PROVE  \E s \in Operation : Over(t, r, Head(r.plan), {}, s) /\ s.trouble = r.trouble
<1>1. PICK s \in Operation :
        /\ After(r, s) /\ Becomes(t, s) /\ OnPlan(s) /\ MadeInv(s)
        /\ \A x : x # Head(r.plan) => (Done(s, x) <=> Done(r, x))
  BY Advanced
<1>2. Follows(r, s) /\ Passes(r, Head(r.plan), s)
  BY <1>1, PassesAfter
<1>3. Over(t, r, Head(r.plan), {}, s) /\ s.trouble = r.trouble
  BY <1>1, <1>2 DEF Over, After
<1> QED
  BY <1>3

\* What starts Guitarix and talks to it leaves the devices and the links alone.
LEMMA Quiet ==
  ASSUME present \subseteq Devices, NEW t, NEW r \in Operation,
         NEW x \in {"start", "start_rpc", "spawn", "spawn_rpc", "wait_ports", "wait_rpc",
                    "setpreset", "set"}, AtStep(t, r, x),
         NEW s \in Operation, Passes(r, x, s), s.seen = r.seen, s.route = r.route,
         present' = present, links' = links
  PROVE  /\ DryInv(s)' /\ StopInv(s)' /\ StatusInv(s)'
         /\ x \notin {"start", "wait_ports"} /\ GuitarixKept => AmpInv(s)'
<1>1. /\ Ready(r, x) /\ OnPlan(r) /\ DevicesKept
      /\ DryInv(r) /\ StopInv(r) /\ AmpInv(r) /\ StatusInv(r)
  BY DEF AtStep, DevicesKept
<1>2. DryInv(s)'
  BY <1>1, DryQuiet
<1>3. StopInv(s)'
  BY <1>1, StopQuiet
<1>4. StatusInv(s)'
  BY <1>1, StatusQuiet
<1>5. x \notin {"start", "wait_ports"} /\ GuitarixKept => AmpInv(s)'
  BY <1>1, AmpQuiet
<1> QED
  BY <1>2, <1>3, <1>4, <1>5

\* While nobody waits, a Guitarix that was told to stop was given up on.
LEMMA NobodyWaits ==
  ASSUME RoutesInv, NEW t \in Threads, NEW r, NEW x, AtStep(t, r, x), x # "await_stop",
         "overlap" \notin r.trouble
  PROVE  \A p \in Procs : proc[p].state = "dying" => p \in abandoned
<1>1. ASSUME NEW u \in Threads, At(u, "await_stop")
      PROVE  FALSE
  <2>1. u # t /\ u \in Busy /\ t \in Busy /\ r = req[t]
    BY <1>1 DEF At, AtStep, Busy
  <2> QED
    BY <2>1 DEF RoutesInv, PlanInv
<1> QED
  BY <1>1 DEF RoutesInv, DyingInv

\* Before the ports are there nothing is wired.
LEMMA NotWired ==
  ASSUME NEW r \in Operation, OnPlan(r), Ready(r, "start"), NEW s, s.op = r.op,
         \A y : y \notin {"start", "spawn"} => (Done(s, y) <=> Done(r, y)),
         \A p \in Procs : proc'[p].state # "dying"
  PROVE  AmpInv(s)'
<1>1. ~Done(r, "wait_ports") /\ ~Done(r, "wire_amp")
  BY Belongs, AmpOrder, ToneOrder
<1> QED
  BY <1>1 DEF AmpInv

\* _start_guitarix finds a Guitarix, or that there is none.
LEMMA StartKeeps ==
  ASSUME RoutesInv, NEW t \in Threads, NEW x \in {"start", "start_rpc"}, NEW rpc,
         rpc <=> x = "start_rpc", Start(t, x, rpc)
  PROVE  RoutesInv'
<1>1. At(t, x) /\ UNCHANGED <<external, links, abandoned, bounds>>
  BY DEF Start
<1>2. PICK r \in Operation : AtStep(t, r, x)
  BY <1>1, Stepping
<1>3. /\ World' /\ DevicesKept /\ GuitarixKept /\ World
      /\ UNCHANGED <<config, present, proc, saved, links, abandoned, ops, events>>
      /\ present \subseteq Devices
  BY <1>1, Still, Stepping
<1>4. /\ r = req[t] /\ Ready(r, x) /\ r.plan # <<>> /\ Head(r.plan) = x
      /\ OnPlan(r) /\ ToneInv(r)
  BY <1>2 DEF AtStep
<1>5. CASE Running # {}
  <2>1. PICK what \in SUBSET Troubles :
          /\ Advance(t, Troubled(r, what))
          /\ Running \cap abandoned # {} => "abandoned" \in what
    <3>1. {} \in SUBSET Troubles /\ {"abandoned"} \in SUBSET Troubles
      BY DEF Troubles
    <3> QED
      BY <1>4, <1>5, <3>1 DEF Start
  <2>2. PICK s \in Operation : Over(t, r, x, what, s)
    BY <1>4, <2>1, AdvancedIn
  <2>3. /\ Becomes(t, s) /\ OnPlan(s) /\ MadeInv(s) /\ Follows(r, s) /\ Passes(r, x, s)
        /\ s.op = r.op /\ s.tone = r.tone /\ s.seen = r.seen /\ s.route = r.route
        /\ what \subseteq s.trouble \/ "overlap" \in s.trouble
        /\ \A y : y # x => (Done(s, y) <=> Done(r, y))
    BY <2>2 DEF Over
  <2>4. DryInv(s)' /\ StopInv(s)' /\ StatusInv(s)' /\ (x # "start" => AmpInv(s)')
    BY <1>2, <1>3, <2>3, Quiet
  <2>5. ASSUME x = "start", Clean(s, {"overlap", "abandoned"})
        PROVE  AmpInv(s)'
    <3>1. "overlap" \notin r.trouble /\ Running \cap abandoned = {}
      BY <2>1, <2>3, <2>5 DEF Follows, Clean
    <3>2. \A p \in Procs : proc[p].state # "dying"
      BY <1>2, <3>1, NobodyWaits DEF Running
    <3> QED
      BY <1>3, <1>4, <2>3, <2>5, <3>2, NotWired
  <2>6. AmpInv(s)'
    BY <2>4, <2>5 DEF AmpInv, Clean
  <2>7. ToneInv(s)'
    <3>1. SUFFICES ASSUME s.op = "tone",
                          Clean(s, {"overlap", "gave_up", "abandoned", "died", "unheard", "wrapper"})
                   PROVE  FALSE
      BY DEF ToneInv
    <3>2. Clean(r, {"overlap", "gave_up", "abandoned", "died", "unheard", "wrapper"})
      BY <2>3, <3>1 DEF Clean, Follows
    <3>3. NoneLeft
      BY <1>4, <2>3, <3>1, <3>2 DEF ToneInv, Kept
    <3> QED
      BY <1>5, <3>3 DEF NoneLeft, Running
  <2> QED
    BY <1>2, <1>3, <2>3, <2>4, <2>6, <2>7, GoesOn
<1>6. CASE Running = {}
  <2>1. PICK e \in Steps :
          /\ e \in InPlaceOf(x) /\ e # x /\ Instead(t, e)
          /\ e = IF x = "start" THEN "spawn" ELSE "spawn_rpc"
    <3>1. {"spawn", "spawn_rpc"} \subseteq Steps
      BY DEF Steps
    <3> QED
      BY <1>6, <3>1 DEF Start, InPlaceOf
  <2>0. /\ e \in InPlaceOf(Head(r.plan)) /\ e # Head(r.plan) /\ Instead(t, e)
        /\ Head(r.plan) \in {"stop", "start", "start_rpc"}
    BY <1>4, <2>1
  <2>2. PICK s \in Operation :
          /\ s.trouble = r.trouble
          /\ Follows(r, s) /\ s.made = r.made /\ s.seen = r.seen /\ s.route = r.route
          /\ Becomes(t, s) /\ OnPlan(s) /\ MadeInv(s) /\ Ready(s, e)
          /\ \A y : y # Head(r.plan) /\ y # e => (Done(s, y) <=> Done(r, y))
    BY <1>4, <2>0, Replaced
  <2>3. Passes(r, x, s) /\ s.op = r.op /\ s.tone = r.tone
    BY <1>4, <2>1, <2>2 DEF Passes, Follows
  <2>4. DryInv(s)' /\ StopInv(s)' /\ StatusInv(s)' /\ (x # "start" => AmpInv(s)')
    BY <1>2, <1>3, <2>2, <2>3, Quiet
  <2>5. ASSUME x = "start"
        PROVE  AmpInv(s)'
    <3>1. \A p \in Procs : proc'[p].state # "dying"
      BY <1>3, <1>6 DEF Running
    <3>2. \A y : y \notin {"start", "spawn"} => (Done(s, y) <=> Done(r, y))
      BY <1>4, <2>1, <2>2, <2>5
    <3> QED
      BY <1>4, <2>3, <2>5, <3>1, <3>2, NotWired
  <2>6. ToneInv(s)'
    <3>1. s.op = "tone" /\ Clean(s, {"overlap", "gave_up", "abandoned", "died", "unheard", "wrapper"})
            => IF x = "start" THEN Kept(s.tone)' ELSE NoneLeft'
      BY <1>3, <1>4, <2>2, <2>3 DEF ToneInv, Clean, Kept, NoneLeft, Whole
    <3> QED
      BY <2>1, <2>2, <3>1, NextStep DEF ToneInv
  <2> QED
    BY <1>2, <1>3, <2>2, <2>3, <2>4, <2>5, <2>6, GoesOn
<1> QED
  BY <1>5, <1>6

\* _start_guitarix starts one, which has the settings that were saved last.
LEMMA SpawnKeeps ==
  ASSUME RoutesInv, NEW t \in Threads, NEW x \in {"spawn", "spawn_rpc"}, NEW rpc \in BOOLEAN,
         Spawn(t, x, rpc)
  PROVE  RoutesInv'
<1>1. At(t, x) /\ UNCHANGED <<config, present, links, saved, abandoned, ops, events>>
  BY DEF Spawn, bounds
<1>2. PICK r \in Operation : AtStep(t, r, x)
  BY <1>1, Stepping
<1>3. World /\ present \subseteq Devices /\ proc \in [Procs -> Process]
  BY <1>1, Stepping
<1>4. /\ r = req[t] /\ Ready(r, x) /\ r.plan # <<>> /\ Head(r.plan) = x
      /\ OnPlan(r) /\ ToneInv(r)
  BY <1>2 DEF AtStep
<1>5. CASE Raise(t) /\ UNCHANGED proc
  <2>1. UNCHANGED <<external, links, abandoned, bounds>>
    BY <1>1, <1>5 DEF external, bounds
  <2>2. World' /\ UNCHANGED <<proc, abandoned>>
    BY <1>1, <1>3, <1>5, <2>1, Still
  <2> QED
    BY <1>1, <1>5, <2>2, RaiseKeeps
<1>6. ASSUME NEW p \in Procs, proc[p].state = "none", Advance(t, r),
             proc' = [proc EXCEPT ![p] = [NoProc EXCEPT !.state = "wrapper", !.rpc = rpc]]
      PROVE  RoutesInv'
  <2>1. PICK new : new = [NoProc EXCEPT !.state = "wrapper", !.rpc = rpc]
    OBVIOUS
  <2>2. /\ new \in Process /\ new.state = "wrapper" /\ new.inbox = <<>>
        /\ ~new.ports
    BY <2>1, Processes DEF Process
  <2>3. /\ proc' \in [Procs -> Process] /\ proc'[p] = new
        /\ \A q \in Procs : q # p => proc'[q] = proc[q]
    BY <1>3, <1>6, <2>1, <2>2
  <2>4. WithPorts' = WithPorts /\ Running' = Running
    <3>1. p \notin WithPorts /\ p \notin Running
      BY <1>3, <1>6 DEF World, Running
    <3> QED
      BY <2>2, <2>3, <3>1 DEF WithPorts, Running
  <2>5. World'
    <3>1. \A l \in links' : Exists(l[1])' /\ Exists(l[2])'
      BY <1>1, <1>3, <2>4, ExistsStill DEF World
    <3>2. abandoned' \subseteq {q \in Procs : proc'[q].state = "dying"}
      BY <1>1, <1>3, <1>6, <2>3 DEF World
    <3> QED
      BY <1>1, <1>3, <2>3, <2>4, <3>1, <3>2 DEF World
  <2>6. \A q \in Procs : proc'[q].state = "dying" => q # p /\ proc[q].state = "dying"
    BY <2>2, <2>3
  <2>7. GuitarixKept
    BY <1>1, <2>4, <2>6 DEF GuitarixKept
  <2>8. PICK s \in Operation : Over(t, r, x, {}, s) /\ s.trouble = r.trouble
    BY <1>4, <1>6, StepOver
  <2>9. /\ Becomes(t, s) /\ OnPlan(s) /\ MadeInv(s) /\ Follows(r, s) /\ Passes(r, x, s)
        /\ s.op = r.op /\ s.tone = r.tone /\ s.seen = r.seen /\ s.route = r.route
        /\ s.plan = Tail(r.plan)
    BY <2>8 DEF Over
  <2>10. DryInv(s)' /\ StopInv(s)' /\ StatusInv(s)' /\ AmpInv(s)'
    BY <1>1, <1>2, <1>3, <2>7, <2>9, Quiet
  <2>11. ToneInv(s)'
    <3>1. SUFFICES ASSUME s.op = "tone",
                          Clean(s, {"overlap", "gave_up", "abandoned", "died", "unheard", "wrapper"})
                   PROVE  ToneInv(s)'
      BY DEF ToneInv
    <3>2. Clean(r, {"overlap", "gave_up", "abandoned", "died", "unheard", "wrapper"})
      BY <2>8, <3>1 DEF Clean
    <3>3. CASE x = "spawn_rpc"
      <4>1. NoneLeft
        BY <1>4, <2>9, <3>1, <3>2, <3>3 DEF ToneInv
      <4>2. Fresh({"wrapper", "running"})'
        BY <2>2, <2>3, <4>1 DEF NoneLeft, Fresh, Alone
      <4>3. Ready(s, "wait_rpc")
        BY <1>4, <2>9, <3>1, <3>3, ToneNext
      <4> QED
        BY <4>2, <4>3, NextStep DEF ToneInv
    <3>4. CASE x = "spawn"
      <4>1. Kept(r.tone)
        BY <1>4, <2>9, <3>1, <3>2, <3>4 DEF ToneInv
      <4>2. Restarted(s.tone)'
        BY <1>1, <2>2, <2>3, <2>9, <4>1 DEF Kept, NoneLeft, Restarted, Whole
      <4>3. Ready(s, "wait_ports")
        BY <1>4, <2>9, <3>1, <3>4, ToneNext
      <4> QED
        BY <4>2, <4>3, NextStep DEF ToneInv
    <3> QED
      BY <3>3, <3>4
  <2> QED
    BY <1>1, <1>2, <2>5, <2>6, <2>9, <2>10, <2>11, GoesOn
<1> QED
  BY <1>4, <1>5, <1>6 DEF Spawn

\* _wait_for_ports and the wait for the RPC port see what they wait for, or fail.
LEMMA WaitKeeps ==
  ASSUME RoutesInv, NEW t \in Threads, NEW x \in {"wait_ports", "wait_rpc"}, NEW found,
         found => IF x = "wait_ports" THEN WithPorts # {} ELSE RpcOpen # {},
         Wait(t, x, found)
  PROVE  RoutesInv'
<1>1. At(t, x) /\ UNCHANGED <<external, links, abandoned, bounds>>
  BY DEF Wait
<1>2. PICK r \in Operation : AtStep(t, r, x)
  BY <1>1, Stepping
<1>3. /\ World' /\ DevicesKept /\ GuitarixKept
      /\ UNCHANGED <<config, present, proc, saved, links, abandoned, ops, events>>
      /\ present \subseteq Devices
  BY <1>1, Still, Stepping
<1>4. /\ r = req[t] /\ Ready(r, x) /\ r.plan # <<>> /\ Head(r.plan) = x
      /\ OnPlan(r) /\ ToneInv(r) /\ AmpInv(r)
  BY <1>2 DEF AtStep
<1>5. CASE Raise(t)
  BY <1>1, <1>3, <1>5, RaiseKeeps
<1>6. CASE found /\ Advance(t, r)
  <2>1. PICK s \in Operation : Over(t, r, x, {}, s) /\ s.trouble = r.trouble
    BY <1>4, <1>6, StepOver
  <2>2. /\ Becomes(t, s) /\ OnPlan(s) /\ MadeInv(s) /\ Follows(r, s) /\ Passes(r, x, s)
        /\ s.op = r.op /\ s.tone = r.tone /\ s.seen = r.seen /\ s.route = r.route
        /\ s.made = 0 /\ s.plan = Tail(r.plan)
        /\ \A y : y # x => (Done(s, y) <=> Done(r, y))
    BY <2>1 DEF Over
  <2>3. DryInv(s)' /\ StopInv(s)' /\ StatusInv(s)' /\ (x # "wait_ports" => AmpInv(s)')
    BY <1>2, <1>3, <2>2, Quiet
  <2>4. ASSUME x = "wait_ports"
        PROVE  AmpInv(s)'
    <3>1. SUFFICES ASSUME Clean(s, {"overlap", "abandoned", "died", "unplugged"})
                   PROVE  AmpInv(s)'
      BY DEF AmpInv
    <3>2. r.op \in {"amp", "tone"} /\ Done(r, "start") /\ ~Done(r, "wire_amp")
      BY <1>4, <2>4, Belongs, AmpOrder, ToneOrder
    <3>3. \A p \in Procs : proc[p].state # "dying"
      BY <1>4, <2>1, <3>1, <3>2 DEF AmpInv, Clean
    <3>4. WithPorts' # {} /\ \A i : i \notin 1 .. s.made
      BY <1>3, <1>6, <2>2, <2>4 DEF WithPorts
    <3> QED
      BY <1>3, <2>2, <2>4, <3>2, <3>3, <3>4 DEF AmpInv
  <2>5. ToneInv(s)'
    <3>1. SUFFICES ASSUME s.op = "tone",
                          Clean(s, {"overlap", "gave_up", "abandoned", "died", "unheard", "wrapper"})
                   PROVE  ToneInv(s)'
      BY DEF ToneInv
    <3>2. Clean(r, {"overlap", "gave_up", "abandoned", "died", "unheard", "wrapper"})
      BY <2>1, <3>1 DEF Clean
    <3>3. CASE x = "wait_rpc"
      <4>1. PICK p \in Procs :
              Alone(p) /\ proc[p].state \in {"wrapper", "running"} /\ proc[p].inbox = <<>>
        BY <1>4, <2>2, <3>1, <3>2, <3>3 DEF ToneInv, Fresh
      <4>2. proc[p].state = "running"
        BY <1>6, <3>3, <4>1 DEF RpcOpen, Running, Alone
      <4>3. Fresh({"running"})'
        BY <1>3, <4>1, <4>2 DEF Fresh, Alone
      <4>4. Ready(s, "setpreset")
        BY <1>4, <2>2, <3>1, <3>3, ToneNext
      <4> QED
        BY <4>3, <4>4, NextStep DEF ToneInv
    <3>4. CASE x = "wait_ports"
      <4>1. Restarted(r.tone)
        BY <1>4, <2>2, <3>1, <3>2, <3>4 DEF ToneInv
      <4>2. Restarted(s.tone)'
        BY <1>3, <2>2, <4>1 DEF Restarted, Whole
      <4>3. Ready(s, "wire_amp")
        BY <1>4, <2>2, <3>1, <3>4, ToneNext
      <4> QED
        BY <4>2, <4>3, NextStep DEF ToneInv
    <3> QED
      BY <3>3, <3>4
  <2> QED
    BY <1>2, <1>3, <2>2, <2>3, <2>4, <2>5, GoesOn
<1> QED
  BY <1>4, <1>5, <1>6 DEF Wait

\* A second request comes after the first.
LEMMA Appended ==
  ASSUME NEW S, NEW a \in S, NEW b \in S
  PROVE  Append(<<a>>, b) = <<a, b>>
<1>1. /\ <<a>> \in Seq(S) /\ Len(<<a>>) = 1
      /\ <<a, b>> \in Seq(S) /\ Len(<<a, b>>) = 2
  OBVIOUS
<1>2. /\ Append(<<a>>, b) \in Seq(S) /\ Len(Append(<<a>>, b)) = 2
      /\ Append(<<a>>, b)[1] = a /\ Append(<<a>>, b)[2] = b
  BY <1>1, AppendProperties
<1>3. \A i \in 1 .. 2 : i = 1 \/ i = 2
  OBVIOUS
<1>4. \A i \in 1 .. 2 : Append(<<a>>, b)[i] = <<a, b>>[i]
  BY <1>2, <1>3
<1> QED
  BY <1>1, <1>2, <1>4, SeqEqual

\* _rpc writes the request to the one Guitarix there is, or fails.
LEMMA RpcKeeps ==
  ASSUME RoutesInv, NEW t \in Threads, NEW x \in {"setpreset", "set"}, Rpc(t, x)
  PROVE  RoutesInv'
<1>1. At(t, x) /\ UNCHANGED <<config, present, links, saved, abandoned, ops, events>>
  BY DEF Rpc, bounds
<1>2. PICK r \in Operation : AtStep(t, r, x)
  BY <1>1, Stepping
<1>3. World /\ present \subseteq Devices /\ proc \in [Procs -> Process]
  BY <1>1, Stepping
<1>4. /\ r = req[t] /\ Ready(r, x) /\ r.plan # <<>> /\ Head(r.plan) = x
      /\ OnPlan(r) /\ ToneInv(r)
  BY <1>2 DEF AtStep
<1>5. CASE Raise(t) /\ UNCHANGED proc
  <2>1. UNCHANGED <<external, links, abandoned, bounds>>
    BY <1>1, <1>5 DEF external, bounds
  <2>2. World' /\ UNCHANGED <<proc, abandoned>>
    BY <1>1, <1>3, <1>5, <2>1, Still
  <2> QED
    BY <1>1, <1>5, <2>2, RaiseKeeps
<1>6. ASSUME NEW p \in RpcOpen, Advance(t, r),
             proc' = [proc EXCEPT ![p].inbox = Append(@, [method |-> x, tone |-> r.tone])]
      PROVE  RoutesInv'
  <2>1. PICK m : m = [method |-> x, tone |-> r.tone]
    OBVIOUS
  <2>2. m \in Message /\ p \in Procs /\ p \in Running
    BY <1>6, <2>1 DEF Message, Operation, RpcOpen, Running
  <2>3. proc[p] \in Process /\ Append(proc[p].inbox, m) \in Seq(Message)
    BY <1>3, <2>2 DEF Process
  <2>4. /\ proc' \in [Procs -> Process] /\ proc'[p].inbox = Append(proc[p].inbox, m)
        /\ \A q \in Procs : /\ proc'[q].state = proc[q].state /\ proc'[q].ports = proc[q].ports
                            /\ proc'[q].tone = proc[q].tone
    <3>1. PICK n : n = [proc[p] EXCEPT !.inbox = Append(proc[p].inbox, m)]
      OBVIOUS
    <3>2. /\ n \in Process /\ n.inbox = Append(proc[p].inbox, m) /\ n.state = proc[p].state
          /\ n.ports = proc[p].ports /\ n.tone = proc[p].tone
      BY <2>3, <3>1 DEF Process
    <3>3. proc' = [proc EXCEPT ![p] = n]
      BY <1>6, <2>1, <3>1
    <3> QED
      BY <1>3, <2>2, <3>2, <3>3
  <2>5. WithPorts' = WithPorts /\ Running' = Running
    BY <2>4 DEF WithPorts, Running
  <2>6. World'
    <3>1. \A l \in links' : Exists(l[1])' /\ Exists(l[2])'
      BY <1>1, <1>3, <2>5, ExistsStill DEF World
    <3>2. abandoned' \subseteq {q \in Procs : proc'[q].state = "dying"}
      BY <1>1, <1>3, <2>4 DEF World
    <3> QED
      BY <1>1, <1>3, <2>4, <2>5, <3>1, <3>2 DEF World
  <2>7. GuitarixKept
    BY <1>1, <2>4, <2>5 DEF GuitarixKept
  <2>8. PICK s \in Operation : Over(t, r, x, {}, s) /\ s.trouble = r.trouble
    BY <1>4, <1>6, StepOver
  <2>9. /\ Becomes(t, s) /\ OnPlan(s) /\ MadeInv(s) /\ Follows(r, s) /\ Passes(r, x, s)
        /\ s.op = r.op /\ s.tone = r.tone /\ s.seen = r.seen /\ s.route = r.route
        /\ s.plan = Tail(r.plan) /\ \A y : y # x => (Done(s, y) <=> Done(r, y))
    BY <2>8 DEF Over
  <2>10. DryInv(s)' /\ StopInv(s)' /\ StatusInv(s)' /\ AmpInv(s)'
    BY <1>1, <1>2, <1>3, <2>7, <2>9, Quiet
  <2>11. ToneInv(s)'
    <3>1. SUFFICES ASSUME s.op = "tone",
                          Clean(s, {"overlap", "gave_up", "abandoned", "died", "unheard", "wrapper"})
                   PROVE  ToneInv(s)'
      BY DEF ToneInv
    <3>2. Clean(r, {"overlap", "gave_up", "abandoned", "died", "unheard", "wrapper"})
      BY <2>8, <3>1 DEF Clean
    <3>3. \A q \in Procs : Alone(q) => q = p /\ Alone(q)'
      BY <2>2, <2>4 DEF Alone, Running
    <3>4. CASE x = "setpreset"
      <4>1. /\ Alone(p) /\ proc[p].state = "running" /\ proc[p].inbox = <<>>
        BY <1>4, <2>9, <3>1, <3>2, <3>3, <3>4 DEF ToneInv, Fresh
      <4>2. proc'[p].inbox = <<[method |-> "setpreset", tone |-> s.tone]>>
        BY <2>1, <2>4, <2>9, <3>4, <4>1
      <4>3. Will(p, <<"setpreset">>, s.tone)'
        BY <4>2, Inboxes
      <4>4. HalfWay(s.tone)'
        BY <2>2, <2>4, <3>3, <4>1, <4>3 DEF HalfWay
      <4>5. Ready(s, "set")
        BY <1>4, <2>9, <3>1, <3>4, ToneNext
      <4> QED
        BY <4>4, <4>5, NextStep DEF ToneInv
    <3>5. CASE x = "set"
      <4>1. /\ Alone(p) /\ proc[p].state = "running"
            /\ Will(p, <<"setpreset">>, s.tone) \/ Heard(p, Half(s.tone))
        BY <1>4, <2>9, <3>1, <3>2, <3>3, <3>5 DEF ToneInv, HalfWay
      <4>2. ASSUME Will(p, <<"setpreset">>, s.tone)
            PROVE  Will(p, <<"setpreset", "set">>, s.tone)'
        <5>1. proc[p].inbox = <<[method |-> "setpreset", tone |-> s.tone]>>
          BY <4>2, Inboxes
        <5>2. proc'[p].inbox = <<[method |-> "setpreset", tone |-> s.tone],
                                 [method |-> "set", tone |-> s.tone]>>
          <6>1. PICK n \in Message : n = [method |-> "setpreset", tone |-> s.tone]
            BY <2>9 DEF Message, Operation
          <6>2. m = [method |-> "set", tone |-> s.tone]
            BY <2>1, <2>9, <3>5
          <6> QED
            BY <2>2, <2>4, <5>1, <6>1, <6>2, Appended
        <5> QED
          BY <5>2, Inboxes
      <4>3. ASSUME Heard(p, Half(s.tone))
            PROVE  Will(p, <<"set">>, s.tone)' /\ proc'[p].tone = Half(s.tone)
        <5>1. proc'[p].inbox = <<[method |-> "set", tone |-> s.tone]>>
          BY <2>1, <2>4, <2>9, <3>5, <4>3 DEF Heard
        <5> QED
          BY <2>2, <2>4, <4>3, <5>1, Inboxes DEF Heard
      <4>4. AllToHear(s.tone, "running")'
        <5>1. \/ Will(p, <<"setpreset", "set">>, s.tone)'
              \/ Will(p, <<"set">>, s.tone)' /\ proc'[p].tone = Half(s.tone)
          BY <4>1, <4>2, <4>3
        <5> QED
          BY <2>2, <2>4, <3>3, <4>1, <5>1 DEF AllToHear, Half
      <4>5. Ready(s, "stop")
        BY <1>4, <2>9, <3>1, <3>5, ToneNext
      <4>6. Done(s, "set")
        BY <1>4, <2>9, <3>1, <3>5, <4>5, ToneOrder
      <4> QED
        BY <4>4, <4>5, <4>6, NextStep DEF ToneInv
    <3> QED
      BY <3>4, <3>5
  <2> QED
    BY <1>1, <1>2, <2>4, <2>6, <2>9, <2>10, <2>11, GoesOn
<1> QED
  BY <1>4, <1>5, <1>6 DEF Rpc

\* status() reads the links ...
LEMMA ReadLinksKeeps ==
  ASSUME RoutesInv, NEW t \in Threads, ReadLinks(t)
  PROVE  RoutesInv'
<1>1. At(t, "read_links") /\ UNCHANGED <<external, links, abandoned, bounds>>
  BY DEF ReadLinks
<1>2. PICK r \in Operation : AtStep(t, r, "read_links")
  BY <1>1, Stepping
<1>3. /\ World' /\ DevicesKept /\ GuitarixKept /\ World
      /\ UNCHANGED <<config, present, proc, saved, links, abandoned, ops, events>>
      /\ present \subseteq Devices
  BY <1>1, Still, Stepping
<1>4. /\ r = req[t] /\ Ready(r, "read_links") /\ r.plan # <<>> /\ Head(r.plan) = "read_links"
      /\ OnPlan(r) /\ DryInv(r) /\ StopInv(r) /\ AmpInv(r)
      /\ r.op \in {"direct", "amp", "disconnect"}
  BY <1>2, Belongs DEF AtStep
<1>5. Targets(r.config.source) \in SUBSET AllPorts
  BY <1>3 DEF World, Targets
<1>6. PICK r1 : r1 = [r EXCEPT !.seen = Targets(r.config.source)]
  OBVIOUS
<1>7. /\ r1 \in Operation /\ r1.seen = Targets(r.config.source) /\ Advance(t, r1)
      /\ r1.op = r.op /\ r1.tone = r.tone /\ r1.config = r.config /\ r1.plan = r.plan
      /\ r1.made = r.made /\ r1.route = r.route /\ r1.trouble = r.trouble
  BY <1>4, <1>5, <1>6 DEF ReadLinks, Operation
<1>8. OnPlan(r1)
  BY <1>4, <1>7, SamePlan
<1>9. PICK s \in Operation : Over(t, r1, "read_links", {}, s) /\ s.trouble = r1.trouble
  BY <1>4, <1>7, <1>8, StepOver
<1>10. /\ Becomes(t, s) /\ OnPlan(s) /\ MadeInv(s) /\ Follows(r, s)
       /\ s.op = r.op /\ s.config = r.config /\ s.seen = Targets(r.config.source)
       /\ s.made = 0 /\ s.plan = Tail(r.plan) /\ s.trouble = r.trouble
       /\ \A y : y # "read_links" => (Done(s, y) <=> Done(r, y))
       /\ Passes(r, "read_links", s)
  <2>1. /\ Becomes(t, s) /\ OnPlan(s) /\ MadeInv(s) /\ Passes(r1, "read_links", s)
        /\ s.op = r1.op /\ s.tone = r1.tone /\ s.config = r1.config /\ s.seen = r1.seen
        /\ s.route = r1.route /\ s.made = 0 /\ s.plan = Tail(r1.plan)
        /\ s.trouble = r1.trouble
        /\ \A y : y # "read_links" => (Done(s, y) <=> Done(r1, y))
    BY <1>9 DEF Over
  <2>2. Follows(r, s) /\ \A y : Done(r1, y) <=> Done(r, y)
    BY <1>7, <2>1 DEF Follows, Done
  <2>3. Passes(r, "read_links", s)
    BY <2>1, <2>2 DEF Passes
  <2> QED
    BY <1>7, <2>1, <2>2, <2>3
<1>11. DryInv(s)'
  BY <1>3, <1>4, <1>10, DryQuiet
<1>12. StopInv(s)'
  BY <1>3, <1>4, <1>10, StopQuiet
<1>13. AmpInv(s)'
  BY <1>3, <1>4, <1>10, AmpQuiet
<1>14. StatusInv(s)'
  <2>1. ~Done(s, "read_engine")
    BY <1>4, <1>10, DirectOrder, AmpOrder, DisconnectOrder
  <2>2. s.seen = Targets(s.config.source)'
    BY <1>3, <1>10 DEF Targets
  <2> QED
    BY <2>1, <2>2 DEF StatusInv
<1>15. ToneInv(s)'
  BY <1>4, <1>10, ToneQuiet
<1> QED
  BY <1>2, <1>3, <1>10, <1>11, <1>12, <1>13, <1>14, <1>15, GoesOn

\* What has been seen tells the route, if the operation is what it was.
LEMMA SeenIsRoute ==
  ASSUME World, NEW r \in Operation, OnPlan(r), Ready(r, "read_engine"),
         DryInv(r), StopInv(r), AmpInv(r), StatusInv(r), Reports(r)
  PROVE  RouteSeen(r) = RouteOf(r.op)
<1>1. r.op \in {"direct", "amp", "disconnect"} /\ Clean(r, {"overlap", "unplugged"})
      /\ r.config \in Config
  BY DEF Reports, Operation
<1>2. r.seen = Targets(r.config.source)
  BY <1>1, DirectOrder, AmpOrder, DisconnectOrder DEF StatusInv
<1>3. /\ \A port : port \in r.seen <=> \E l \in links : l[1] = r.config.source /\ l[2] = port
      /\ Dry(r.config) = DrySoFar(r)
      /\ r.op # "disconnect" => {r.config.source, r.config.output} \subseteq present
  BY <1>1, <1>2, DirectOrder, AmpOrder, DisconnectOrder DEF DryInv, Targets
<1>4. /\ r.op \in {"direct", "amp"} =>
           /\ r.config.source # Unset /\ r.config.source \in Sources
           /\ r.config.output \in Outputs /\ Playback(r.config) = PortsOf(r.config.output)
      /\ r.config.output \in present => Playback(r.config) = PortsOf(r.config.output)
  <2>1. Unset \notin present
    BY PipeWireAssumption DEF World
  <2> QED
    BY <1>1, <1>3, <2>1, ConfigPorts
<1>5. CASE r.op = "direct"
  <2>1. Wet = {}
    BY <1>1, <1>5, DirectOrder DEF StopInv, Reports, Clean
  <2>2. r.seen \cap GxPorts = {}
    BY <1>3, <2>1 DEF Wet
  <2>3. \E l \in DrySoFar(r) : TRUE
    <3>1. DrySoFar(r) = AsSet(DirectLinks(r.config))
      BY <1>5, DirectOrder DEF DrySoFar
    <3>2. 1 \in DOMAIN DirectLinks(r.config)
      BY <1>1, <1>4, <1>5, Wiring, Pairs
    <3> QED
      BY <3>1, <3>2 DEF AsSet
  <2>4. r.seen \cap PortsOf(r.config.output) # {}
    BY <1>3, <1>4, <1>5, <2>3 DEF Dry
  <2> QED
    BY <1>3, <1>4, <1>5, <2>2, <2>4 DEF RouteSeen, RouteOf
<1>6. CASE r.op = "amp"
  <2>1. /\ WithPorts # {} /\ AsSet(AmpLinks(r.config)) \subseteq links
    BY <1>1, <1>6, AmpOrder DEF AmpInv, Reports, Clean
  <2>2. Running # {}
    BY <2>1 DEF World
  <2>3. <<r.config.source, "amp_in">> \in links
    <3>1. AmpLinks(r.config)[1] = <<r.config.source, "amp_in">> /\ 1 \in DOMAIN AmpLinks(r.config)
      BY DEF AmpLinks
    <3> QED
      BY <2>1, <3>1 DEF AsSet
  <2>4. "amp_in" \in r.seen \cap GxPorts
    BY <1>3, <2>3 DEF GxPorts
  <2> QED
    BY <1>4, <1>6, <2>2, <2>4 DEF RouteSeen, RouteOf
<1>7. CASE r.op = "disconnect"
  <2>1. Wet = {}
    BY <1>1, <1>7, DisconnectOrder DEF StopInv, Reports, Clean
  <2>2. r.seen \cap GxPorts = {}
    BY <1>3, <2>1 DEF Wet
  <2>3. DrySoFar(r) = {}
    BY <1>7 DEF DrySoFar
  <2>4. r.config.output \in present => r.seen \cap PortsOf(r.config.output) = {}
    BY <1>3, <1>4, <2>3 DEF Dry
  <2> QED
    BY <1>7, <2>2, <2>4 DEF RouteSeen, RouteOf
<1> QED
  BY <1>1, <1>5, <1>6, <1>7

\* ... and then the process, and names the route: the one the links and the process
\* of an undisturbed operation have been in since.
LEMMA ReadEngineKeeps ==
  ASSUME RoutesInv, NEW t \in Threads, ReadEngine(t)
  PROVE  RoutesInv'
<1>1. At(t, "read_engine") /\ UNCHANGED <<external, links, abandoned, bounds>>
  BY DEF ReadEngine
<1>2. PICK r \in Operation : AtStep(t, r, "read_engine")
  BY <1>1, Stepping
<1>3. /\ World' /\ DevicesKept /\ GuitarixKept /\ World
      /\ UNCHANGED <<config, present, proc, saved, links, abandoned, ops, events>>
      /\ present \subseteq Devices
  BY <1>1, Still, Stepping
<1>4. /\ r = req[t] /\ Ready(r, "read_engine") /\ r.plan # <<>> /\ Head(r.plan) = "read_engine"
      /\ OnPlan(r) /\ DryInv(r) /\ StopInv(r) /\ AmpInv(r) /\ StatusInv(r)
      /\ r.op \in {"direct", "amp", "disconnect"}
  BY <1>2, Belongs DEF AtStep
<1>5. RouteSeen(r) \in {"off", "direct", "amp"}
  BY DEF RouteSeen
<1>6. PICK r1 : r1 = [r EXCEPT !.route = RouteSeen(r), !.seen = {}]
  OBVIOUS
<1>7. /\ r1 \in Operation /\ r1.route = RouteSeen(r) /\ Advance(t, r1)
      /\ r1.op = r.op /\ r1.tone = r.tone /\ r1.config = r.config /\ r1.plan = r.plan
      /\ r1.made = r.made /\ r1.trouble = r.trouble
  BY <1>4, <1>5, <1>6 DEF ReadEngine, Operation
<1>8. OnPlan(r1)
  BY <1>4, <1>7, SamePlan
<1>9. PICK s \in Operation : Over(t, r1, "read_engine", {}, s) /\ s.trouble = r1.trouble
  BY <1>4, <1>7, <1>8, StepOver
<1>10. /\ Becomes(t, s) /\ OnPlan(s) /\ MadeInv(s) /\ Follows(r, s)
       /\ s.op = r.op /\ s.config = r.config /\ s.route = RouteSeen(r)
       /\ s.made = 0 /\ s.plan = Tail(r.plan) /\ s.trouble = r.trouble
       /\ \A y : y # "read_engine" => (Done(s, y) <=> Done(r, y))
       /\ Passes(r, "read_engine", s)
  <2>1. /\ Becomes(t, s) /\ OnPlan(s) /\ MadeInv(s) /\ Passes(r1, "read_engine", s)
        /\ s.op = r1.op /\ s.tone = r1.tone /\ s.config = r1.config /\ s.seen = r1.seen
        /\ s.route = r1.route /\ s.made = 0 /\ s.plan = Tail(r1.plan)
        /\ s.trouble = r1.trouble
        /\ \A y : y # "read_engine" => (Done(s, y) <=> Done(r1, y))
    BY <1>9 DEF Over
  <2>2. Follows(r, s) /\ \A y : Done(r1, y) <=> Done(r, y)
    BY <1>7, <2>1 DEF Follows, Done
  <2>3. Passes(r, "read_engine", s)
    BY <2>1, <2>2 DEF Passes
  <2> QED
    BY <1>7, <2>1, <2>2, <2>3
<1>11. DryInv(s)'
  BY <1>3, <1>4, <1>10, DryQuiet
<1>12. StopInv(s)'
  BY <1>3, <1>4, <1>10, StopQuiet
<1>13. AmpInv(s)'
  BY <1>3, <1>4, <1>10, AmpQuiet
<1>14. StatusInv(s)'
  <2>1. Done(s, "read_engine")
    BY <1>4, <1>10, Once
  <2>2. Reports(s) => Reports(r)
    BY <1>10 DEF Reports, Clean
  <2>3. Reports(s) => s.route = RouteOf(s.op)
    BY <1>3, <1>4, <1>10, <2>2, SeenIsRoute
  <2> QED
    BY <2>1, <2>3 DEF StatusInv, Reports, Clean, RouteOf
<1>15. ToneInv(s)'
  BY <1>4, <1>10, ToneQuiet
<1> QED
  BY <1>2, <1>3, <1>10, <1>11, <1>12, <1>13, <1>14, <1>15, GoesOn

\* So every step of an operation keeps the invariant.
LEMMA StepsKeep ==
  ASSUME RoutesInv, NEW t \in Threads, Step(t)
  PROVE  RoutesInv'
<1>1. CASE Start(t, "start", FALSE) \/ Start(t, "start_rpc", TRUE)
  BY <1>1, StartKeeps
<1>2. CASE Spawn(t, "spawn", FALSE) \/ Spawn(t, "spawn_rpc", TRUE)
  BY <1>2, SpawnKeeps
<1>3. CASE Wait(t, "wait_ports", WithPorts # {}) \/ Wait(t, "wait_rpc", RpcOpen # {})
  BY <1>3, WaitKeeps
<1>4. CASE Rpc(t, "setpreset") \/ Rpc(t, "set")
  BY <1>4, RpcKeeps
<1>5. CASE ReadLinks(t) \/ ReadEngine(t)
  BY <1>5, ReadLinksKeeps, ReadEngineKeeps
<1>6. CASE Validate(t) \/ Unlink(t) \/ Stop(t) \/ AwaitStop(t)
  BY <1>6, ValidateKeeps, UnlinkKeeps, StopKeeps, AwaitStopKeeps
<1>7. CASE \/ Link(t, "link_direct", DirectLinks(req[t].config))
           \/ Link(t, "wire_amp", AmpLinks(req[t].config))
  BY <1>7, LinkDirectKeeps, WireAmpKeeps
<1> QED
  BY <1>1, <1>2, <1>3, <1>4, <1>5, <1>6, <1>7 DEF Step

-----------------------------------------------------------------------------
(* An operation begins.                                                    *)

\* It has all of its plan before it.
LEMMA Beginning ==
  ASSUME NEW s \in Operation, s.op \in {"direct", "amp", "disconnect", "tone"},
         s.plan = Plan(s.op), s.made = 0
  PROVE  /\ s.plan # <<>> /\ OnPlan(s) /\ MadeInv(s) /\ ~Ready(s, "await_stop")
         /\ Ready(s, IF s.op = "disconnect" THEN "unlink" ELSE "validate")
<1>1. s.plan \in Seq(Steps) /\ Len(s.plan) \in Nat \ {0}
  <2>1. Plan(s.op) \in Seq(Steps)
    BY Plans
  <2>2. PICK n \in {4, 6, 7, 11} : n = Len(s.plan)
    BY Plans
  <2>3. n \in Nat \ {0}
    OBVIOUS
  <2> QED
    BY <2>1, <2>2, <2>3
<1>2. DOMAIN s.plan = 1 .. Len(s.plan) /\ s.plan # <<>> /\ Head(s.plan) = s.plan[1]
  BY <1>1, Rest, EmptySeq
<1>3. OnPlan(s)
  <2>1. PICK whole : whole = s.plan
    OBVIOUS
  <2>2. \A i \in DOMAIN whole : (Len(whole) - Len(whole)) + i = i
    BY <1>1, <1>2, <2>1
  <2>3. \A i \in DOMAIN whole : whole[i] \in InPlaceOf(whole[i])
    BY DEF InPlaceOf
  <2>4. /\ Len(whole) - Len(whole) >= 0
        /\ \A i \in DOMAIN whole :
             IF i = 1 THEN whole[i] \in InPlaceOf(whole[(Len(whole) - Len(whole)) + i])
                      ELSE whole[i] = whole[(Len(whole) - Len(whole)) + i]
    BY <1>1, <2>1, <2>2, <2>3
  <2> QED
    BY <2>1, <2>4 DEF OnPlan
<1>4. MadeInv(s)
  BY NothingMade
<1>5. s.plan[1] = IF s.op = "disconnect" THEN "unlink" ELSE "validate"
  BY DEF Plan
<1> QED
  BY <1>2, <1>3, <1>4, <1>5 DEF Ready

\* So the invariant has nothing to say of it, but that a Guitarix about to appear
\* is one of its troubles.
LEMMA BegunWell ==
  ASSUME NEW s \in Operation, s.op \in {"direct", "amp", "disconnect", "tone"},
         s.plan = Plan(s.op), s.made = 0,
         NoWrapper' \/ s.trouble \cap {"overlap", "wrapper"} # {},
         present' = present, present \subseteq Devices
  PROVE  OperationInv(s)'
<1>1. PICK x \in {"validate", "unlink"} :
        /\ Ready(s, x) /\ OnPlan(s) /\ (x = "unlink" <=> s.op = "disconnect")
  BY Beginning
<1>2. ~Done(s, x)
  BY <1>1, ReadyNotDone
<1>3. DryInv(s)'
  <2>1. ~Done(s, "unlink")
    BY <1>1, DirectOrder, AmpOrder, DisconnectOrder, ToneOrder
  <2>2. s.op # "disconnect" => ~Done(s, "validate")
    BY <1>1, <1>2
  <2>3. \A i \in DOMAIN Unlinked(s.config)' : ~(i <= s.made)
    <3>1. s.config \in Config /\ Unlinked(s.config)' = Unlinked(s.config)
      BY DEF Operation, Unlinked
    <3> QED
      BY <3>1, UnlinkedIndex
  <2> QED
    BY <2>1, <2>2, <2>3 DEF DryInv
<1>4. StopInv(s)'
  BY <1>1, DirectOrder, DisconnectOrder DEF StopInv
<1>5. AmpInv(s)'
  BY <1>1, AmpOrder, ToneOrder DEF AmpInv
<1>6. StatusInv(s)'
  BY <1>1, DirectOrder, AmpOrder, DisconnectOrder DEF StatusInv, Reports
<1>7. ToneInv(s)'
  <2>1. s.op = "tone" => Ready(s, "validate")
    BY <1>1
  <2> QED
    BY <2>1, NextStep DEF ToneInv, Clean
<1> QED
  BY <1>3, <1>4, <1>5, <1>6, <1>7 DEF OperationInv

\* An operation begins; if another is under way, both know.
LEMMA BeginKeeps ==
  ASSUME RoutesInv, NEW t \in Threads, NEW op \in {"direct", "amp", "disconnect", "tone"},
         NEW tone \in Tones \cup {Unset}, Begin(t, op, tone)
  PROVE  RoutesInv'
<1>1. World /\ Requests /\ PlanInv /\ DyingInv
  BY Types DEF RoutesInv
<1>2. PICK new : new = [IdleReq EXCEPT !.op = op, !.tone = tone, !.config = config,
                                       !.plan = Plan(op)]
  OBVIOUS
<1>3. PICK both : both = IF Busy = {} THEN {} ELSE {"overlap"}
  OBVIOUS
<1>4. PICK spawning :
        spawning = IF \E p \in Procs : proc[p].state = "wrapper" THEN {"wrapper"} ELSE {}
  OBVIOUS
<1>5. /\ t \notin Busy /\ ops < MaxOps /\ ops' = ops + 1
      /\ Busy = {} \/ events < MaxEvents
      /\ events' = IF Busy = {} THEN events ELSE events + 1
      /\ req' = [u \in Threads |-> IF u = t THEN Troubled(new, both \cup spawning)
                                   ELSE IF u \in Busy THEN Troubled(req[u], both) ELSE req[u]]
      /\ last' = IdleReq
      /\ UNCHANGED <<config, present, proc, saved, links, abandoned>>
  BY <1>2, <1>3, <1>4 DEF Begin, external
<1>6. both \in SUBSET Troubles /\ both \cup spawning \in SUBSET Troubles
  BY <1>3, <1>4 DEF Troubles
<1>7. /\ new \in Operation /\ new.op = op /\ new.plan = Plan(op) /\ new.made = 0
  <2>1. config \in Config /\ Plan(op) \in Seq(Steps)
    BY <1>1, Plans, PipeWireAssumption DEF World
  <2> QED
    BY <1>2, <2>1, Idle DEF IdleReq, Operation
<1>8. PICK s \in Operation : s = Troubled(new, both \cup spawning)
  BY <1>6, <1>7, TroubledKeeps
<1>9. /\ s.op = op /\ s.plan = Plan(op) /\ s.made = 0
      /\ both \cup spawning \subseteq s.trouble \/ "overlap" \in s.trouble
  BY <1>6, <1>7, <1>8, TroubledKeeps DEF Unmoved, Follows
<1>10. World'
  <2>1. ops' \in 0 .. MaxOps /\ events' \in 0 .. MaxEvents
    BY <1>1, <1>5, PipeWireAssumption DEF World
  <2>2. \A l \in links : Exists(l[1])' /\ Exists(l[2])'
    BY <1>1, <1>5 DEF World, Exists, WithPorts
  <2> QED
    BY <1>1, <1>5, <2>1, <2>2 DEF World, WithPorts, Running
<1>11. /\ s.plan # <<>> /\ OnPlan(s) /\ MadeInv(s) /\ ~Ready(s, "await_stop")
  BY <1>9, Beginning
<1>12. OperationInv(s)'
  <2>1. NoWrapper' \/ s.trouble \cap {"overlap", "wrapper"} # {}
    BY <1>4, <1>5, <1>9 DEF NoWrapper
  <2>2. present' = present /\ present \subseteq Devices
    BY <1>1, <1>5 DEF World
  <2> QED
    BY <1>9, <2>1, <2>2, BegunWell
<1>13. req'[t] = s
  BY <1>5, <1>8
\* The others, of which the new one is not the only to know.
<1>14. ASSUME NEW u \in Threads, u # t
       PROVE  /\ req'[u] \in Operation /\ OnPlan(req'[u]) /\ MadeInv(req'[u])
              /\ req'[u].plan = req[u].plan
              /\ u \notin Busy => req'[u] = IdleReq
              /\ u \in Busy => "overlap" \in req'[u].trouble /\ "overlap" \in s.trouble
  <2>1. PICK r \in Operation : r = req[u]
    BY <1>1 DEF Requests
  <2>2. OnPlan(r) /\ MadeInv(r)
    BY <1>1, <2>1 DEF PlanInv
  <2>3. CASE u \in Busy
    <3>1. PICK q \in Operation : q = Troubled(r, both)
      BY <1>6, TroubledKeeps
    <3>2. req'[u] = q /\ both = {"overlap"}
      BY <1>3, <1>5, <1>14, <2>1, <2>3, <3>1
    <3>3. Unmoved(r, q) /\ "overlap" \in q.trouble
      BY <1>6, <3>1, <3>2, TroubledKeeps
    <3>4. OnPlan(q)
      BY <2>1, <2>2, <2>3, <3>3, HasOperation, SamePlan DEF Unmoved, Follows, Busy
    <3>5. MadeInv(q)
      BY <2>2, <3>3 DEF MadeInv, Ready, Unmoved, Follows
    <3> QED
      BY <1>9, <2>1, <2>3, <3>2, <3>3, <3>4, <3>5 DEF Unmoved
  <2>4. CASE u \notin Busy
    BY <1>1, <1>5, <1>14, <2>1, <2>2, <2>4 DEF Requests
  <2> QED
    BY <2>3, <2>4
<1>15. Requests'
  <2>1. req' \in [Threads -> Operation]
    <3>1. \A u \in Threads : req'[u] \in Operation
      BY <1>13, <1>14
    <3> QED
      BY <1>5, <3>1
  <2>2. \A u \in Threads : req'[u].plan = <<>> => req'[u] = IdleReq
    BY <1>11, <1>13, <1>14 DEF Busy
  <2> QED
    BY <1>5, <2>1, <2>2, Idle DEF Requests, Busy
<1>16. PlanInv'
  <2>1. \A u \in Threads : OnPlan(req'[u]) /\ MadeInv(req'[u])
    BY <1>11, <1>13, <1>14
  <2>2. ASSUME NEW u \in Threads, NEW v \in Threads, u # v,
               req'[u].plan # <<>>, req'[v].plan # <<>>
        PROVE  "overlap" \in req'[u].trouble
    BY <1>13, <1>14, <2>2 DEF Busy
  <2> QED
    BY <1>5, <2>1, <2>2, Idle DEF PlanInv, Busy
<1>17. DyingInv'
  <2>1. \A u \in Threads : At(u, "await_stop") => At(u, "await_stop")'
    <3>1. ~At(t, "await_stop")
      BY <1>5 DEF At, Busy
    <3> QED
      BY <1>14, <3>1 DEF At
  <2> QED
    BY <1>1, <1>5, <2>1 DEF DyingInv
<1>18. ASSUME NEW u \in Threads
       PROVE  OperationInv(req[u])'
  <2>1. PICK v : v = req'[u]
    OBVIOUS
  <2>2. OperationInv(v)'
    <3>1. CASE u = t
      BY <1>12, <1>13, <2>1, <3>1
    <3>2. CASE u # t
      <4>1. v.op = "none" \/ "overlap" \in v.trouble
        BY <1>14, <2>1, <3>2, Idle
      <4> QED
        BY <4>1, Overlapped
    <3> QED
      BY <3>1, <3>2
  <2> QED
    BY <2>1, <2>2
<1>19. OperationInv(last)'
  <2>1. PICK v : v = IdleReq
    OBVIOUS
  <2>2. OperationInv(v)' /\ last' = v
    BY <1>5, <2>1, Idle, Overlapped
  <2> QED
    BY <2>2
<1> QED
  BY <1>10, <1>15, <1>16, <1>17, <1>18, <1>19, Types DEF RoutesInv

-----------------------------------------------------------------------------
(* The invariant, and what it says of the outcome of the last operation.   *)

\* In a fresh session nothing is linked, running or under way.
LEMMA InitHolds ==
  ASSUME Init
  PROVE  RoutesInv
<1>1. World
  <2>1. NewTone \in Tone
    BY DEF NewTone, Tone
  <2>2. proc \in [Procs -> Process] /\ WithPorts = {}
    BY Processes DEF Init, WithPorts
  <2>3. ops \in 0 .. MaxOps /\ events \in 0 .. MaxEvents
    BY PipeWireAssumption DEF Init
  <2> QED
    BY <2>1, <2>2, <2>3 DEF Init, World
<1>2. req = [t \in Threads |-> IdleReq] /\ last = IdleReq
  BY DEF Init
<1>3. Requests /\ Busy = {}
  BY <1>2, Idle DEF Requests, Busy
<1>4. PlanInv
  BY <1>2, <1>3, Idle DEF PlanInv
<1>5. DyingInv
  BY Processes DEF Init, DyingInv
<1>6. (\A t \in Threads : OperationInv(req[t])) /\ OperationInv(last)
  <2>1. OperationInv(IdleReq)
    BY Idle, Overlapped
  <2> QED
    BY <1>2, <2>1
<1> QED
  BY <1>1, <1>3, <1>4, <1>5, <1>6, Types DEF RoutesInv

\* Nothing happens.
LEMMA StutterKeeps ==
  ASSUME RoutesInv, UNCHANGED vars
  PROVE  RoutesInv'
<1>1. UNCHANGED <<config, present, proc, saved, links, req, abandoned, last, ops, events>>
  BY DEF vars, external, bounds
<1>2. World
  BY Types DEF RoutesInv
<1>3. World' /\ GuitarixKept
  BY <1>1, <1>2 DEF World, Exists, WithPorts, Running, GuitarixKept
<1>4. \A tone : ToneKept(tone)
  BY <1>1, SameMinds
<1>5. Harmless({})
  BY <1>1, <1>3, <1>4 DEF Harmless, Befalls, DevicesKept
<1> QED
  BY <1>3, <1>5, HarmlessKeeps

\* Every step keeps the invariant.
LEMMA NextKeeps ==
  ASSUME RoutesInv, [Next]_vars
  PROVE  RoutesInv'
<1>1. CASE UNCHANGED vars
  BY <1>1, StutterKeeps
<1>2. CASE Environment
  BY <1>2, EnvironmentKeeps
<1>3. ASSUME NEW t \in Threads, Request(t)
      PROVE  RoutesInv'
  <2>1. ASSUME NEW op \in {"direct", "amp", "disconnect"}, Begin(t, op, Unset)
        PROVE  RoutesInv'
    BY <2>1, BeginKeeps
  <2>2. ASSUME NEW tone \in Tones, Begin(t, "tone", tone)
        PROVE  RoutesInv'
    BY <2>2, BeginKeeps
  <2> QED
    BY <1>3, <2>1, <2>2 DEF Request
<1>4. ASSUME NEW t \in Threads, Step(t)
      PROVE  RoutesInv'
  BY <1>4, StepsKeep
<1> QED
  BY <1>1, <1>2, <1>3, <1>4 DEF Next

\* The invariant of the operations and of what they make: how far each has come,
\* whoever else works at the links and the processes, whatever the environment does.
THEOREM RoutesInvariant == Spec => []RoutesInv
<1>1. Init => RoutesInv
  BY InitHolds
<1>2. RoutesInv /\ [Next]_vars => RoutesInv'
  BY NextKeeps
<1> QED
  BY <1>1, <1>2, PTL DEF Spec

\* An operation that has ended has taken every step.
LEMMA AllDone ==
  ASSUME PlanInv
  PROVE  \A x : Done(last, x)
<1>1. last.plan = <<>>
  BY DEF PlanInv
<1> QED
  BY <1>1, EmptySeq DEF Done

\* An operation that runs alone, while no device is plugged in or out, ends in the
\* route it is named for: the direct links and nothing on the amplifier, the whole
\* chain and no way around it, or silence.
THEOREM RoutesEnd == Spec => []EndsInRoute
<1>1. ASSUME RoutesInv
      PROVE  EndsInRoute
  <2>1. /\ TypeOK /\ PlanInv /\ World /\ \A x : Done(last, x)
        /\ DryInv(last) /\ StopInv(last) /\ AmpInv(last) /\ StatusInv(last)
    BY <1>1, AllDone, Types DEF RoutesInv, OperationInv
  <2>2. DirectIsDry
    <3>1. SUFFICES ASSUME last.op = "direct", Clean(last, {"overlap", "gave_up", "unplugged"})
                   PROVE  /\ Dry(last.config) = AsSet(DirectLinks(last.config))
                          /\ Wet = {} /\ last.route = "direct"
      BY DEF DirectIsDry, Ended, Clean
    <3>2. Dry(last.config) = AsSet(DirectLinks(last.config))
      BY <2>1, <3>1 DEF DryInv, DrySoFar, Clean
    <3>3. Wet = {}
      BY <2>1, <3>1 DEF StopInv
    <3>4. last.route = "direct"
      BY <2>1, <3>1 DEF StatusInv, Reports, RouteOf, Clean
    <3> QED
      BY <3>2, <3>3, <3>4
  <2>3. AmpIsWet
    <3>1. SUFFICES ASSUME last.op \in {"amp", "tone"},
                          Clean(last, {"overlap", "abandoned", "died", "unplugged"})
                   PROVE  /\ AsSet(AmpLinks(last.config)) \subseteq links
                          /\ Dry(last.config) = {}
                          /\ \A p \in WithPorts : proc[p].state = "running"
                          /\ last.op = "amp" => last.route = "amp"
      BY DEF AmpIsWet, Ended, Clean
    <3>2. /\ AsSet(AmpLinks(last.config)) \subseteq links
          /\ \A p \in Procs : proc[p].state # "dying"
      BY <2>1, <3>1 DEF AmpInv
    <3>3. Dry(last.config) = {}
      BY <2>1, <3>1 DEF DryInv, DrySoFar, Clean
    <3>4. \A p \in WithPorts : proc[p].state = "running"
      BY <2>1, <3>2 DEF World, Running
    <3>5. last.op = "amp" => last.route = "amp"
      BY <2>1, <3>1 DEF StatusInv, Reports, RouteOf, Clean
    <3> QED
      BY <3>2, <3>3, <3>4, <3>5
  <2>4. DisconnectSilences
    <3>1. SUFFICES ASSUME last.op = "disconnect",
                          Clean(last, {"overlap", "gave_up", "unplugged"})
                   PROVE  Dry(last.config) = {} /\ Wet = {} /\ last.route = "off"
      BY DEF DisconnectSilences, Ended, Clean
    <3>2. Dry(last.config) = {}
      BY <2>1, <3>1 DEF DryInv, DrySoFar, Clean
    <3>3. Wet = {}
      BY <2>1, <3>1 DEF StopInv
    <3>4. last.route = "off"
      BY <2>1, <3>1 DEF StatusInv, Reports, RouteOf, Clean
    <3> QED
      BY <3>2, <3>3, <3>4
  <2> QED
    BY <2>1, <2>2, <2>3, <2>4 DEF EndsInRoute
<1> QED
  BY <1>1, RoutesInvariant, PTL

\* After a load_tone the second Guitarix has the tone that was set in the first,
\* by way of the settings that one saved when it was told to stop.
THEOREM ToneSurvives == Spec => []ToneSurvivesRestart
<1>1. ASSUME RoutesInv
      PROVE  ToneSurvivesRestart
  <2>1. World /\ PlanInv /\ ToneInv(last)
    BY <1>1, Types DEF RoutesInv, OperationInv
  <2>2. SUFFICES ASSUME last.op = "tone",
                        Clean(last, {"overlap", "gave_up", "abandoned", "died", "unheard",
                                     "wrapper"}),
                        NEW p \in WithPorts
                 PROVE  proc[p].tone = [preset |-> last.tone, params |-> last.tone]
    BY DEF ToneSurvivesRestart, Ended, Clean
  <2>3. Restarted(last.tone)
    BY <2>1, <2>2 DEF ToneInv, PlanInv
  <2>4. p \in Procs /\ proc[p].state \in {"running", "dying"}
    BY <2>1, <2>2 DEF World, Running
  <2> QED
    BY <2>3, <2>4 DEF Restarted, Whole
<1> QED
  BY <1>1, RoutesInvariant, PTL
=============================================================================
