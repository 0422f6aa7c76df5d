------------------------ MODULE EngineControllerProofs ------------------------
(***************************************************************************)
(* Proofs about EngineController, for any number of worker threads and of  *)
(* calls.                                                                  *)
(***************************************************************************)
EXTENDS EngineController, FiniteSetTheorems, TLAPS

-----------------------------------------------------------------------------
(* Lemmas about one step of a thread.                                      *)

\* A thread that takes a step is where it goes to, and the others stay.
LEMMA OneMoves ==
  ASSUME TypeOK, NEW w \in Threads, NEW label, Goto(w, label)
  PROVE  /\ \A v \in Threads : pc'[v] = IF v = w THEN label ELSE pc[v]
         /\ pc'[w] = label
BY DEF TypeOK, Goto

\* While calls come one at a time, a thread at work is alone at work.
LEMMA Alone ==
  ASSUME ThreadsInv, ~overlapped, NEW w \in Threads, pc[w] # "idle"
  PROVE  \A v \in Threads : v # w => pc[v] = "idle"
BY DEF ThreadsInv

\* The threads that have still to write their request are finitely many.
LEMMA WritersAreFinite ==
  IsFiniteSet(Writers) /\ Cardinality(Writers) \in Nat
<1>1. IsFiniteSet(Threads)
  BY ControllerAssumption, FS_AddElement DEF Threads
<1>2. Writers \subseteq Threads
  BY DEF Writers
<1> QED
  BY <1>1, <1>2, FS_Subset, FS_CardinalityType

\* A step of one thread changes their number by one at most.
LEMMA WritersChange ==
  ASSUME TypeOK, NEW w \in Threads, NEW label, Goto(w, label)
  PROVE  /\ Cardinality(Writers') \in Nat
         /\ (label \in ToWrite <=> pc[w] \in ToWrite)
              => Cardinality(Writers') = Cardinality(Writers)
         /\ label \in ToWrite /\ pc[w] \notin ToWrite
              => Cardinality(Writers') = Cardinality(Writers) + 1
         /\ label \notin ToWrite /\ pc[w] \in ToWrite
              => Cardinality(Writers') = Cardinality(Writers) - 1
<1>1. \A v \in Threads : pc'[v] = IF v = w THEN label ELSE pc[v]
  BY OneMoves
<1>2. IsFiniteSet(Writers) /\ Cardinality(Writers) \in Nat
  BY WritersAreFinite
<1>3. CASE label \in ToWrite <=> pc[w] \in ToWrite
  <2>1. Writers' = Writers
    BY <1>1, <1>3 DEF Writers
  <2> QED
    BY <1>2, <1>3, <2>1
<1>4. CASE label \in ToWrite /\ pc[w] \notin ToWrite
  <2>1. Writers' = Writers \cup {w} /\ w \notin Writers
    BY <1>1, <1>4 DEF Writers
  <2>2. Cardinality(Writers \cup {w}) = Cardinality(Writers) + 1
    BY <1>2, <2>1, FS_AddElement
  <2> QED
    BY <1>2, <1>4, <2>1, <2>2
<1>5. CASE label \notin ToWrite /\ pc[w] \in ToWrite
  <2>1. Writers' = Writers \ {w} /\ w \in Writers
    BY <1>1, <1>5 DEF Writers
  <2>2. Cardinality(Writers \ {w}) = Cardinality(Writers) - 1
    BY <1>2, <2>1, FS_RemoveElement
  <2>3. Cardinality(Writers \ {w}) \in Nat
    BY <1>2, FS_RemoveElement, FS_CardinalityType
  <2> QED
    BY <1>5, <2>1, <2>2, <2>3
<1> QED
  BY <1>3, <1>4, <1>5

\* Counts that a step changes by what one call writes stay within a bound.
LEMMA Sums ==
  ASSUME NEW a \in Nat, NEW b \in Nat, NEW a2 \in Nat, NEW b2 \in Nat, NEW n \in Nat,
         NEW n2 \in Nat, NEW z \in {0, 1}, NEW bound \in Nat,
         a + b + n <= bound, a2 + b2 <= a + b + z, n2 = n - z
  PROVE  a2 + b2 + n2 <= bound
OBVIOUS

\* What is under way and what is still to be written stay within the calls when a
\* thread writes one request at most and writes no more afterwards.
LEMMA CountKept ==
  ASSUME TypeOK, TypeOK', CountInv, NEW w \in Threads, NEW label, Goto(w, label),
         label \in ToWrite => pc[w] \in ToWrite, UNCHANGED <<calls, stopping>>,
         \A k \in Calls :
           Len(up'[k]) + Len(down'[k]) <=
             Len(up[k]) + Len(down[k])
               + (IF pc[w] \in ToWrite /\ label \notin ToWrite THEN 1 ELSE 0)
  PROVE  CountInv'
<1> SUFFICES ASSUME NEW k \in Calls
             PROVE  Len(up'[k]) + Len(down'[k]) + Cardinality(Writers') <= Asked'
  BY DEF CountInv
<1>1. /\ Len(up[k]) \in Nat /\ Len(down[k]) \in Nat
      /\ Len(up'[k]) \in Nat /\ Len(down'[k]) \in Nat
  <2>1. /\ up[k] \in Seq(Calls \cup {Quit}) /\ up'[k] \in Seq(Calls \cup {Quit})
        /\ down[k] \in Seq(Calls \cup {Quit, Garbage})
        /\ down'[k] \in Seq(Calls \cup {Quit, Garbage})
    BY DEF TypeOK
  <2> QED
    BY <2>1
<1>2. Len(up[k]) + Len(down[k]) + Cardinality(Writers) <= Asked /\ Asked' = Asked
      /\ Asked \in Nat
  BY ControllerAssumption DEF CountInv, Asked, TypeOK
<1>3. Cardinality(Writers) \in Nat /\ Cardinality(Writers') \in Nat
  BY WritersAreFinite, WritersChange
<1> DEFINE z == IF pc[w] \in ToWrite /\ label \notin ToWrite THEN 1 ELSE 0
           a == Len(up[k])
           b == Len(down[k])
           a2 == Len(up'[k])
           b2 == Len(down'[k])
           n == Cardinality(Writers)
           n2 == Cardinality(Writers')
           bound == Asked
           bound2 == Asked'
<1>4. z \in {0, 1} /\ n2 = n - z
  BY <1>3, WritersChange
<1>5. a2 + b2 <= a + b + z
  OBVIOUS
<1>6. /\ a \in Nat /\ b \in Nat /\ a2 \in Nat /\ b2 \in Nat /\ n \in Nat
      /\ n2 \in Nat /\ bound \in Nat /\ a + b + n <= bound /\ bound2 = bound
  BY <1>1, <1>2, <1>3
<1> SUFFICES a2 + b2 + n2 <= bound2
  OBVIOUS
<1> HIDE DEF z, a, b, a2, b2, n, n2, bound, bound2
<1> QED
  BY <1>4, <1>5, <1>6, Sums

\* Nothing under way changes, and nobody begins to write.
LEMMA CountKeptQuietly ==
  ASSUME TypeOK, TypeOK', CountInv, NEW w \in Threads, NEW label, Goto(w, label),
         label \in ToWrite => pc[w] \in ToWrite,
         UNCHANGED <<up, down, calls, stopping>>
  PROVE  CountInv'
<1>1. ASSUME NEW k \in Calls
      PROVE  Len(up'[k]) + Len(down'[k]) <=
               Len(up[k]) + Len(down[k])
                 + (IF pc[w] \in ToWrite /\ label \notin ToWrite THEN 1 ELSE 0)
  <2>1. up[k] \in Seq(Calls \cup {Quit}) /\ down[k] \in Seq(Calls \cup {Quit, Garbage})
    BY DEF TypeOK
  <2> DEFINE a == Len(up[k])
             b == Len(down[k])
             z == IF pc[w] \in ToWrite /\ label \notin ToWrite THEN 1 ELSE 0
  <2>2. a \in Nat /\ b \in Nat /\ z \in {0, 1} /\ Len(up'[k]) = a /\ Len(down'[k]) = b
    BY <2>1
  <2>3. a + b <= a + b + z
    <3> HIDE DEF a, b, z
    <3> QED
      BY <2>2
  <2> QED
    BY <2>2, <2>3
<1> QED
  BY <1>1, CountKept

\* One more is asked for: a call begins, or shutdown() does.
LEMMA CountGrows ==
  ASSUME TypeOK, CountInv, NEW w \in Threads, NEW label, Goto(w, label),
         pc[w] \notin ToWrite, UNCHANGED <<up, down>>, Asked' = Asked + 1
  PROVE  CountInv'
<1> SUFFICES ASSUME NEW k \in Calls
             PROVE  Len(up[k]) + Len(down[k]) + Cardinality(Writers') <= Asked'
  BY DEF CountInv
<1>1. up[k] \in Seq(Calls \cup {Quit}) /\ down[k] \in Seq(Calls \cup {Quit, Garbage})
  BY DEF TypeOK
<1>2. /\ Len(up[k]) \in Nat /\ Len(down[k]) \in Nat
      /\ Cardinality(Writers) \in Nat /\ Cardinality(Writers') \in Nat
      /\ Cardinality(Writers') <= Cardinality(Writers) + 1
  BY <1>1, WritersAreFinite, WritersChange
<1>3. Len(up[k]) + Len(down[k]) + Cardinality(Writers) <= Asked /\ Asked \in Nat
  BY ControllerAssumption DEF CountInv, Asked, TypeOK
<1> DEFINE a == Len(up[k])
           b == Len(down[k])
           n == Cardinality(Writers)
           n2 == Cardinality(Writers')
           bound == Asked
           bound2 == Asked'
<1>4. /\ a \in Nat /\ b \in Nat /\ n \in Nat /\ n2 \in Nat /\ n2 <= n + 1
      /\ bound \in Nat /\ bound2 = bound + 1 /\ a + b + n <= bound
  BY <1>2, <1>3
<1>5. a + b + n2 <= bound2
  <2> HIDE DEF a, b, n, n2, bound, bound2
  <2> QED
    BY <1>4
<1> QED
  BY <1>5

\* What the threads hold: it is enough to look at the thread that moves.
LEMMA HoldsKept ==
  ASSUME TypeOK, ThreadsInv, HoldsInv, NEW w \in Threads, NEW label, Goto(w, label),
         pc[w] # "idle", UNCHANGED <<num, calls>>,
         \A k \in Calls : peer[k] # None => peer'[k] # None,
         \A k \in Calls : k > calls => peer'[k] = None,
         \A k \in Calls : peer'[k] = None => Quiet(k)',
         socket # None => socket' # None, stream # None => stream' # None,
         \A c \in {socket', stream'} : c # None => peer'[c] # None,
         \A v \in Threads : v # w => reading'[v] = reading[v],
         label \in {"set_socket", "set_stream"} => peer'[num[w]] # None,
         w \in Workers /\ label \in {"set_stream", "call", "read", "readline"}
           => socket' # None,
         label = "read" => stream' # None,
         label = "readline" => reading'[w] # None
  PROVE  HoldsInv'
<1>1. \A v \in Threads : pc'[v] = IF v = w THEN label ELSE pc[v]
  BY OneMoves
<1>2. ASSUME NEW v \in Workers
      PROVE  /\ pc'[v] # "idle" => num[v] \in 1 .. calls
             /\ pc'[v] \in {"set_socket", "set_stream"} => peer'[num[v]] # None
             /\ pc'[v] \in {"set_stream", "call", "read", "readline"} => socket' # None
  <2>1. v \in Threads /\ v # App
    BY ControllerAssumption DEF Threads
  <2>2. /\ pc[v] # "idle" => num[v] \in 1 .. calls
        /\ pc[v] \in {"set_socket", "set_stream"} => peer[num[v]] # None
        /\ pc[v] \in {"set_stream", "call", "read", "readline"} => socket # None
    BY DEF HoldsInv
  <2>3. pc[v] # "idle" => num[v] \in Calls
    BY <2>2, ControllerAssumption DEF TypeOK, Calls
  <2> QED
    BY <1>1, <2>1, <2>2, <2>3
<1>3. ASSUME NEW v \in Threads
      PROVE  /\ pc'[v] = "read" => stream' # None
             /\ pc'[v] = "readline" => reading'[v] # None
  BY <1>1 DEF HoldsInv
<1> QED
  BY <1>2, <1>3 DEF HoldsInv, InUseIsConnected

\* While nobody waits for a response, a stream that can be read is empty.
LEMMA NobodyWaits ==
  ASSUME SyncInv, ~overlapped, stream \notin broken \cup {None},
         \A v \in Threads : pc[v] \notin {"read", "readline"}
  PROVE  Quiet(stream)
BY DEF SyncInv

\* One call at a time: a step that neither writes nor reads keeps the stream in step
\* if it leaves one that is empty.
LEMMA SyncKept ==
  ASSUME TypeOK, SyncInv, ~overlapped, NEW w \in Threads, NEW label, Goto(w, label),
         \A v \in Threads : v # w => pc[v] = "idle",
         label \notin {"read", "readline"}, UNCHANGED <<up, down>>,
         w # App /\ label \in {"ensure", "spawn", "connect"} => peer'[num'[w]] = None,
         w # App /\ label \in {"set_socket", "set_stream"} => Quiet(num'[w]),
         stream' \notin broken' \cup {None} => Quiet(stream')
  PROVE  SyncInv'
<1>1. \A v \in Threads : pc'[v] = IF v = w THEN label ELSE "idle"
  BY OneMoves
<1>2. \A k \in Calls : \A i \in 1 .. Len(down'[k]) : down'[k][i] # Garbage
  BY DEF SyncInv
<1>3. \A v \in Threads : pc'[v] # "readline"
  BY <1>1
<1>4. ASSUME NEW v \in Workers
      PROVE  /\ pc'[v] \in {"ensure", "spawn", "connect"} => peer'[num'[v]] = None
             /\ pc'[v] \in {"set_socket", "set_stream"} => Quiet(num[v])'
  <2>1. v \in Threads /\ v # App
    BY ControllerAssumption DEF Threads
  <2> QED
    BY <1>1, <2>1 DEF Quiet
<1>5. stream' \notin broken' \cup {None} => Quiet(stream)'
  BY DEF Quiet
<1> QED
  BY <1>2, <1>3, <1>4, <1>5 DEF SyncInv

\* How a call ends: the application closes its client and goes on to terminate
\* the engine, a worker leaves the connection as it is.
LEMMA CallEnds ==
  ASSUME NEW w \in Threads, CallOver(w)
  PROVE  /\ Goto(w, IF w = App THEN "terminate" ELSE "idle")
         /\ reading' = [reading EXCEPT ![w] = None]
         /\ w = App => socket' = None /\ stream' = None
         /\ w # App => socket' = socket /\ stream' = stream
BY DEF CallOver

\* A call ends well when nothing is left on a stream that can be read.
LEMMA CallOverKeeps ==
  ASSUME ControllerInv, NEW w \in Threads, CallOver(w),
         pc[w] \in {"call", "readline"},
         UNCHANGED <<engine, process, peer, up, calls, num, overlapped, stopping>>,
         broken' \subseteq Calls,
         result' \in [Threads -> Calls \cup {None, Quit}],
         down' \in [Calls -> Seq(Calls \cup {Quit, Garbage})],
         \A k \in Calls : Len(down'[k]) <= Len(down[k]),
         ~overlapped =>
           /\ \A k \in Calls : \A i \in 1 .. Len(down'[k]) : down'[k][i] # Garbage
           /\ w # App /\ stream \notin broken' \cup {None} => Quiet(stream)',
         OwnResponse'
  PROVE  ControllerInv'
<1> DEFINE label == IF w = App THEN "terminate" ELSE "idle"
<1>0. /\ TypeOK /\ ThreadsInv /\ HoldsInv /\ CountInv /\ LifeInv /\ SyncInv
      /\ \A v \in Threads : pc'[v] = IF v = w THEN label ELSE pc[v]
      /\ \A v \in Workers : v \in Threads /\ v # App
  BY CallEnds, OneMoves, ControllerAssumption DEF ControllerInv, Threads
<1>1. TypeOK'
  <2>1. pc' = [pc EXCEPT ![w] = label] /\ reading' = [reading EXCEPT ![w] = None]
        /\ socket' \in {socket, None} /\ stream' \in {stream, None}
    BY CallEnds DEF Goto
  <2> QED
    BY <1>0, <2>1 DEF TypeOK
<1>2. ThreadsInv'
  BY <1>0 DEF ThreadsInv, Quitting, Threads
<1>3. HoldsInv'
  <2>1. CASE w = App
    <3>1. \A v \in Workers : pc'[v] = "idle"
      BY <1>0, <2>1 DEF ThreadsInv
    <3>2. \A v \in Threads : pc'[v] \notin {"read", "readline"}
      BY <1>0, <2>1, <3>1 DEF Threads
    <3>3. socket' = None /\ stream' = None
      BY <2>1, CallEnds
    <3>4. \A k \in Calls : peer[k] = None => Quiet(k)'
      BY <1>0, <1>1 DEF HoldsInv, Quiet, TypeOK
    <3> QED
      BY <1>0, <3>1, <3>2, <3>3, <3>4 DEF HoldsInv, InUseIsConnected
  <2>2. CASE w # App
    <3>1. /\ socket' = socket /\ stream' = stream
          /\ \A v \in Threads : v # w => reading'[v] = reading[v]
      BY <1>0, <2>2, CallEnds DEF TypeOK
    <3>2. \A k \in Calls : peer[k] = None => Quiet(k)'
      BY <1>0, <1>1 DEF HoldsInv, Quiet, TypeOK
    <3> QED
      BY <1>0, <2>2, <3>1, <3>2 DEF HoldsInv, InUseIsConnected
  <2> QED
    BY <2>1, <2>2
<1>4. CountInv'
  <2>1. Goto(w, label) /\ label \notin ToWrite
    BY CallEnds DEF ToWrite
  <2>2. ASSUME NEW k \in Calls
        PROVE  Len(up'[k]) + Len(down'[k]) <=
                 Len(up[k]) + Len(down[k])
                   + (IF pc[w] \in ToWrite /\ label \notin ToWrite THEN 1 ELSE 0)
    <3>1. Len(up[k]) \in Nat /\ Len(down[k]) \in Nat /\ Len(down'[k]) \in Nat
      <4>1. /\ up[k] \in Seq(Calls \cup {Quit})
            /\ down[k] \in Seq(Calls \cup {Quit, Garbage})
            /\ down'[k] \in Seq(Calls \cup {Quit, Garbage})
        BY <1>0, <1>1 DEF TypeOK
      <4> QED
        BY <4>1
    <3>2. up' = up /\ Len(down'[k]) <= Len(down[k])
      OBVIOUS
    <3> DEFINE a == Len(up[k])
               b == Len(down[k])
               b2 == Len(down'[k])
               z == IF pc[w] \in ToWrite /\ label \notin ToWrite THEN 1 ELSE 0
    <3>3. /\ a \in Nat /\ b \in Nat /\ b2 \in Nat /\ z \in {0, 1} /\ b2 <= b
          /\ Len(up'[k]) = a
      BY <3>1, <3>2
    <3>4. a + b2 <= a + b + z
      <4> HIDE DEF a, b, b2, z
      <4> QED
        BY <3>3
    <3> QED
      BY <3>3, <3>4
  <2> QED
    BY <1>0, <1>1, <2>1, <2>2, CountKept
<1>5. LifeInv'
  <2> SUFFICES ASSUME ~overlapped
               PROVE  LifeInv'
    BY DEF LifeInv
  <2>1. \A v \in Threads : v # w => pc[v] = "idle"
    BY <1>0, Alone
  <2>2. process # None => socket # None
    BY <1>0, <2>1 DEF LifeInv, Connecting
  <2>3. process # None => socket' # None \/ pc'[w] \in Connecting
    BY <1>0, <2>2, CallEnds DEF Connecting
  <2>4. \A v \in Workers : pc'[v] # "spawn"
    BY <1>0, <2>1
  <2>5. stopping => w = App /\ pc'[App] # "idle"
    BY <1>0 DEF ThreadsInv, Threads
  <2> QED
    BY <1>0, <2>3, <2>4, <2>5 DEF LifeInv
<1>6. SyncInv'
  <2> SUFFICES ASSUME ~overlapped
               PROVE  SyncInv'
    BY DEF SyncInv
  <2>1. \A v \in Threads : pc'[v] \in {"idle", "terminate"}
    BY <1>0, Alone
  <2>2. stream' \notin broken' \cup {None} => w # App /\ stream' = stream
    BY CallEnds
  <2> QED
    BY <1>0, <2>1, <2>2 DEF SyncInv
<1> QED
  BY <1>1, <1>2, <1>3, <1>4, <1>5, <1>6 DEF ControllerInv

-----------------------------------------------------------------------------
(* The invariant holds at first, and every action keeps it.  In each proof *)
(* <1>1 names the parts of the invariant, <1>2 says what the action does   *)
(* and <1>3 where it leaves the threads.                                   *)

\* The initial state satisfies the invariant.
LEMMA ControllerInit == Init => ControllerInv
<1> SUFFICES ASSUME Init
             PROVE  ControllerInv
  OBVIOUS
<1>1. TypeOK
  <2>1. <<>> \in Seq(Calls \cup {Quit}) /\ <<>> \in Seq(Calls \cup {Quit, Garbage})
    OBVIOUS
  <2>2. up \in [Calls -> Seq(Calls \cup {Quit})]
        /\ down \in [Calls -> Seq(Calls \cup {Quit, Garbage})]
    BY <2>1 DEF Init
  <2>3. 0 \in 0 .. MaxCalls
    BY ControllerAssumption
  <2> QED
    BY <2>2, <2>3 DEF Init, TypeOK
<1>2. \A v \in Threads : pc[v] = "idle" /\ result[v] = None
  BY DEF Init
<1>3. \A v \in Workers : pc[v] = "idle" /\ result[v] = None
  BY <1>2 DEF Threads
<1>4. ThreadsInv
  BY <1>2, <1>3 DEF ThreadsInv, Threads
<1>5. \A k \in Calls : Quiet(k) /\ peer[k] = None
  BY DEF Init, Quiet
<1>6. HoldsInv
  <2>1. InUseIsConnected
    BY DEF Init, InUseIsConnected
  <2> QED
    BY <1>2, <1>3, <1>5, <2>1 DEF HoldsInv
<1>7. CountInv
  <2>1. Cardinality(Writers) = 0
    <3>1. Writers = {}
      BY <1>2 DEF Writers, ToWrite
    <3> QED
      BY <3>1, FS_EmptySet
  <2>2. Asked = 0
    BY DEF Init, Asked
  <2>3. \A k \in Calls : Len(up[k]) = 0 /\ Len(down[k]) = 0
    BY <1>5 DEF Quiet
  <2> SUFFICES ASSUME NEW k \in Calls
               PROVE  Len(up[k]) + Len(down[k]) + Cardinality(Writers) <= Asked
    BY DEF CountInv
  <2>4. Len(up[k]) = 0 /\ Len(down[k]) = 0
    BY <2>3
  <2> DEFINE a == Len(up[k])
             b == Len(down[k])
             n == Cardinality(Writers)
             bound == Asked
  <2>5. a + b + n <= bound
    <3>1. a = 0 /\ b = 0 /\ n = 0 /\ bound = 0
      BY <2>1, <2>2, <2>4
    <3> HIDE DEF a, b, n, bound
    <3> QED
      BY <3>1
  <2> QED
    BY <2>5
<1>8. OwnResponse
  BY <1>3 DEF OwnResponse
<1>9. LifeInv
  BY <1>2, <1>3 DEF Init, LifeInv
<1>10. SyncInv
  <2>1. \A k \in Calls : \A i \in 1 .. Len(down[k]) : down[k][i] # Garbage
    BY <1>5 DEF Quiet
  <2>2. stream = None
    BY DEF Init
  <2> QED
    BY <1>2, <1>3, <2>1, <2>2 DEF SyncInv
<1> QED
  BY <1>1, <1>4, <1>6, <1>7, <1>8, <1>9, <1>10 DEF ControllerInv

\* A request arrives.
LEMMA BeginStep ==
  ASSUME ControllerInv, NEW w \in Workers, Begin(w)
  PROVE  ControllerInv'
<1>1. /\ TypeOK /\ ThreadsInv /\ HoldsInv /\ CountInv /\ OwnResponse
      /\ LifeInv /\ SyncInv
  BY DEF ControllerInv
<1>2. /\ pc[w] = "idle" /\ Goto(w, "ensure") /\ ~stopping
      /\ calls < MaxCalls /\ calls' = calls + 1
      /\ num' = [num EXCEPT ![w] = calls + 1]
      /\ result' = [result EXCEPT ![w] = None]
      /\ overlapped' = (overlapped \/ ~Idle)
      /\ UNCHANGED <<engine, process, socket, stream, peer, up, down, broken,
                    reading, stopping>>
  BY DEF Begin, fields, wire
<1>3. \A v \in Threads : pc'[v] = IF v = w THEN "ensure" ELSE pc[v]
  BY <1>1, <1>2, OneMoves, ControllerAssumption DEF Threads
<1>4. TypeOK'
  <2>1. calls + 1 \in Calls /\ calls + 1 \in 0 .. MaxCalls
    BY <1>1, <1>2, ControllerAssumption DEF TypeOK, Calls
  <2>2. w \in Threads /\ overlapped' \in BOOLEAN
    BY <1>1, <1>2 DEF Threads, TypeOK
  <2> QED
    BY <1>1, <1>2, <2>1, <2>2 DEF TypeOK, Goto
<1>5. ThreadsInv'
  <2>1. w \in Threads /\ w # App
    BY ControllerAssumption DEF Threads
  <2>2. ~overlapped' => \A v \in Threads : pc'[v] # "idle" => v = w
    BY <1>2, <1>3 DEF Idle
  <2> QED
    BY <1>1, <1>2, <1>3, <2>1, <2>2 DEF ThreadsInv, Quitting, Threads
<1>6. HoldsInv'
  <2>1. calls \in Nat /\ MaxCalls \in Nat
    BY <1>1, ControllerAssumption DEF TypeOK
  <2>2. ASSUME NEW v \in Workers
        PROVE  /\ pc'[v] # "idle" => num'[v] \in 1 .. calls'
               /\ pc'[v] \in {"set_socket", "set_stream"} => peer'[num'[v]] # None
               /\ pc'[v] \in {"set_stream", "call", "read", "readline"}
                    => socket' # None
    <3>1. v \in Threads /\ w \in Threads
      BY DEF Threads
    <3>2. CASE v = w
      BY <1>1, <1>2, <1>3, <2>1, <3>1, <3>2 DEF TypeOK
    <3>3. CASE v # w
      <4>1. pc'[v] = pc[v] /\ num'[v] = num[v]
        BY <1>1, <1>2, <1>3, <3>1, <3>3 DEF TypeOK
      <4>2. pc[v] # "idle" => num[v] \in 1 .. calls
        BY <1>1 DEF HoldsInv
      <4>3. pc[v] # "idle" => num[v] \in 1 .. calls'
        BY <1>2, <2>1, <4>2
      <4> QED
        BY <1>1, <1>2, <4>1, <4>3 DEF HoldsInv
    <3> QED
      BY <3>2, <3>3
  <2>3. \A v \in Threads : /\ pc'[v] = "read" => stream' # None
                           /\ pc'[v] = "readline" => reading'[v] # None
    BY <1>1, <1>2, <1>3 DEF HoldsInv
  <2>4. \A k \in Calls : k > calls' => k > calls
    BY <1>2, <2>1 DEF Calls
  <2>5. /\ \A k \in Calls : k > calls' => peer'[k] = None
        /\ \A k \in Calls : peer'[k] = None => Quiet(k)'
        /\ InUseIsConnected'
    BY <1>1, <1>2, <2>4 DEF HoldsInv, InUseIsConnected, Quiet
  <2> QED
    BY <2>2, <2>3, <2>5 DEF HoldsInv
<1>7. CountInv'
  <2>1. w \in Threads /\ pc[w] \notin ToWrite
    BY <1>2 DEF Threads, ToWrite
  <2>2. Asked' = Asked + 1
    BY <1>1, <1>2 DEF Asked, TypeOK
  <2> QED
    BY <1>1, <1>2, <2>1, <2>2, CountGrows
<1>8. OwnResponse'
  <2>1. \A v \in Workers : result'[v] = (IF v = w THEN None ELSE result[v])
                           /\ (v # w => num'[v] = num[v])
    BY <1>1, <1>2 DEF TypeOK, Threads
  <2> QED
    BY <1>1, <2>1 DEF OwnResponse
<1>9. LifeInv'
  <2> SUFFICES ASSUME ~overlapped'
               PROVE  LifeInv'
    BY DEF LifeInv
  <2>1. ~overlapped /\ w \in Threads /\ \A v \in Threads : pc[v] = "idle"
    BY <1>2 DEF Idle, Threads
  <2>2. \A v \in Workers : pc'[v] # "spawn"
    BY <1>3, <2>1 DEF Threads
  <2> QED
    BY <1>1, <1>2, <2>1, <2>2 DEF LifeInv, Connecting
<1>10. SyncInv'
  <2> SUFFICES ASSUME ~overlapped'
               PROVE  SyncInv'
    BY DEF SyncInv
  <2>1. ~overlapped /\ w \in Threads /\ \A v \in Threads : pc[v] = "idle"
    BY <1>2 DEF Idle, Threads
  <2>2. stream \notin broken \cup {None} => Quiet(stream)
    BY <1>1, <2>1, NobodyWaits
  <2>3. calls + 1 \in Calls /\ calls + 1 > calls /\ num'[w] = calls + 1
    BY <1>1, <1>2, <2>1, ControllerAssumption DEF TypeOK, Calls
  <2>4. peer'[num'[w]] = None
    BY <1>1, <1>2, <2>3 DEF HoldsInv
  <2> QED
    BY <1>1, <1>2, <2>1, <2>2, <2>4, SyncKept
<1> QED
  BY <1>4, <1>5, <1>6, <1>7, <1>8, <1>9, <1>10 DEF ControllerInv

\* The thread looks whether there is a client.
LEMMA EnsureStep ==
  ASSUME ControllerInv, NEW w \in Threads, Ensure(w)
  PROVE  ControllerInv'
<1>1. /\ TypeOK /\ ThreadsInv /\ HoldsInv /\ CountInv /\ OwnResponse
      /\ LifeInv /\ SyncInv
  BY DEF ControllerInv
<1>2. /\ pc[w] = "ensure" /\ Goto(w, IF socket # None THEN "call" ELSE "spawn")
      /\ UNCHANGED <<engine, process, socket, stream, peer, up, down, broken,
                    calls, num, reading, result, overlapped, stopping>>
  BY DEF Ensure, fields, wire
<1>3. \A v \in Threads :
        pc'[v] = IF v = w THEN IF socket # None THEN "call" ELSE "spawn" ELSE pc[v]
  BY <1>1, <1>2, OneMoves, ControllerAssumption DEF Threads
<1>4. TypeOK'
  BY <1>1, <1>2, ControllerAssumption DEF TypeOK, Goto, Threads
<1>5. ThreadsInv'
  BY <1>1, <1>2, <1>3, ControllerAssumption DEF ThreadsInv, Quitting, Threads
<1>6. HoldsInv'
  <2>1. /\ \A k \in Calls : k > calls => peer[k] = None
        /\ \A k \in Calls : peer[k] = None => Quiet(k)'
        /\ \A c \in {socket, stream} : c # None => peer[c] # None
    BY <1>1, <1>2 DEF HoldsInv, InUseIsConnected, Quiet
  <2> QED
    BY <1>1, <1>2, <2>1, HoldsKept
<1>7. CountInv'
  BY <1>1, <1>2, <1>4, CountKeptQuietly DEF ToWrite
<1>8. OwnResponse'
  BY <1>1, <1>2 DEF OwnResponse
<1>9. LifeInv'
  <2> SUFFICES ASSUME ~overlapped
               PROVE  LifeInv'
    BY <1>2 DEF LifeInv
  <2>1. \A v \in Threads : v # w => pc[v] = "idle"
    BY <1>1, <1>2, Alone
  <2> QED
    BY <1>1, <1>2, <1>3, <2>1, ControllerAssumption
       DEF LifeInv, Connecting, ThreadsInv, Threads
<1>10. SyncInv'
  <2> SUFFICES ASSUME ~overlapped
               PROVE  SyncInv'
    BY <1>2 DEF SyncInv
  <2>1. \A v \in Threads : v # w => pc[v] = "idle"
    BY <1>1, <1>2, Alone
  <2>2. stream \notin broken \cup {None} => Quiet(stream)
    BY <1>1, <1>2, <2>1, NobodyWaits
  <2>3. w \in Workers
    BY <1>1, <1>2 DEF ThreadsInv, Quitting, Threads
  <2>4. peer[num[w]] = None
    BY <1>1, <1>2, <2>3 DEF SyncInv
  <2> QED
    BY <1>1, <1>2, <2>1, <2>2, <2>4, SyncKept, ControllerAssumption
<1> QED
  BY <1>4, <1>5, <1>6, <1>7, <1>8, <1>9, <1>10 DEF ControllerInv

\* It spawns an engine,
LEMMA SpawnStep ==
  ASSUME ControllerInv, NEW w \in Threads, Spawn(w)
  PROVE  ControllerInv'
<1>1. /\ TypeOK /\ ThreadsInv /\ HoldsInv /\ CountInv /\ OwnResponse
      /\ LifeInv /\ SyncInv
  BY DEF ControllerInv
<1>2. /\ pc[w] = "spawn" /\ Goto(w, "connect")
      /\ engine' = [engine EXCEPT ![num[w]] = "booting"] /\ process' = num[w]
      /\ UNCHANGED <<socket, stream, peer, up, down, broken, calls, num,
                    reading, result, overlapped, stopping>>
  BY DEF Spawn, wire
<1>3. \A v \in Threads : pc'[v] = IF v = w THEN "connect" ELSE pc[v]
  BY <1>1, <1>2, OneMoves, ControllerAssumption DEF Threads
<1>4. TypeOK'
  BY <1>1, <1>2, ControllerAssumption DEF TypeOK, Goto, Threads
<1>5. ThreadsInv'
  BY <1>1, <1>2, <1>3, ControllerAssumption DEF ThreadsInv, Quitting, Threads
<1>6. HoldsInv'
  <2>1. /\ \A k \in Calls : k > calls => peer[k] = None
        /\ \A k \in Calls : peer[k] = None => Quiet(k)'
        /\ \A c \in {socket, stream} : c # None => peer[c] # None
    BY <1>1, <1>2 DEF HoldsInv, InUseIsConnected, Quiet
  <2> QED
    BY <1>1, <1>2, <2>1, HoldsKept
<1>7. CountInv'
  BY <1>1, <1>2, <1>4, CountKeptQuietly DEF ToWrite
<1>8. OwnResponse'
  BY <1>1, <1>2 DEF OwnResponse
<1>9. LifeInv'
  <2> SUFFICES ASSUME ~overlapped
               PROVE  LifeInv'
    BY <1>2 DEF LifeInv
  <2>1. \A v \in Threads : v # w => pc[v] = "idle"
    BY <1>1, <1>2, Alone
  <2>3. w \in Workers /\ w # App
    BY <1>1, <1>2, ControllerAssumption DEF ThreadsInv, Quitting, Threads
  <2>4. socket = None /\ process = None
    BY <1>1, <1>2, <2>1, <2>3 DEF LifeInv, Connecting
  <2>5. \A p \in Calls : engine[p] \notin {"booting", "listening"}
    BY <1>1, <2>4, ControllerAssumption DEF LifeInv, Calls, None
  <2> QED
    BY <1>1, <1>2, <1>3, <2>1, <2>3, <2>4, <2>5, ControllerAssumption
       DEF LifeInv, Connecting, ThreadsInv, Threads, TypeOK
<1>10. SyncInv'
  <2> SUFFICES ASSUME ~overlapped
               PROVE  SyncInv'
    BY <1>2 DEF SyncInv
  <2>1. \A v \in Threads : v # w => pc[v] = "idle"
    BY <1>1, <1>2, Alone
  <2>2. stream \notin broken \cup {None} => Quiet(stream)
    BY <1>1, <1>2, <2>1, NobodyWaits
  <2>3. w \in Workers /\ w # App
    BY <1>1, <1>2, ControllerAssumption DEF ThreadsInv, Quitting, Threads
  <2>4. peer[num[w]] = None
    BY <1>1, <1>2, <2>3 DEF SyncInv
  <2> QED
    BY <1>1, <1>2, <2>1, <2>2, <2>4, SyncKept, ControllerAssumption
<1> QED
  BY <1>4, <1>5, <1>6, <1>7, <1>8, <1>9, <1>10 DEF ControllerInv

\* connects to it,
LEMMA ConnectStep ==
  ASSUME ControllerInv, NEW w \in Threads, Connect(w)
  PROVE  ControllerInv'
<1>1. /\ TypeOK /\ ThreadsInv /\ HoldsInv /\ CountInv /\ OwnResponse
      /\ LifeInv /\ SyncInv
  BY DEF ControllerInv
<1>2. /\ pc[w] = "connect" /\ Goto(w, IF socket # None THEN "call" ELSE "set_socket")
      /\ \/ peer' = peer /\ socket # None
         \/ /\ socket = None
            /\ \E p \in Listening : peer' = [peer EXCEPT ![num[w]] = p]
      /\ UNCHANGED <<engine, process, socket, stream, up, down, broken, calls,
                    num, reading, result, overlapped, stopping>>
  BY DEF Connect, fields
<1>3. \A v \in Threads :
        pc'[v] = IF v = w THEN IF socket # None THEN "call" ELSE "set_socket" ELSE pc[v]
  BY <1>1, <1>2, OneMoves, ControllerAssumption DEF Threads
<1>4. TypeOK'
  BY <1>1, <1>2 DEF TypeOK, Goto, Listening
<1>5. ThreadsInv'
  BY <1>1, <1>2, <1>3, ControllerAssumption DEF ThreadsInv, Quitting, Threads
<1>6. HoldsInv'
  <2>1. w \in Workers /\ num[w] \in 1 .. calls
    BY <1>1, <1>2 DEF ThreadsInv, Quitting, Threads, HoldsInv
  <2>2. num[w] \in Calls
    BY <1>1, <2>1, ControllerAssumption DEF TypeOK, Calls
  <2>3. /\ \A k \in Calls : k # num[w] => peer'[k] = peer[k]
        /\ peer'[num[w]] = peer[num[w]] \/ peer'[num[w]] # None
        /\ socket = None => peer'[num[w]] # None
    <3>1. \A p \in Listening : p # None
      BY DEF Listening, Calls, None
    <3>2. CASE peer' = peer /\ socket # None
      BY <3>2
    <3>3. ASSUME socket = None, NEW p \in Listening,
                 peer' = [peer EXCEPT ![num[w]] = p]
          PROVE  /\ \A k \in Calls : k # num[w] => peer'[k] = peer[k]
                 /\ peer'[num[w]] # None
      BY <1>1, <2>2, <3>1, <3>3 DEF TypeOK
    <3> QED
      BY <1>2, <3>2, <3>3
  <2>4. /\ \A k \in Calls : k > calls => peer[k] = None
        /\ \A k \in Calls : peer[k] = None => Quiet(k)'
        /\ \A c \in {socket, stream} : c # None => peer[c] # None
    BY <1>1, <1>2 DEF HoldsInv, InUseIsConnected, Quiet
  <2>5. \A k \in Calls : k > calls => k # num[w]
    BY <1>1, <2>1, ControllerAssumption DEF TypeOK, Calls
  <2>6. \A c \in {socket, stream} : c # None => c \in Calls
    BY <1>1 DEF TypeOK
  <2> QED
    BY <1>1, <1>2, <2>1, <2>3, <2>4, <2>5, <2>6, HoldsKept
<1>7. CountInv'
  BY <1>1, <1>2, <1>4, CountKeptQuietly DEF ToWrite
<1>8. OwnResponse'
  BY <1>1, <1>2 DEF OwnResponse
<1>9. LifeInv'
  <2> SUFFICES ASSUME ~overlapped
               PROVE  LifeInv'
    BY <1>2 DEF LifeInv
  <2>1. \A v \in Threads : v # w => pc[v] = "idle"
    BY <1>1, <1>2, Alone
  <2> QED
    BY <1>1, <1>2, <1>3, <2>1, ControllerAssumption
       DEF LifeInv, Connecting, ThreadsInv, Threads
<1>10. SyncInv'
  <2> SUFFICES ASSUME ~overlapped
               PROVE  SyncInv'
    BY <1>2 DEF SyncInv
  <2>1. \A v \in Threads : v # w => pc[v] = "idle"
    BY <1>1, <1>2, Alone
  <2>2. stream \notin broken \cup {None} => Quiet(stream)
    BY <1>1, <1>2, <2>1, NobodyWaits
  <2>3. w \in Workers /\ w # App
    BY <1>1, <1>2, ControllerAssumption DEF ThreadsInv, Quitting, Threads
  <2>4. /\ num[w] \in Calls
        /\ socket = None => peer[num[w]] = None
    BY <1>1, <1>2, <2>3, ControllerAssumption DEF SyncInv, HoldsInv, TypeOK, Calls
  <2>5. socket = None => Quiet(num[w])
    BY <1>1, <2>4 DEF HoldsInv
  <2> QED
    BY <1>1, <1>2, <2>1, <2>2, <2>3, <2>4, <2>5, SyncKept, ControllerAssumption
<1> QED
  BY <1>4, <1>5, <1>6, <1>7, <1>8, <1>9, <1>10 DEF ControllerInv

\* or gives up,
LEMMA GiveUpStep ==
  ASSUME ControllerInv, NEW w \in Threads, GiveUp(w)
  PROVE  ControllerInv'
<1>1. /\ TypeOK /\ ThreadsInv /\ HoldsInv /\ CountInv /\ OwnResponse
      /\ LifeInv /\ SyncInv
  BY DEF ControllerInv
<1>2. /\ pc[w] = "connect" /\ Goto(w, "terminate")
      /\ UNCHANGED <<engine, process, socket, stream, peer, up, down, broken,
                    calls, num, reading, result, overlapped, stopping>>
  BY DEF GiveUp, fields, wire
<1>3. \A v \in Threads : pc'[v] = IF v = w THEN "terminate" ELSE pc[v]
  BY <1>1, <1>2, OneMoves, ControllerAssumption DEF Threads
<1>4. TypeOK'
  BY <1>1, <1>2, ControllerAssumption DEF TypeOK, Goto, Threads
<1>5. ThreadsInv'
  BY <1>1, <1>2, <1>3, ControllerAssumption DEF ThreadsInv, Quitting, Threads
<1>6. HoldsInv'
  <2>1. /\ \A k \in Calls : k > calls => peer[k] = None
        /\ \A k \in Calls : peer[k] = None => Quiet(k)'
        /\ \A c \in {socket, stream} : c # None => peer[c] # None
    BY <1>1, <1>2 DEF HoldsInv, InUseIsConnected, Quiet
  <2> QED
    BY <1>1, <1>2, <2>1, HoldsKept
<1>7. CountInv'
  BY <1>1, <1>2, <1>4, CountKeptQuietly DEF ToWrite
<1>8. OwnResponse'
  BY <1>1, <1>2 DEF OwnResponse
<1>9. LifeInv'
  <2> SUFFICES ASSUME ~overlapped
               PROVE  LifeInv'
    BY <1>2 DEF LifeInv
  <2>1. \A v \in Threads : v # w => pc[v] = "idle"
    BY <1>1, <1>2, Alone
  <2> QED
    BY <1>1, <1>2, <1>3, <2>1, ControllerAssumption
       DEF LifeInv, Connecting, ThreadsInv, Threads
<1>10. SyncInv'
  <2> SUFFICES ASSUME ~overlapped
               PROVE  SyncInv'
    BY <1>2 DEF SyncInv
  <2>1. \A v \in Threads : v # w => pc[v] = "idle"
    BY <1>1, <1>2, Alone
  <2>2. stream \notin broken \cup {None} => Quiet(stream)
    BY <1>1, <1>2, <2>1, NobodyWaits
  <2> QED
    BY <1>1, <1>2, <2>1, <2>2, SyncKept, ControllerAssumption
<1> QED
  BY <1>4, <1>5, <1>6, <1>7, <1>8, <1>9, <1>10 DEF ControllerInv

\* and takes note of the socket
LEMMA SetSocketStep ==
  ASSUME ControllerInv, NEW w \in Threads, SetSocket(w)
  PROVE  ControllerInv'
<1>1. /\ TypeOK /\ ThreadsInv /\ HoldsInv /\ CountInv /\ OwnResponse
      /\ LifeInv /\ SyncInv
  BY DEF ControllerInv
<1>2. /\ pc[w] = "set_socket" /\ Goto(w, "set_stream") /\ socket' = num[w]
      /\ UNCHANGED <<engine, process, stream, peer, up, down, broken, calls,
                    num, reading, result, overlapped, stopping>>
  BY DEF SetSocket, wire
<1>3. \A v \in Threads : pc'[v] = IF v = w THEN "set_stream" ELSE pc[v]
  BY <1>1, <1>2, OneMoves, ControllerAssumption DEF Threads
<1>4. TypeOK'
  BY <1>1, <1>2, ControllerAssumption DEF TypeOK, Goto, Threads
<1>5. ThreadsInv'
  BY <1>1, <1>2, <1>3, ControllerAssumption DEF ThreadsInv, Quitting, Threads
<1>6. HoldsInv'
  <2>1. /\ \A k \in Calls : k > calls => peer[k] = None
        /\ \A k \in Calls : peer[k] = None => Quiet(k)'
        /\ \A c \in {socket, stream} : c # None => peer[c] # None
    BY <1>1, <1>2 DEF HoldsInv, InUseIsConnected, Quiet
  <2>2. w \in Workers /\ num[w] \in 1 .. calls /\ peer[num[w]] # None
    BY <1>1, <1>2 DEF ThreadsInv, Quitting, Threads, HoldsInv
  <2>3. socket' # None
    BY <1>2, <2>2 DEF None
  <2> QED
    BY <1>1, <1>2, <2>1, <2>2, <2>3, HoldsKept
<1>7. CountInv'
  BY <1>1, <1>2, <1>4, CountKeptQuietly DEF ToWrite
<1>8. OwnResponse'
  BY <1>1, <1>2 DEF OwnResponse
<1>9. LifeInv'
  <2> SUFFICES ASSUME ~overlapped
               PROVE  LifeInv'
    BY <1>2 DEF LifeInv
  <2>1. \A v \in Threads : v # w => pc[v] = "idle"
    BY <1>1, <1>2, Alone
  <2>3. w \in Workers /\ w # App
    BY <1>1, <1>2, ControllerAssumption DEF ThreadsInv, Quitting, Threads
  <2>4. socket' # None
    BY <1>1, <1>2, <2>3 DEF HoldsInv, None
  <2> QED
    BY <1>1, <1>2, <1>3, <2>1, <2>3, <2>4, ControllerAssumption
       DEF LifeInv, Connecting, ThreadsInv, Threads
<1>10. SyncInv'
  <2> SUFFICES ASSUME ~overlapped
               PROVE  SyncInv'
    BY <1>2 DEF SyncInv
  <2>1. \A v \in Threads : v # w => pc[v] = "idle"
    BY <1>1, <1>2, Alone
  <2>2. stream \notin broken \cup {None} => Quiet(stream)
    BY <1>1, <1>2, <2>1, NobodyWaits
  <2>3. w \in Workers /\ w # App
    BY <1>1, <1>2, ControllerAssumption DEF ThreadsInv, Quitting, Threads
  <2>4. Quiet(num[w])
    BY <1>1, <1>2, <2>3 DEF SyncInv
  <2> QED
    BY <1>1, <1>2, <2>1, <2>2, <2>4, SyncKept, ControllerAssumption
<1> QED
  BY <1>4, <1>5, <1>6, <1>7, <1>8, <1>9, <1>10 DEF ControllerInv

\* and of the stream.
LEMMA SetStreamStep ==
  ASSUME ControllerInv, NEW w \in Threads, SetStream(w)
  PROVE  ControllerInv'
<1>1. /\ TypeOK /\ ThreadsInv /\ HoldsInv /\ CountInv /\ OwnResponse
      /\ LifeInv /\ SyncInv
  BY DEF ControllerInv
<1>2. /\ pc[w] = "set_stream" /\ Goto(w, "call") /\ stream' = num[w]
      /\ UNCHANGED <<engine, process, socket, peer, up, down, broken, calls,
                    num, reading, result, overlapped, stopping>>
  BY DEF SetStream, wire
<1>3. \A v \in Threads : pc'[v] = IF v = w THEN "call" ELSE pc[v]
  BY <1>1, <1>2, OneMoves, ControllerAssumption DEF Threads
<1>4. TypeOK'
  BY <1>1, <1>2, ControllerAssumption DEF TypeOK, Goto, Threads
<1>5. ThreadsInv'
  BY <1>1, <1>2, <1>3, ControllerAssumption DEF ThreadsInv, Quitting, Threads
<1>6. HoldsInv'
  <2>1. /\ \A k \in Calls : k > calls => peer[k] = None
        /\ \A k \in Calls : peer[k] = None => Quiet(k)'
        /\ \A c \in {socket, stream} : c # None => peer[c] # None
    BY <1>1, <1>2 DEF HoldsInv, InUseIsConnected, Quiet
  <2>2. w \in Workers /\ num[w] \in 1 .. calls /\ peer[num[w]] # None
        /\ socket # None
    BY <1>1, <1>2 DEF ThreadsInv, Quitting, Threads, HoldsInv
  <2>3. stream' # None
    BY <1>2, <2>2 DEF None
  <2> QED
    BY <1>1, <1>2, <2>1, <2>2, <2>3, HoldsKept
<1>7. CountInv'
  BY <1>1, <1>2, <1>4, CountKeptQuietly DEF ToWrite
<1>8. OwnResponse'
  BY <1>1, <1>2 DEF OwnResponse
<1>9. LifeInv'
  <2> SUFFICES ASSUME ~overlapped
               PROVE  LifeInv'
    BY <1>2 DEF LifeInv
  <2>1. \A v \in Threads : v # w => pc[v] = "idle"
    BY <1>1, <1>2, Alone
  <2> QED
    BY <1>1, <1>2, <1>3, <2>1, ControllerAssumption
       DEF LifeInv, Connecting, ThreadsInv, Threads
<1>10. SyncInv'
  <2> SUFFICES ASSUME ~overlapped
               PROVE  SyncInv'
    BY <1>2 DEF SyncInv
  <2>1. \A v \in Threads : v # w => pc[v] = "idle"
    BY <1>1, <1>2, Alone
  <2>2. stream \notin broken \cup {None} => Quiet(stream)
    BY <1>1, <1>2, <2>1, NobodyWaits
  <2>3. w \in Workers /\ w # App
    BY <1>1, <1>2, ControllerAssumption DEF ThreadsInv, Quitting, Threads
  <2>4. Quiet(num[w])
    BY <1>1, <1>2, <2>3 DEF SyncInv
  <2> QED
    BY <1>1, <1>2, <2>1, <2>2, <2>4, SyncKept, ControllerAssumption
<1> QED
  BY <1>4, <1>5, <1>6, <1>7, <1>8, <1>9, <1>10 DEF ControllerInv

\* It terminates the engine it remembers.
LEMMA TerminateStep ==
  ASSUME ControllerInv, NEW w \in Threads, Terminate(w)
  PROVE  ControllerInv'
<1>1. /\ TypeOK /\ ThreadsInv /\ HoldsInv /\ CountInv /\ OwnResponse
      /\ LifeInv /\ SyncInv
  BY DEF ControllerInv
<1>2. /\ pc[w] = "terminate" /\ Goto(w, "idle") /\ process' = None
      /\ engine' = IF process # None THEN [engine EXCEPT ![process] = "exited"]
                                     ELSE engine
      /\ UNCHANGED <<socket, stream, peer, up, down, broken, calls, num,
                    reading, result, overlapped, stopping>>
  BY DEF Terminate, wire
<1>3. \A v \in Threads : pc'[v] = IF v = w THEN "idle" ELSE pc[v]
  BY <1>1, <1>2, OneMoves, ControllerAssumption DEF Threads
<1>4. TypeOK'
  BY <1>1, <1>2, ControllerAssumption DEF TypeOK, Goto, Threads
<1>5. ThreadsInv'
  BY <1>1, <1>2, <1>3, ControllerAssumption DEF ThreadsInv, Quitting, Threads
<1>6. HoldsInv'
  <2>1. /\ \A k \in Calls : k > calls => peer[k] = None
        /\ \A k \in Calls : peer[k] = None => Quiet(k)'
        /\ \A c \in {socket, stream} : c # None => peer[c] # None
    BY <1>1, <1>2 DEF HoldsInv, InUseIsConnected, Quiet
  <2> QED
    BY <1>1, <1>2, <2>1, HoldsKept
<1>7. CountInv'
  BY <1>1, <1>2, <1>4, CountKeptQuietly DEF ToWrite
<1>8. OwnResponse'
  BY <1>1, <1>2 DEF OwnResponse
<1>9. LifeInv'
  <2> SUFFICES ASSUME ~overlapped
               PROVE  LifeInv'
    BY <1>2 DEF LifeInv
  <2>1. \A v \in Threads : v # w => pc[v] = "idle"
    BY <1>1, <1>2, Alone
  <2> QED
    BY <1>1, <1>2, <1>3, <2>1, ControllerAssumption
       DEF LifeInv, Connecting, ThreadsInv, Threads, TypeOK
<1>10. SyncInv'
  <2> SUFFICES ASSUME ~overlapped
               PROVE  SyncInv'
    BY <1>2 DEF SyncInv
  <2>1. \A v \in Threads : v # w => pc[v] = "idle"
    BY <1>1, <1>2, Alone
  <2>2. stream \notin broken \cup {None} => Quiet(stream)
    BY <1>1, <1>2, <2>1, NobodyWaits
  <2> QED
    BY <1>1, <1>2, <2>1, <2>2, SyncKept, ControllerAssumption
<1> QED
  BY <1>4, <1>5, <1>6, <1>7, <1>8, <1>9, <1>10 DEF ControllerInv

\* No stream: the call raises.
LEMMA CallNotConnectedStep ==
  ASSUME ControllerInv, NEW w \in Threads, CallNotConnected(w)
  PROVE  ControllerInv'
<1>1. TypeOK /\ SyncInv /\ OwnResponse
  BY DEF ControllerInv
<1>2. OwnResponse'
  BY <1>1 DEF CallNotConnected, OwnResponse
<1>3. /\ pc[w] = "call" /\ CallOver(w) /\ stream = None
      /\ UNCHANGED <<engine, process, peer, up, down, broken, calls, num, result,
                     overlapped, stopping>>
  BY DEF CallNotConnected, wire
<1>4. ~overlapped =>
        \A k \in Calls : \A i \in 1 .. Len(down'[k]) : down'[k][i] # Garbage
  BY <1>1, <1>3 DEF SyncInv
<1>5. \A k \in Calls : Len(down'[k]) <= Len(down[k])
  BY <1>1, <1>3 DEF TypeOK
<1> QED
  BY <1>1, <1>2, <1>3, <1>4, <1>5, CallOverKeeps DEF TypeOK

\* It writes its request
LEMMA WriteStep ==
  ASSUME ControllerInv, NEW w \in Threads, Write(w)
  PROVE  ControllerInv'
<1>1. /\ TypeOK /\ ThreadsInv /\ HoldsInv /\ CountInv /\ OwnResponse
      /\ LifeInv /\ SyncInv
  BY DEF ControllerInv
<1>2. /\ pc[w] = "call" /\ Goto(w, "read") /\ stream # None
      /\ up' = IF engine[peer[stream]] = "listening"
                 THEN [up EXCEPT ![stream] = Append(@, Request(w))] ELSE up
      /\ UNCHANGED <<engine, process, socket, stream, peer, down, broken,
                    calls, num, reading, result, overlapped, stopping>>
  BY DEF Write, fields
<1>3. \A v \in Threads : pc'[v] = IF v = w THEN "read" ELSE pc[v]
  BY <1>1, <1>2, OneMoves, ControllerAssumption DEF Threads
<1>4. TypeOK'
  <2>1. stream \in Calls /\ num[w] \in Calls \cup {None}
    BY <1>1, <1>2 DEF TypeOK
  <2>2. Request(w) \in Calls \cup {Quit}
    BY <1>1, <1>2, <2>1, ControllerAssumption
       DEF Request, HoldsInv, Threads, None
  <2>3. up' \in [Calls -> Seq(Calls \cup {Quit})]
    BY <1>1, <1>2, <2>1, <2>2 DEF TypeOK
  <2> QED
    BY <1>1, <1>2, <2>3 DEF TypeOK, Goto
<1>5. ThreadsInv'
  BY <1>1, <1>2, <1>3, ControllerAssumption DEF ThreadsInv, Quitting, Threads
<1>6. HoldsInv'
  <2>1. /\ \A k \in Calls : k > calls => peer[k] = None
        /\ \A c \in {socket, stream} : c # None => peer[c] # None
        /\ w \in Workers => socket # None
    BY <1>1, <1>2 DEF HoldsInv, InUseIsConnected
  <2>2. \A k \in Calls : peer[k] = None => Quiet(k)'
    BY <1>1, <1>2, <2>1 DEF HoldsInv, Quiet, TypeOK
  <2> QED
    BY <1>1, <1>2, <2>1, <2>2, HoldsKept
<1>7. CountInv'
  <2>1. ASSUME NEW k \in Calls
        PROVE  Len(up'[k]) + Len(down'[k]) <= Len(up[k]) + Len(down[k]) + 1
    <3>1. /\ up[k] \in Seq(Calls \cup {Quit})
          /\ up'[k] \in Seq(Calls \cup {Quit})
          /\ down[k] \in Seq(Calls \cup {Quit, Garbage})
      BY <1>1, <1>4 DEF TypeOK
    <3>2. up'[k] = up[k] \/ up'[k] = Append(up[k], Request(w))
      BY <1>1, <1>2 DEF TypeOK
    <3>3. Len(up'[k]) = Len(up[k]) \/ Len(up'[k]) = Len(up[k]) + 1
      BY <3>1, <3>2
    <3> DEFINE a == Len(up[k])
               a2 == Len(up'[k])
               b == Len(down[k])
    <3>4. a \in Nat /\ b \in Nat /\ (a2 = a \/ a2 = a + 1) /\ Len(down'[k]) = b
      BY <1>2, <3>1, <3>3
    <3>5. a2 + b <= a + b + 1
      <4> HIDE DEF a, a2, b
      <4> QED
        BY <3>4
    <3> QED
      BY <3>4, <3>5
  <2>2. pc[w] \in ToWrite /\ "read" \notin ToWrite
    BY <1>2 DEF ToWrite
  <2> QED
    BY <1>1, <1>2, <1>4, <2>1, <2>2, CountKept
<1>8. OwnResponse'
  BY <1>1, <1>2 DEF OwnResponse
<1>9. LifeInv'
  <2> SUFFICES ASSUME ~overlapped
               PROVE  LifeInv'
    BY <1>2 DEF LifeInv
  <2>1. \A v \in Threads : v # w => pc[v] = "idle"
    BY <1>1, <1>2, Alone
  <2> QED
    BY <1>1, <1>2, <1>3, <2>1, ControllerAssumption
       DEF LifeInv, Connecting, ThreadsInv, Threads
<1>10. SyncInv'
  <2> SUFFICES ASSUME ~overlapped
               PROVE  SyncInv'
    BY <1>2 DEF SyncInv
  <2>1. \A v \in Threads : v # w => pc[v] = "idle"
    BY <1>1, <1>2, Alone
  <2>2. stream \notin broken => Quiet(stream)
    BY <1>1, <1>2, <2>1, NobodyWaits
  <2>3. \A v \in Threads : pc'[v] = IF v = w THEN "read" ELSE "idle"
    BY <1>3, <2>1
  <2>4. stream \in Calls /\ stream' = stream /\ broken' = broken /\ down' = down
    BY <1>1, <1>2 DEF TypeOK
  <2>5. Quiet(stream) => Quiet(stream)' \/ CarriesFor(w, stream)'
    BY <1>1, <1>2, <2>4 DEF Quiet, CarriesFor, Request, TypeOK
  <2>6. \A v \in Workers : pc'[v] \in {"idle", "read"}
    BY <2>3 DEF Threads
  <2> QED
    BY <1>1, <1>2, <2>2, <2>3, <2>4, <2>5, <2>6 DEF SyncInv
<1> QED
  BY <1>4, <1>5, <1>6, <1>7, <1>8, <1>9, <1>10 DEF ControllerInv

\* The stream on which a write failed cannot be read.
LEMMA WriteFailsStep ==
  ASSUME ControllerInv, NEW w \in Threads, WriteFails(w)
  PROVE  ControllerInv'
<1>1. TypeOK /\ SyncInv /\ OwnResponse
  BY DEF ControllerInv
<1>2. OwnResponse'
  BY <1>1 DEF WriteFails, OwnResponse
<1>3. /\ pc[w] = "call" /\ CallOver(w) /\ broken' = broken \cup {stream}
      /\ stream # None
      /\ UNCHANGED <<engine, process, peer, up, down, calls, num, result,
                     overlapped, stopping>>
  BY DEF WriteFails
<1>4. ~overlapped =>
        \A k \in Calls : \A i \in 1 .. Len(down'[k]) : down'[k][i] # Garbage
  BY <1>1, <1>3 DEF SyncInv
<1>5. /\ \A k \in Calls : Len(down'[k]) <= Len(down[k])
      /\ broken' \subseteq Calls
  BY <1>1, <1>3 DEF TypeOK
<1> QED
  BY <1>1, <1>2, <1>3, <1>4, <1>5, CallOverKeeps DEF TypeOK

\* and reads the stream of that moment.
LEMMA ReadBeginStep ==
  ASSUME ControllerInv, NEW w \in Threads, ReadBegin(w)
  PROVE  ControllerInv'
<1>1. /\ TypeOK /\ ThreadsInv /\ HoldsInv /\ CountInv /\ OwnResponse
      /\ LifeInv /\ SyncInv
  BY DEF ControllerInv
<1>2. /\ pc[w] = "read" /\ Goto(w, "readline")
      /\ reading' = [reading EXCEPT ![w] = stream]
      /\ UNCHANGED <<engine, process, socket, stream, peer, up, down, broken,
                    calls, num, result, overlapped, stopping>>
  BY DEF ReadBegin, fields, wire
<1>3. \A v \in Threads : pc'[v] = IF v = w THEN "readline" ELSE pc[v]
  BY <1>1, <1>2, OneMoves, ControllerAssumption DEF Threads
<1>4. TypeOK'
  BY <1>1, <1>2, ControllerAssumption DEF TypeOK, Goto, Threads
<1>5. ThreadsInv'
  BY <1>1, <1>2, <1>3, ControllerAssumption DEF ThreadsInv, Quitting, Threads
<1>6. HoldsInv'
  <2>1. /\ \A k \in Calls : k > calls => peer[k] = None
        /\ \A k \in Calls : peer[k] = None => Quiet(k)'
        /\ \A c \in {socket, stream} : c # None => peer[c] # None
    BY <1>1, <1>2 DEF HoldsInv, InUseIsConnected, Quiet
  <2>2. stream # None /\ (w \in Workers => socket # None)
    BY <1>1, <1>2 DEF HoldsInv
  <2>3. /\ \A v \in Threads : v # w => reading'[v] = reading[v]
        /\ reading'[w] = stream
    BY <1>1, <1>2 DEF TypeOK
  <2> QED
    BY <1>1, <1>2, <2>1, <2>2, <2>3, HoldsKept
<1>7. CountInv'
  BY <1>1, <1>2, <1>4, CountKeptQuietly DEF ToWrite
<1>8. OwnResponse'
  BY <1>1, <1>2 DEF OwnResponse
<1>9. LifeInv'
  <2> SUFFICES ASSUME ~overlapped
               PROVE  LifeInv'
    BY <1>2 DEF LifeInv
  <2>1. \A v \in Threads : v # w => pc[v] = "idle"
    BY <1>1, <1>2, Alone
  <2> QED
    BY <1>1, <1>2, <1>3, <2>1, ControllerAssumption
       DEF LifeInv, Connecting, ThreadsInv, Threads
<1>10. SyncInv'
  <2> SUFFICES ASSUME ~overlapped
               PROVE  SyncInv'
    BY <1>2 DEF SyncInv
  <2>1. \A v \in Threads : v # w => pc[v] = "idle"
    BY <1>1, <1>2, Alone
  <2>2. \A v \in Threads : pc'[v] = IF v = w THEN "readline" ELSE "idle"
    BY <1>3, <2>1
  <2>3. reading'[w] = stream
    BY <1>1, <1>2 DEF TypeOK
  <2>4. stream \notin broken \cup {None} => Quiet(stream) \/ CarriesFor(w, stream)
    BY <1>1, <2>1 DEF SyncInv
  <2>5. /\ Quiet(stream)' <=> Quiet(stream)
        /\ CarriesFor(w, stream)' <=> CarriesFor(w, stream)
    BY <1>2 DEF Quiet, CarriesFor, Request
  <2>6. \A v \in Workers : pc'[v] \in {"idle", "readline"}
    BY <2>2 DEF Threads
  <2> QED
    BY <1>1, <1>2, <2>2, <2>3, <2>4, <2>5, <2>6 DEF SyncInv
<1> QED
  BY <1>4, <1>5, <1>6, <1>7, <1>8, <1>9, <1>10 DEF ControllerInv

\* The response that is read is the only one, and the call's own.
LEMMA ReadLineStep ==
  ASSUME ControllerInv, NEW w \in Threads, ReadLine(w)
  PROVE  ControllerInv'
<1> DEFINE c == reading[w]
<1>1. TypeOK /\ ThreadsInv /\ SyncInv /\ OwnResponse /\ HoldsInv
  BY DEF ControllerInv
<1>2. /\ pc[w] = "readline" /\ CallOver(w)
      /\ down[c] # <<>> /\ down' = [down EXCEPT ![c] = Tail(@)]
      /\ result' = [result EXCEPT
           ![w] = IF Head(down[c]) = Request(w) THEN Head(down[c]) ELSE None]
      /\ UNCHANGED <<engine, process, peer, up, broken, calls, num, overlapped,
                     stopping>>
  BY DEF ReadLine
<1>3. c \in Calls /\ down[c] \in Seq(Calls \cup {Quit, Garbage})
  BY <1>1, <1>2 DEF TypeOK, HoldsInv
<1>4. /\ Len(Tail(down[c])) = Len(down[c]) - 1 /\ Len(down[c]) \in Nat
      /\ \A i \in 1 .. Len(Tail(down[c])) : Tail(down[c])[i] = down[c][i + 1]
      /\ Tail(down[c]) \in Seq(Calls \cup {Quit, Garbage})
  BY <1>2, <1>3
<1>5. /\ down' \in [Calls -> Seq(Calls \cup {Quit, Garbage})]
      /\ \A k \in Calls : down'[k] = IF k = c THEN Tail(down[c]) ELSE down[k]
  BY <1>1, <1>2, <1>3, <1>4 DEF TypeOK
<1>6. \A k \in Calls : Len(down'[k]) <= Len(down[k])
  <2>1. \A k \in Calls : Len(down[k]) \in Nat
    BY <1>1 DEF TypeOK
  <2> QED
    BY <1>4, <1>5, <2>1
<1>7. result' \in [Threads -> Calls \cup {None, Quit}] /\ OwnResponse'
  <2>1. w # App => Request(w) = num[w]
    BY DEF Request
  <2>2. Request(w) \in Calls \cup {None, Quit}
    BY <1>1 DEF Request, TypeOK
  <2>3. result'[w] \in {Request(w), None}
        /\ \A v \in Threads : v # w => result'[v] = result[v]
    BY <1>1, <1>2 DEF TypeOK
  <2> QED
    BY <1>1, <1>2, <2>1, <2>2, <2>3, ControllerAssumption
       DEF TypeOK, OwnResponse, Threads
<1>8. ASSUME ~overlapped
      PROVE  /\ \A k \in Calls : \A i \in 1 .. Len(down'[k]) : down'[k][i] # Garbage
             /\ w # App /\ stream \notin broken' \cup {None} => Quiet(stream)'
  <2>1. c = stream /\ \A k \in Calls : \A i \in 1 .. Len(down[k]) : down[k][i] # Garbage
    BY <1>1, <1>2, <1>8 DEF SyncInv
  <2>2. ASSUME NEW i \in 1 .. Len(Tail(down[c]))
        PROVE  Tail(down[c])[i] # Garbage
    <3>1. i + 1 \in 1 .. Len(down[c])
      BY <1>4
    <3> QED
      BY <1>3, <1>4, <2>1, <3>1
  <2>3. ASSUME w # App, stream \notin broken' \cup {None}
        PROVE  Quiet(stream)'
    <3>1. ~Quiet(stream)
      BY <1>2, <2>1 DEF Quiet
    <3>2. PICK v \in Threads : pc[v] \in {"read", "readline"} /\ CarriesFor(v, stream)
      BY <1>1, <1>2, <1>8, <2>3, <3>1 DEF SyncInv
    <3>3. up[c] = <<>> /\ down[c] = <<Request(v)>>
      BY <1>2, <2>1, <3>2 DEF CarriesFor
    <3>4. Tail(down[c]) = <<>>
      BY <3>3
    <3> QED
      BY <1>2, <1>3, <1>5, <2>1, <2>3, <3>3, <3>4, CallEnds DEF Quiet
  <2> QED
    BY <1>5, <2>1, <2>2, <2>3
<1> QED
  BY <1>1, <1>2, <1>5, <1>6, <1>7, <1>8, CallOverKeeps DEF TypeOK

\* A line that is no JSON can only be what is left of a torn one.
LEMMA ReadGarbageStep ==
  ASSUME ControllerInv, NEW w \in Threads, ReadGarbage(w)
  PROVE  ControllerInv'
<1>1. /\ TypeOK /\ ThreadsInv /\ HoldsInv /\ CountInv /\ OwnResponse
      /\ LifeInv /\ SyncInv
  BY DEF ControllerInv
<1>2. /\ pc[w] = "readline" /\ Goto(w, "idle")
      /\ down[reading[w]] # <<>> /\ Head(down[reading[w]]) = Garbage
      /\ down' = [down EXCEPT ![reading[w]] = Tail(@)]
      /\ reading' = [reading EXCEPT ![w] = None]
      /\ IF w = App THEN socket' = None /\ stream' = None
                    ELSE UNCHANGED <<socket, stream>>
      /\ UNCHANGED <<engine, process, peer, up, broken, calls, num, result,
                    overlapped, stopping>>
  BY DEF ReadGarbage
<1>3. \A v \in Threads : pc'[v] = IF v = w THEN "idle" ELSE pc[v]
  BY <1>1, <1>2, OneMoves, ControllerAssumption DEF Threads
<1>4. TypeOK'
  <2>1. reading[w] \in Calls
    BY <1>1, <1>2 DEF TypeOK, HoldsInv
  <2>2. down[reading[w]] \in Seq(Calls \cup {Quit, Garbage})
    BY <1>1, <2>1 DEF TypeOK
  <2>3. Tail(down[reading[w]]) \in Seq(Calls \cup {Quit, Garbage})
    BY <1>2, <2>2
  <2>4. down' \in [Calls -> Seq(Calls \cup {Quit, Garbage})]
    BY <1>1, <1>2, <2>1, <2>3 DEF TypeOK
  <2>5. socket' \in {socket, None} /\ stream' \in {stream, None}
    BY <1>2
  <2> QED
    BY <1>1, <1>2, <2>4, <2>5 DEF TypeOK, Goto
<1>5. ThreadsInv'
  BY <1>1, <1>2, <1>3, ControllerAssumption DEF ThreadsInv, Quitting, Threads
<1>6. HoldsInv'
  <2>1. /\ \A k \in Calls : k > calls => peer[k] = None
        /\ \A c \in {socket, stream} : c # None => peer[c] # None
        /\ \A v \in Threads : v # w => reading'[v] = reading[v]
    BY <1>1, <1>2 DEF HoldsInv, InUseIsConnected, TypeOK
  <2>2. \A k \in Calls : peer[k] = None => Quiet(k)'
    BY <1>1, <1>2 DEF HoldsInv, Quiet, TypeOK
  <2>3. CASE w # App
    BY <1>1, <1>2, <2>1, <2>2, <2>3, HoldsKept
  <2>4. CASE w = App
    <3>1. \A v \in Workers : pc'[v] = "idle"
      BY <1>1, <1>2, <1>3, <2>4, ControllerAssumption DEF ThreadsInv, Threads
    <3>2. \A v \in Threads : pc'[v] = "idle"
      BY <1>3, <2>4, <3>1 DEF Threads
    <3> QED
      BY <1>2, <2>1, <2>2, <2>4, <3>1, <3>2 DEF HoldsInv, InUseIsConnected
  <2> QED
    BY <2>3, <2>4
<1>7. CountInv'
  <2>1. ASSUME NEW k \in Calls
        PROVE  Len(up'[k]) + Len(down'[k]) <= Len(up[k]) + Len(down[k]) + 0
    <3>1. /\ up[k] \in Seq(Calls \cup {Quit}) /\ up' = up
          /\ down[k] \in Seq(Calls \cup {Quit, Garbage})
          /\ down'[k] \in Seq(Calls \cup {Quit, Garbage})
      BY <1>1, <1>2, <1>4 DEF TypeOK
    <3>2. \/ down'[k] = down[k]
          \/ down[k] # <<>> /\ down'[k] = Tail(down[k])
      BY <1>1, <1>2 DEF TypeOK
    <3>3. Len(down'[k]) <= Len(down[k])
      <4>1. CASE down'[k] = down[k]
        BY <3>1, <4>1
      <4>2. CASE down[k] # <<>> /\ down'[k] = Tail(down[k])
        BY <3>1, <4>2
      <4> QED
        BY <3>2, <4>1, <4>2
    <3> DEFINE a == Len(up[k])
               b == Len(down[k])
               b2 == Len(down'[k])
    <3>4. a \in Nat /\ b \in Nat /\ b2 \in Nat /\ b2 <= b /\ Len(up'[k]) = a
      BY <3>1, <3>3
    <3>5. a + b2 <= a + b + 0
      <4> HIDE DEF a, b, b2
      <4> QED
        BY <3>4
    <3> QED
      BY <3>4, <3>5
  <2>2. pc[w] \notin ToWrite /\ "idle" \notin ToWrite
    BY <1>2 DEF ToWrite
  <2> QED
    BY <1>1, <1>2, <1>4, <2>1, <2>2, CountKept
<1>8. OwnResponse'
  BY <1>1, <1>2 DEF OwnResponse
<1>9. LifeInv'
  <2> SUFFICES ASSUME ~overlapped
               PROVE  FALSE
    BY <1>2 DEF LifeInv
  <2>1. reading[w] \in Calls
    BY <1>1, <1>2 DEF TypeOK, HoldsInv
  <2>2. down[reading[w]] \in Seq(Calls \cup {Quit, Garbage})
    BY <1>1, <2>1 DEF TypeOK
  <2>3. 1 \in 1 .. Len(down[reading[w]]) /\ down[reading[w]][1] = Garbage
    BY <1>2, <2>2
  <2> QED
    BY <1>1, <2>1, <2>3 DEF SyncInv
<1>10. SyncInv'
  <2> SUFFICES ASSUME ~overlapped
               PROVE  FALSE
    BY <1>2 DEF SyncInv
  <2>1. reading[w] \in Calls
    BY <1>1, <1>2 DEF TypeOK, HoldsInv
  <2>2. down[reading[w]] \in Seq(Calls \cup {Quit, Garbage})
    BY <1>1, <2>1 DEF TypeOK
  <2>3. 1 \in 1 .. Len(down[reading[w]]) /\ down[reading[w]][1] = Garbage
    BY <1>2, <2>2
  <2> QED
    BY <1>1, <2>1, <2>3 DEF SyncInv
<1> QED
  BY <1>4, <1>5, <1>6, <1>7, <1>8, <1>9, <1>10 DEF ControllerInv

\* A line is torn only where two calls are in progress.
LEMMA ReadTornStep ==
  ASSUME ControllerInv, NEW w \in Threads, ReadTorn(w)
  PROVE  ControllerInv'
<1>1. /\ TypeOK /\ ThreadsInv /\ HoldsInv /\ CountInv /\ OwnResponse
      /\ LifeInv /\ SyncInv
  BY DEF ControllerInv
<1>2. /\ pc[w] = "readline" /\ Goto(w, "idle")
      /\ down[reading[w]] # <<>>
      /\ \E v \in Workers \ {w} : pc[v] = "readline"
      /\ down' = [down EXCEPT ![reading[w]] = <<Garbage>> \o Tail(@)]
      /\ reading' = [reading EXCEPT ![w] = None]
      /\ UNCHANGED <<engine, process, socket, stream, peer, up, broken, calls,
                    num, result, overlapped, stopping>>
  BY DEF ReadTorn, fields
<1>3. \A v \in Threads : pc'[v] = IF v = w THEN "idle" ELSE pc[v]
  BY <1>1, <1>2, OneMoves, ControllerAssumption DEF Threads
<1>4. TypeOK'
  <2>1. reading[w] \in Calls
    BY <1>1, <1>2 DEF TypeOK, HoldsInv
  <2>2. down[reading[w]] \in Seq(Calls \cup {Quit, Garbage})
    BY <1>1, <2>1 DEF TypeOK
  <2>3. <<Garbage>> \o Tail(down[reading[w]]) \in Seq(Calls \cup {Quit, Garbage})
    BY <1>2, <2>2
  <2>4. down' \in [Calls -> Seq(Calls \cup {Quit, Garbage})]
    BY <1>1, <1>2, <2>1, <2>3 DEF TypeOK
  <2> QED
    BY <1>1, <1>2, <2>4 DEF TypeOK, Goto
<1>5. ThreadsInv'
  BY <1>1, <1>2, <1>3, ControllerAssumption DEF ThreadsInv, Quitting, Threads
<1>6. HoldsInv'
  <2>1. /\ \A k \in Calls : k > calls => peer[k] = None
        /\ \A c \in {socket, stream} : c # None => peer[c] # None
        /\ \A v \in Threads : v # w => reading'[v] = reading[v]
    BY <1>1, <1>2 DEF HoldsInv, InUseIsConnected, TypeOK
  <2>2. \A k \in Calls : peer[k] = None => Quiet(k)'
    BY <1>1, <1>2 DEF HoldsInv, Quiet, TypeOK
  <2> QED
    BY <1>1, <1>2, <2>1, <2>2, HoldsKept
<1>7. CountInv'
  <2>1. ASSUME NEW k \in Calls
        PROVE  Len(up'[k]) + Len(down'[k]) <= Len(up[k]) + Len(down[k]) + 0
    <3>1. /\ up[k] \in Seq(Calls \cup {Quit}) /\ up' = up
          /\ down[k] \in Seq(Calls \cup {Quit, Garbage})
          /\ down'[k] \in Seq(Calls \cup {Quit, Garbage})
      BY <1>1, <1>2, <1>4 DEF TypeOK
    <3>2. \/ down'[k] = down[k]
          \/ down[k] # <<>> /\ down'[k] = <<Garbage>> \o Tail(down[k])
      BY <1>1, <1>2 DEF TypeOK
    <3>3. Len(down'[k]) <= Len(down[k])
      <4>1. CASE down'[k] = down[k]
        BY <3>1, <4>1
      <4>2. CASE down[k] # <<>> /\ down'[k] = <<Garbage>> \o Tail(down[k])
        BY <3>1, <4>2
      <4> QED
        BY <3>2, <4>1, <4>2
    <3> DEFINE a == Len(up[k])
               b == Len(down[k])
               b2 == Len(down'[k])
    <3>4. a \in Nat /\ b \in Nat /\ b2 \in Nat /\ b2 <= b /\ Len(up'[k]) = a
      BY <3>1, <3>3
    <3>5. a + b2 <= a + b + 0
      <4> HIDE DEF a, b, b2
      <4> QED
        BY <3>4
    <3> QED
      BY <3>4, <3>5
  <2>2. pc[w] \notin ToWrite /\ "idle" \notin ToWrite
    BY <1>2 DEF ToWrite
  <2> QED
    BY <1>1, <1>2, <1>4, <2>1, <2>2, CountKept
<1>8. OwnResponse'
  BY <1>1, <1>2 DEF OwnResponse
<1>9. LifeInv'
  <2>1. overlapped
    BY <1>1, <1>2, Alone DEF Threads
  <2> QED
    BY <1>2, <2>1 DEF LifeInv
<1>10. SyncInv'
  <2>1. overlapped
    BY <1>1, <1>2, Alone DEF Threads
  <2> QED
    BY <1>2, <2>1 DEF SyncInv
<1> QED
  BY <1>4, <1>5, <1>6, <1>7, <1>8, <1>9, <1>10 DEF ControllerInv

\* Nor can one on which a timeout has struck.
LEMMA ReadFailsStep ==
  ASSUME ControllerInv, NEW w \in Threads, ReadFails(w)
  PROVE  ControllerInv'
<1>1. TypeOK /\ SyncInv /\ OwnResponse /\ HoldsInv
  BY DEF ControllerInv
<1>2. OwnResponse'
  BY <1>1 DEF ReadFails, OwnResponse
<1>3. /\ pc[w] = "readline" /\ CallOver(w) /\ broken' = broken \cup {reading[w]}
      /\ UNCHANGED <<engine, process, peer, up, down, calls, num, result,
                     overlapped, stopping>>
  BY DEF ReadFails
<1>4. ~overlapped =>
        /\ \A k \in Calls : \A i \in 1 .. Len(down'[k]) : down'[k][i] # Garbage
        /\ stream \in broken'
  BY <1>1, <1>3 DEF SyncInv
<1>5. /\ \A k \in Calls : Len(down'[k]) <= Len(down[k])
      /\ broken' \subseteq Calls
  BY <1>1, <1>3 DEF TypeOK, HoldsInv
<1> QED
  BY <1>1, <1>2, <1>3, <1>4, <1>5, CallOverKeeps DEF TypeOK

\* The application shuts the controller down.
LEMMA ShutdownStep ==
  ASSUME ControllerInv, Shutdown
  PROVE  ControllerInv'
<1>1. /\ TypeOK /\ ThreadsInv /\ HoldsInv /\ CountInv /\ OwnResponse
      /\ LifeInv /\ SyncInv
  BY DEF ControllerInv
<1>2. /\ Idle /\ ~stopping /\ stopping' = TRUE
      /\ Goto(App, IF socket # None THEN "call" ELSE "terminate")
      /\ UNCHANGED <<engine, process, socket, stream, peer, up, down, broken,
                    calls, num, reading, result, overlapped>>
  BY DEF Shutdown, fields, wire
<1>3. \A v \in Threads :
        pc'[v] = IF v = App THEN IF socket # None THEN "call" ELSE "terminate" ELSE pc[v]
  BY <1>1, <1>2, OneMoves, ControllerAssumption DEF Threads
<1>4. TypeOK'
  BY <1>1, <1>2, ControllerAssumption DEF TypeOK, Goto, Threads
<1>5. ThreadsInv'
  <2>1. \A v \in Threads : pc'[v] # "idle" => v = App
    BY <1>2, <1>3 DEF Idle
  <2>2. pc'[App] \in Quitting
    BY <1>3 DEF Threads, Quitting
  <2>3. \A v \in Workers : v \in Threads /\ v # App
    BY ControllerAssumption DEF Threads
  <2> QED
    BY <1>2, <2>1, <2>2, <2>3 DEF ThreadsInv
<1>6. HoldsInv'
  <2>1. \A v \in Threads : pc'[v] \notin {"read", "readline"}
                           /\ (v # App => pc'[v] = "idle")
    BY <1>2, <1>3 DEF Idle
  <2>2. \A v \in Workers : pc'[v] = "idle"
    BY <2>1, ControllerAssumption DEF Threads
  <2>3. /\ InUseIsConnected'
        /\ \A k \in Calls : peer[k] = None => Quiet(k)'
        /\ \A k \in Calls : k > calls => peer[k] = None
    BY <1>1, <1>2 DEF HoldsInv, InUseIsConnected, Quiet
  <2> QED
    BY <1>2, <2>1, <2>2, <2>3 DEF HoldsInv
<1>7. CountInv'
  <2>1. App \in Threads /\ pc[App] \notin ToWrite
    BY <1>2 DEF Threads, ToWrite, Idle
  <2>2. Asked' = Asked + 1
    BY <1>1, <1>2 DEF Asked, TypeOK
  <2> QED
    BY <1>1, <1>2, <2>1, <2>2, CountGrows
<1>8. OwnResponse'
  BY <1>1, <1>2 DEF OwnResponse
<1>9. LifeInv'
  <2> SUFFICES ASSUME ~overlapped
               PROVE  LifeInv'
    BY <1>2 DEF LifeInv
  <2>1. \A v \in Threads : pc[v] = "idle"
    BY <1>2 DEF Idle
  <2>2. process # None => socket # None
    BY <1>1, <2>1 DEF LifeInv, Connecting
  <2>3. App \in Threads /\ pc'[App] # "idle"
    BY <1>3 DEF Threads
  <2>4. \A v \in Workers : pc'[v] # "spawn"
    BY <1>3, <2>1 DEF Threads
  <2> QED
    BY <1>1, <1>2, <2>2, <2>3, <2>4 DEF LifeInv
<1>10. SyncInv'
  <2> SUFFICES ASSUME ~overlapped
               PROVE  SyncInv'
    BY <1>2 DEF SyncInv
  <2>1. App \in Threads /\ \A v \in Threads : pc[v] = "idle"
    BY <1>2 DEF Idle, Threads
  <2>2. stream \notin broken \cup {None} => Quiet(stream)
    BY <1>1, <2>1, NobodyWaits
  <2> QED
    BY <1>1, <1>2, <2>1, <2>2, SyncKept
<1> QED
  BY <1>4, <1>5, <1>6, <1>7, <1>8, <1>9, <1>10 DEF ControllerInv

\* The engine comes up,
LEMMA EngineListensStep ==
  ASSUME ControllerInv, NEW p \in Calls, EngineListens(p)
  PROVE  ControllerInv'
<1>1. /\ TypeOK /\ ThreadsInv /\ HoldsInv /\ CountInv /\ OwnResponse
      /\ LifeInv /\ SyncInv
  BY DEF ControllerInv
<1>2. /\ engine[p] = "booting" /\ engine' \in {[engine EXCEPT ![p] = "listening"],
                                             [engine EXCEPT ![p] = "exited"]}
      /\ UNCHANGED <<process, socket, stream, peer, up, down, broken, calls,
                    pc, num, reading, result, overlapped, stopping>>
  BY DEF EngineListens, fields, wire, workers
<1>3. TypeOK'
  BY <1>1, <1>2 DEF TypeOK
<1>4. ThreadsInv'
  BY <1>1, <1>2 DEF ThreadsInv
<1>5. HoldsInv'
  BY <1>1, <1>2 DEF HoldsInv, InUseIsConnected, Quiet
<1>6. CountInv'
  BY <1>1, <1>2 DEF CountInv, Writers, Asked
<1>7. OwnResponse'
  BY <1>1, <1>2 DEF OwnResponse
<1>8. LifeInv'
  BY <1>1, <1>2 DEF LifeInv, TypeOK
<1>9. SyncInv'
  <2>1. /\ \A k : Quiet(k)' <=> Quiet(k)
        /\ \A w, k : CarriesFor(w, k)' <=> CarriesFor(w, k)
    BY <1>2 DEF Quiet, CarriesFor, Request
  <2>2. (\A k \in Calls : \A i \in 1 .. Len(down[k]) : down[k][i] # Garbage)
          => (\A k \in Calls : \A i \in 1 .. Len(down'[k]) : down'[k][i] # Garbage)
    BY <1>2
  <2> QED
    BY <1>1, <1>2, <2>1, <2>2 DEF SyncInv
<1> QED
  BY <1>3, <1>4, <1>5, <1>6, <1>7, <1>8, <1>9 DEF ControllerInv

\* answers,
LEMMA EngineAnswersStep ==
  ASSUME ControllerInv, NEW c \in Calls, EngineAnswers(c)
  PROVE  ControllerInv'
<1>1. /\ TypeOK /\ ThreadsInv /\ HoldsInv /\ CountInv /\ OwnResponse
      /\ LifeInv /\ SyncInv
  BY DEF ControllerInv
<1>2. /\ up[c] # <<>> /\ peer[c] \in Listening
      /\ up' = [up EXCEPT ![c] = Tail(@)]
      /\ down' = [down EXCEPT ![c] = Append(@, Head(up[c]))]
      /\ engine' \in {engine, [engine EXCEPT ![peer[c]] = "exited"]}
      /\ UNCHANGED <<process, socket, stream, peer, broken, calls, pc, num,
                     reading, result, overlapped, stopping>>
  BY DEF EngineAnswers, fields, workers
<1>3. TypeOK'
  <2>1. /\ up[c] \in Seq(Calls \cup {Quit})
        /\ down[c] \in Seq(Calls \cup {Quit, Garbage})
    BY <1>1 DEF TypeOK
  <2>2. Tail(up[c]) \in Seq(Calls \cup {Quit}) /\ Head(up[c]) \in Calls \cup {Quit}
    BY <1>2, <2>1
  <2>3. Append(down[c], Head(up[c])) \in Seq(Calls \cup {Quit, Garbage})
    BY <2>1, <2>2
  <2>4. /\ up' \in [Calls -> Seq(Calls \cup {Quit})]
        /\ down' \in [Calls -> Seq(Calls \cup {Quit, Garbage})]
    BY <1>1, <1>2, <2>2, <2>3 DEF TypeOK
  <2> QED
    BY <1>1, <1>2, <2>4 DEF TypeOK
<1>4. ThreadsInv'
  BY <1>1, <1>2 DEF ThreadsInv
<1>5. HoldsInv'
  <2>1. peer[c] # None
    BY <1>2, ControllerAssumption DEF Listening, Calls, None
  <2>2. \A k \in Calls : peer[k] = None => Quiet(k)'
    BY <1>1, <1>2, <2>1 DEF HoldsInv, Quiet, TypeOK
  <2> QED
    BY <1>1, <1>2, <2>2 DEF HoldsInv, InUseIsConnected
<1>6. CountInv'
  <2> SUFFICES ASSUME NEW k \in Calls
               PROVE  Len(up'[k]) + Len(down'[k]) + Cardinality(Writers) <= Asked
    BY <1>2 DEF CountInv, Writers, Asked
  <2>1. /\ up[k] \in Seq(Calls \cup {Quit})
        /\ down[k] \in Seq(Calls \cup {Quit, Garbage})
        /\ up[c] \in Seq(Calls \cup {Quit})
    BY <1>1 DEF TypeOK
  <2>2. Head(up[c]) \in Calls \cup {Quit}
    BY <1>2, <2>1
  <2> DEFINE a == Len(up[k])
             a2 == Len(up'[k])
             b == Len(down[k])
             b2 == Len(down'[k])
             n == Cardinality(Writers)
             bound == Asked
  <2>3. /\ a \in Nat /\ b \in Nat /\ n \in Nat /\ bound \in Nat
        /\ a + b + n <= bound
    <3>1. Asked \in Nat
      BY <1>1 DEF Asked, TypeOK
    <3>2. Len(up[k]) + Len(down[k]) + Cardinality(Writers) <= Asked
      BY <1>1 DEF CountInv
    <3>3. a \in Nat /\ b \in Nat
      BY <2>1
    <3>4. n \in Nat
      BY WritersAreFinite
    <3> QED
      BY <3>1, <3>2, <3>3, <3>4
  <2>4. (a2 = a /\ b2 = b) \/ (a2 = a - 1 /\ b2 = b + 1)
    <3>1. CASE k = c
      <4>1. up'[k] = Tail(up[k]) /\ down'[k] = Append(down[k], Head(up[k]))
        BY <1>1, <1>2, <3>1 DEF TypeOK
      <4>2. Len(Tail(up[k])) = Len(up[k]) - 1
        BY <1>2, <2>1, <3>1
      <4>3. Len(Append(down[k], Head(up[k]))) = Len(down[k]) + 1
        BY <2>1, <2>2, <3>1
      <4> QED
        BY <4>1, <4>2, <4>3
    <3>2. CASE k # c
      <4>1. up'[k] = up[k] /\ down'[k] = down[k]
        BY <1>1, <1>2, <3>2 DEF TypeOK
      <4> QED
        BY <4>1
    <3> QED
      BY <3>1, <3>2
  <2>5. a2 + b2 + n <= bound
    <3> HIDE DEF a, a2, b, b2, n, bound
    <3> QED
      BY <2>3, <2>4
  <2> QED
    BY <2>5
<1>7. OwnResponse'
  BY <1>1, <1>2 DEF OwnResponse
<1>8. LifeInv'
  BY <1>1, <1>2 DEF LifeInv, TypeOK
<1>9. SyncInv'
  <2> SUFFICES ASSUME ~overlapped
               PROVE  SyncInv'
    BY <1>2 DEF SyncInv
  <2>1. /\ up[c] \in Seq(Calls \cup {Quit})
        /\ down[c] \in Seq(Calls \cup {Quit, Garbage})
    BY <1>1 DEF TypeOK
  <2>2. Head(up[c]) \in Calls \cup {Quit} /\ Head(up[c]) # Garbage
    <3>1. Head(up[c]) \in Calls \cup {Quit}
      BY <1>2, <2>1
    <3> QED
      BY <3>1, ControllerAssumption DEF Calls, Quit, Garbage
  <2>3. \A k \in Calls : \A i \in 1 .. Len(down[k]) : down[k][i] # Garbage
    BY <1>1 DEF SyncInv
  <2>4. \A k \in Calls : k # c => up'[k] = up[k] /\ down'[k] = down[k]
    BY <1>1, <1>2 DEF TypeOK
  <2>5. up'[c] = Tail(up[c]) /\ down'[c] = Append(down[c], Head(up[c]))
    BY <1>1, <1>2 DEF TypeOK
  <2>6. \A k \in Calls : \A i \in 1 .. Len(down'[k]) : down'[k][i] # Garbage
    <3>1. \A i \in 1 .. Len(Append(down[c], Head(up[c]))) :
            Append(down[c], Head(up[c]))[i] # Garbage
      BY <2>1, <2>2, <2>3
    <3> QED
      BY <2>3, <2>4, <2>5, <3>1
  <2>7. \A k \in Calls : Quiet(k) => Quiet(k)'
    BY <1>2, <2>4 DEF Quiet
  <2>8. \A w \in Threads : CarriesFor(w, c) => CarriesFor(w, c)'
    <3> SUFFICES ASSUME NEW w \in Threads, CarriesFor(w, c)
                 PROVE  CarriesFor(w, c)'
      OBVIOUS
    <3>1. up[c] = <<Request(w)>> /\ down[c] = <<>> /\ Request(w)' = Request(w)
      BY <1>2 DEF CarriesFor, Request
    <3>2. up'[c] = <<>> /\ down'[c] = <<Request(w)>>
      BY <2>5, <3>1
    <3> QED
      BY <3>1, <3>2 DEF CarriesFor
  <2>9. \A w \in Threads, k \in Calls : CarriesFor(w, k) => CarriesFor(w, k)'
    BY <1>2, <2>4, <2>8 DEF CarriesFor, Request
  <2>10. \A w \in Workers : pc[w] \in {"set_socket", "set_stream"} => num[w] \in Calls
    BY <1>1, ControllerAssumption DEF HoldsInv, TypeOK, Calls
  <2>11. stream # None => stream \in Calls
    BY <1>1 DEF TypeOK
  <2> QED
    BY <1>1, <1>2, <2>6, <2>7, <2>9, <2>10, <2>11 DEF SyncInv
<1> QED
  BY <1>3, <1>4, <1>5, <1>6, <1>7, <1>8, <1>9 DEF ControllerInv

\* and dies.
LEMMA EngineDiesStep ==
  ASSUME ControllerInv, NEW p \in Calls, EngineDies(p)
  PROVE  ControllerInv'
<1>1. /\ TypeOK /\ ThreadsInv /\ HoldsInv /\ CountInv /\ OwnResponse
      /\ LifeInv /\ SyncInv
  BY DEF ControllerInv
<1>2. /\ engine[p] \in {"booting", "listening"}
      /\ engine' = [engine EXCEPT ![p] = "exited"]
      /\ UNCHANGED <<process, socket, stream, peer, up, down, broken, calls,
                    pc, num, reading, result, overlapped, stopping>>
  BY DEF EngineDies, fields, wire, workers
<1>3. TypeOK'
  BY <1>1, <1>2 DEF TypeOK
<1>4. ThreadsInv'
  BY <1>1, <1>2 DEF ThreadsInv
<1>5. HoldsInv'
  BY <1>1, <1>2 DEF HoldsInv, InUseIsConnected, Quiet
<1>6. CountInv'
  BY <1>1, <1>2 DEF CountInv, Writers, Asked
<1>7. OwnResponse'
  BY <1>1, <1>2 DEF OwnResponse
<1>8. LifeInv'
  BY <1>1, <1>2 DEF LifeInv, TypeOK
<1>9. SyncInv'
  <2>1. /\ \A k : Quiet(k)' <=> Quiet(k)
        /\ \A w, k : CarriesFor(w, k)' <=> CarriesFor(w, k)
    BY <1>2 DEF Quiet, CarriesFor, Request
  <2>2. (\A k \in Calls : \A i \in 1 .. Len(down[k]) : down[k][i] # Garbage)
          => (\A k \in Calls : \A i \in 1 .. Len(down'[k]) : down'[k][i] # Garbage)
    BY <1>2
  <2> QED
    BY <1>1, <1>2, <2>1, <2>2 DEF SyncInv
<1> QED
  BY <1>3, <1>4, <1>5, <1>6, <1>7, <1>8, <1>9 DEF ControllerInv

\* Nothing happens.
LEMMA ControllerStutter ==
  ASSUME ControllerInv, UNCHANGED vars
  PROVE  ControllerInv'
<1>1. /\ TypeOK /\ ThreadsInv /\ HoldsInv /\ CountInv /\ OwnResponse
      /\ LifeInv /\ SyncInv
  BY DEF ControllerInv
<1>2. UNCHANGED <<engine, process, socket, stream, peer, up, down, broken, calls,
                  pc, num, reading, result, overlapped, stopping>>
  BY DEF vars, fields, wire, workers
<1>3. TypeOK'
  BY <1>1, <1>2 DEF TypeOK
<1>4. ThreadsInv'
  BY <1>1, <1>2 DEF ThreadsInv
<1>5. HoldsInv'
  BY <1>1, <1>2 DEF HoldsInv, InUseIsConnected, Quiet
<1>6. CountInv'
  BY <1>1, <1>2 DEF CountInv, Writers, Asked
<1>7. OwnResponse'
  BY <1>1, <1>2 DEF OwnResponse
<1>8. LifeInv'
  BY <1>1, <1>2 DEF LifeInv
<1>9. SyncInv'
  BY <1>1, <1>2 DEF SyncInv, Quiet, CarriesFor, Request
<1> QED
  BY <1>3, <1>4, <1>5, <1>6, <1>7, <1>8, <1>9 DEF ControllerInv

-----------------------------------------------------------------------------
(* The theorems.                                                           *)

\* However the threads' calls and shutdown() cross, and whatever the engines do,
\* the agreement of threads, connections and engines stands.
THEOREM ControllerInvariant == Spec => []ControllerInv
<1>1. ASSUME ControllerInv, [Next]_vars
      PROVE  ControllerInv'
  <2>1. ASSUME NEW w \in Workers, Begin(w)
        PROVE  ControllerInv'
    BY <1>1, <2>1, BeginStep
  <2>2. ASSUME NEW w \in Threads, EnsureProcess(w)
        PROVE  ControllerInv'
    BY <1>1, <2>2, EnsureStep, SpawnStep, ConnectStep, GiveUpStep, SetSocketStep,
       SetStreamStep, TerminateStep
       DEF EnsureProcess
  <2>3. ASSUME NEW w \in Threads, Call(w)
        PROVE  ControllerInv'
    BY <1>1, <2>3, CallNotConnectedStep, WriteStep, WriteFailsStep, ReadBeginStep,
       ReadLineStep, ReadGarbageStep, ReadTornStep, ReadFailsStep
       DEF Call
  <2>4. CASE Shutdown
    BY <1>1, <2>4, ShutdownStep
  <2>5. CASE Engine
    BY <1>1, <2>5, EngineListensStep, EngineAnswersStep, EngineDiesStep DEF Engine
  <2>6. CASE UNCHANGED vars
    BY <1>1, <2>6, ControllerStutter
  <2> QED
    BY <1>1, <2>1, <2>2, <2>3, <2>4, <2>5, <2>6 DEF Next, Thread
<1> QED
  BY <1>1, ControllerInit, PTL DEF Spec

\* A call returns the response to its own request or raises.
THEOREM ControllerOwnResponse == Spec => []OwnResponse
<1>1. ControllerInv => OwnResponse
  BY DEF ControllerInv
<1> QED
  BY <1>1, ControllerInvariant, PTL

\* A connection in use has an engine at its end and carries no more than was asked;
\* and while calls come one at a time, a response that is found on a stream that
\* can be read is the one that is waited for.
THEOREM ControllerInStep == Spec => []ConnectionsInStep
<1>1. ASSUME ControllerInv
      PROVE  ConnectionsInStep
  <2>1. TypeOK /\ HoldsInv /\ CountInv /\ SyncInv
    BY <1>1 DEF ControllerInv
  <2>2. InUseIsConnected
    BY <2>1 DEF HoldsInv
  <2>3. NoMoreThanAsked
    <3> SUFFICES ASSUME NEW k \in Calls
                 PROVE  Len(up[k]) + Len(down[k]) <= Asked
      BY DEF NoMoreThanAsked
    <3> DEFINE a == Len(up[k])
               b == Len(down[k])
               n == Cardinality(Writers)
               bound == Asked
    <3>1. /\ up[k] \in Seq(Calls \cup {Quit})
          /\ down[k] \in Seq(Calls \cup {Quit, Garbage})
      BY <2>1 DEF TypeOK
    <3>2. a \in Nat /\ b \in Nat
      BY <3>1
    <3>3. n \in Nat /\ bound \in Nat
      BY <2>1, WritersAreFinite DEF Asked, TypeOK
    <3>4. a + b + n <= bound
      BY <2>1 DEF CountInv
    <3>5. a + b <= bound
      <4> HIDE DEF a, b, n, bound
      <4> QED
        BY <3>2, <3>3, <3>4
    <3> QED
      BY <3>5
  <2>4. StreamInSync
    <3> SUFFICES ASSUME NEW w \in Workers, pc[w] = "readline", ~overlapped,
                        reading[w] \notin broken
                 PROVE  down[reading[w]] \in {<<>>, <<num[w]>>}
      BY DEF StreamInSync
    <3>1. w \in Threads /\ w # App
      BY ControllerAssumption DEF Threads
    <3>2. reading[w] = stream /\ stream # None
      BY <2>1, <3>1 DEF SyncInv, HoldsInv
    <3>3. ASSUME NEW v \in Threads, pc[v] \in {"read", "readline"}
          PROVE  Request(v) = num[w]
      <4>1. v = w
        BY <1>1, <3>1, <3>3 DEF ControllerInv, ThreadsInv
      <4> QED
        BY <3>1, <4>1 DEF Request
    <3>4. \/ Quiet(stream)
          \/ \E v \in Threads : pc[v] \in {"read", "readline"}
                                  /\ CarriesFor(v, stream)
      BY <2>1, <3>2 DEF SyncInv
    <3> QED
      BY <3>2, <3>3, <3>4 DEF Quiet, CarriesFor
  <2> QED
    BY <2>1, <2>2, <2>3, <2>4 DEF ConnectionsInStep
<1> QED
  BY <1>1, ControllerInvariant, PTL

\* When shutdown() has returned, no engine is left, as long as no two calls were
\* ever in progress at once.
THEOREM ControllerLeavesNoEngine == Spec => []ShutdownLeavesNoEngine
<1>1. ASSUME ControllerInv
      PROVE  ShutdownLeavesNoEngine
  <2> SUFFICES ASSUME stopping, Idle, ~overlapped, NEW p \in Calls
               PROVE  engine[p] \in {"unborn", "exited"}
    BY DEF ShutdownLeavesNoEngine
  <2>1. TypeOK /\ LifeInv
    BY <1>1 DEF ControllerInv
  <2>2. process = None
    BY <2>1 DEF LifeInv, Idle, Threads
  <2>3. p # None
    BY DEF Calls, None
  <2> QED
    BY <2>1, <2>2, <2>3 DEF LifeInv, TypeOK
<1> QED
  BY <1>1, ControllerInvariant, PTL
=============================================================================
