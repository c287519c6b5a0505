-------------------------- MODULE AgentSessionProofs --------------------------
(***************************************************************************)
(* Theorems about AgentSession: for any number of sends and restarts, in   *)
(* every interleaving (Overlap), and whether or not killed processes still *)
(* answer (Late), unless a theorem says otherwise.                         *)
(***************************************************************************)
EXTENDS AgentSession, FiniteSetTheorems, TLAPS

\* The prompt of s is in some place.
Placed(s) ==
  \E h \in Holders : \E k \in DOMAIN PromptsAt(h) : PromptsAt(h)[k] = s

Busy == {"preparing", "composing", "composed", "turn", "ended"}

\* A prompt is in no place before its send() acts on it, and in one after.
Fresh == \A s \in Sends : pc[s] \in {"idle", "latched"} => ~Placed(s)
Accepted ==
  \A s \in Sends : outcome[s] \in {"sent", "queued"} \/ pc[s] \in Busy
                     => Placed(s)

\* A process that was not spawned yet runs nothing, and there is room for one
\* process more for every restart that has not spawned its own.
Unborn == \A p \in Procs : p >= spawned => pc[p] = "idle"
Unspawned == {r \in Restarts : pc[r] \in {"idle", "spawning"}}
SpawnRoom == spawned + Cardinality(Unspawned) <= Cardinality(Restarts) + 1

IInv == TypeOK /\ Unborn /\ SpawnRoom /\ AtMostOnce /\ Fresh /\ Accepted

-----------------------------------------------------------------------------
(* How prompts move between places.                                        *)

\* Nothing moves.
Still ==
  /\ Carriers' = Carriers /\ UNCHANGED <<queue, delivered>>
  /\ \A f \in Carriers : turn'[f].prompts = turn[f].prompts

LEMMA StillKeeps ==
  ASSUME Still
  PROVE  /\ AtMostOnce => AtMostOnce'
         /\ \A s : Placed(s)' <=> Placed(s)
<1>1. Holders' = Holders
  BY DEF Still, Holders
<1>2. ASSUME NEW h \in Holders PROVE PromptsAt(h)' = PromptsAt(h)
  <2>1. h[1] \notin {"queue"} /\ h[1] = "turn" => h[2] \in Carriers
    BY DEF Holders
  <2> QED
    BY <2>1 DEF Still, PromptsAt
<1> QED
  BY <1>1, <1>2 DEF AtMostOnce, Placed

\* The prompts of b go to a, which held none.
LEMMA MovedKeeps ==
  ASSUME NEW a \in Holders', NEW b \in Holders,
         PromptsAt(a)' = PromptsAt(b),
         \A h \in Holders' : h # a =>
           \/ DOMAIN PromptsAt(h)' = {}
           \/ h \in Holders /\ h # b /\ PromptsAt(h)' = PromptsAt(h),
         \A h \in Holders : h # b =>
           \/ DOMAIN PromptsAt(h) = {}
           \/ h \in Holders' /\ h # a /\ PromptsAt(h)' = PromptsAt(h)
  PROVE  /\ AtMostOnce => AtMostOnce'
         /\ \A s : Placed(s)' <=> Placed(s)
<1>1. ASSUME AtMostOnce PROVE AtMostOnce'
  <2> SUFFICES ASSUME NEW g \in Holders', NEW h \in Holders',
                      NEW k \in DOMAIN PromptsAt(g)', NEW l \in DOMAIN PromptsAt(h)',
                      PromptsAt(g)'[k] = PromptsAt(h)'[l]
               PROVE  g = h /\ k = l
    BY DEF AtMostOnce
  <2>1. CASE g = a /\ h = a
    BY <1>1, <2>1 DEF AtMostOnce
  <2>2. CASE g = a /\ h # a
    BY <1>1, <2>2 DEF AtMostOnce
  <2>3. CASE g # a /\ h = a
    BY <1>1, <2>3 DEF AtMostOnce
  <2>4. CASE g # a /\ h # a
    BY <1>1, <2>4 DEF AtMostOnce
  <2> QED
    BY <2>1, <2>2, <2>3, <2>4
<1>2. ASSUME NEW s, Placed(s)' PROVE Placed(s)
  BY <1>2 DEF Placed
<1>3. ASSUME NEW s, Placed(s) PROVE Placed(s)'
  BY <1>3 DEF Placed
<1> QED
  BY <1>1, <1>2, <1>3

\* The prompt of s arrives at a, behind those that a held.
LEMMA ArrivesKeeps ==
  ASSUME NEW a \in Holders', NEW s,
         PromptsAt(a)' \in Seq(Sends), ~Placed(s),
         \E old \in Seq(Sends) :
           /\ PromptsAt(a)' = Append(old, s)
           /\ \/ old = <<>> /\ a \notin Holders
              \/ old = PromptsAt(a) /\ a \in Holders,
         \A h : h # a => (h \in Holders' <=> h \in Holders),
         \A h \in Holders : h # a => PromptsAt(h)' = PromptsAt(h)
  PROVE  /\ AtMostOnce => AtMostOnce'
         /\ \A u : Placed(u)' <=> Placed(u) \/ u = s
<1>1. PICK old \in Seq(Sends) :
        /\ PromptsAt(a)' = Append(old, s)
        /\ \/ old = <<>> /\ a \notin Holders
           \/ old = PromptsAt(a) /\ a \in Holders
  OBVIOUS
<1>2. /\ DOMAIN PromptsAt(a)' = 1 .. Len(old) + 1
      /\ PromptsAt(a)'[Len(old) + 1] = s
      /\ \A k \in 1 .. Len(old) : PromptsAt(a)'[k] = old[k]
      /\ DOMAIN old = 1 .. Len(old) /\ Len(old) \in Nat
  BY <1>1
<1>3. a \in Holders \/ Len(old) = 0
  BY <1>1
<1>4. a \in Holders => old = PromptsAt(a)
  BY <1>1
<1>5. \A h \in Holders : \A k \in DOMAIN PromptsAt(h) : PromptsAt(h)[k] # s
  BY DEF Placed
<1>6. \A k \in DOMAIN PromptsAt(a)' :
        \/ k = Len(old) + 1
        \/ a \in Holders /\ k \in DOMAIN PromptsAt(a)
             /\ PromptsAt(a)'[k] = PromptsAt(a)[k]
  BY <1>2, <1>3, <1>4
<1>7. ASSUME AtMostOnce PROVE AtMostOnce'
  <2> SUFFICES ASSUME NEW g \in Holders', NEW h \in Holders',
                      NEW k \in DOMAIN PromptsAt(g)', NEW l \in DOMAIN PromptsAt(h)',
                      PromptsAt(g)'[k] = PromptsAt(h)'[l]
               PROVE  g = h /\ k = l
    BY DEF AtMostOnce
  <2>1. CASE g = a /\ k = Len(old) + 1 /\ h = a
    BY <1>2, <1>5, <1>6, <2>1
  <2>2. CASE g = a /\ k = Len(old) + 1 /\ h # a
    BY <1>2, <1>5, <2>2
  <2>3. CASE h = a /\ l = Len(old) + 1 /\ g # a
    BY <1>2, <1>5, <2>3
  <2>4. CASE h = a /\ l = Len(old) + 1 /\ g = a
    BY <1>2, <1>5, <1>6, <2>4
  <2>5. CASE (g # a \/ k # Len(old) + 1) /\ (h # a \/ l # Len(old) + 1)
    <3>1. /\ g \in Holders /\ k \in DOMAIN PromptsAt(g)
          /\ PromptsAt(g)'[k] = PromptsAt(g)[k]
      BY <1>6, <2>5
    <3>2. /\ h \in Holders /\ l \in DOMAIN PromptsAt(h)
          /\ PromptsAt(h)'[l] = PromptsAt(h)[l]
      BY <1>6, <2>5
    <3>3. PromptsAt(g)[k] = PromptsAt(h)[l]
      BY <3>1, <3>2
    <3> QED
      BY <1>7, <3>1, <3>2, <3>3, ZenonT(60) DEF AtMostOnce
  <2> QED
    BY <2>1, <2>2, <2>3, <2>4, <2>5
<1>8. ASSUME NEW u, Placed(u)' PROVE Placed(u) \/ u = s
  <2>1. PICK h \in Holders' : \E k \in DOMAIN PromptsAt(h)' : PromptsAt(h)'[k] = u
    BY <1>8 DEF Placed
  <2> QED
    BY <1>2, <1>6, <2>1 DEF Placed
<1>9. ASSUME NEW u, Placed(u) PROVE Placed(u)'
  <2>1. PICK h \in Holders : \E k \in DOMAIN PromptsAt(h) : PromptsAt(h)[k] = u
    BY <1>9 DEF Placed
  <2>2. CASE h # a
    BY <2>1, <2>2 DEF Placed
  <2>3. CASE h = a
    <3>1. PICK k \in DOMAIN PromptsAt(a) : PromptsAt(a)[k] = u
      BY <2>1, <2>3
    <3>2. k \in 1 .. Len(old) /\ old[k] = u
      BY <1>2, <1>4, <2>1, <2>3, <3>1
    <3>3. k \in DOMAIN PromptsAt(a)' /\ PromptsAt(a)'[k] = u
      BY <1>2, <3>2
    <3> QED
      BY <3>3 DEF Placed
  <2> QED
    BY <2>2, <2>3
<1>10. Placed(s)'
  <2>1. Len(old) + 1 \in DOMAIN PromptsAt(a)'
    BY <1>2
  <2> QED
    BY <1>2, <2>1 DEF Placed
<1> QED
  BY <1>7, <1>8, <1>9, <1>10

-----------------------------------------------------------------------------
(* What the kinds of steps do to the inductive invariant.                  *)

\* Sends, processes, restarts and the closer are different fibers.
LEMMA Disjoint ==
  /\ Cardinality(Restarts) \in Nat /\ IsFiniteSet(Restarts)
  /\ Procs \subseteq Nat /\ 0 \in Procs
  /\ Sends \cap Procs = {} /\ Sends \cap Restarts = {}
  /\ Restarts \cap Procs = {}
  /\ Closer \notin Sends \cup Procs \cup Restarts
BY SessionAssumption, FS_CardinalityType DEF SessionAssumption, Procs

\* Steps that move no prompt and start no turn.
LEMMA QuietKeeps ==
  ASSUME IInv, Still,
         \A s \in Sends :
           /\ pc'[s] \in {"idle", "latched"} => pc[s] \in {"idle", "latched"}
           /\ pc'[s] \in Busy => pc[s] \in Busy
           /\ outcome'[s] \in {"sent", "queued"} =>
                outcome[s] \in {"sent", "queued"} \/ pc[s] \in Busy
  PROVE  AtMostOnce' /\ Fresh' /\ Accepted'
BY StillKeeps DEF IInv, Fresh, Accepted

\* Steps that spawn no process.
LEMMA RoomKeeps ==
  ASSUME IInv, spawned' = spawned,
         \A p \in Procs : pc[p] = "idle" => pc'[p] = "idle",
         \A r \in Restarts :
           pc'[r] \in {"idle", "spawning"} => pc[r] \in {"idle", "spawning"}
  PROVE  Unborn' /\ SpawnRoom'
<1>1. Unborn'
  BY DEF IInv, Unborn
<1>2. Unspawned \in SUBSET Restarts /\ Unspawned' \in SUBSET Unspawned
  BY DEF Unspawned
<1>3. IsFiniteSet(Unspawned)
  BY <1>2, Disjoint, FS_Subset
<1>4. IsFiniteSet(Unspawned') /\ Cardinality(Unspawned') <= Cardinality(Unspawned)
  BY <1>2, <1>3, FS_Subset
<1>5. Cardinality(Unspawned) \in Nat /\ Cardinality(Unspawned') \in Nat
  BY <1>3, <1>4, FS_CardinalityType
<1>6. spawned \in Nat
  BY DEF IInv, TypeOK
<1>7. SpawnRoom'
  BY <1>4, <1>5, <1>6, Disjoint DEF IInv, SpawnRoom
<1> QED
  BY <1>1, <1>7

\* A step of one fiber moves its counter only.
LEMMA FiberRoom ==
  ASSUME IInv, NEW f \in Fibers, NEW l, pc' = [pc EXCEPT ![f] = l],
         f \in Procs => pc[f] # "idle", spawned' = spawned
  PROVE  Unborn' /\ SpawnRoom'
<1>1. \A g \in Procs \cup Restarts : g # f => pc'[g] = pc[g]
  BY DEF IInv, TypeOK, Fibers
<1>2. f \notin Restarts
  BY Disjoint DEF Fibers
<1> QED
  BY <1>1, <1>2, RoomKeeps

\* Steps of a fiber that neither begins nor ends to carry a prompt.
LEMMA FiberStill ==
  ASSUME IInv, NEW f \in Fibers, NEW l, pc' = [pc EXCEPT ![f] = l],
         pc[f] \in {"preparing", "composing", "composed"} <=>
           l \in {"preparing", "composing", "composed"},
         UNCHANGED <<queue, delivered>>,
         \A g \in Fibers : turn'[g].prompts = turn[g].prompts
  PROVE  Still
BY DEF IInv, TypeOK, Still, Carriers, Fibers

\* The same for the steps of a fiber that is no send.
LEMMA OtherStill ==
  ASSUME IInv, UNCHANGED <<queue, delivered, outcome>>,
         \A f \in Fibers : turn'[f].prompts = turn[f].prompts,
         \A s \in Sends : pc'[s] = pc[s],
         \A p \in Procs : pc[p] \in {"preparing", "composing", "composed"} <=>
                          pc'[p] \in {"preparing", "composing", "composed"}
  PROVE  AtMostOnce' /\ Fresh' /\ Accepted'
<1>1. Still
  BY DEF Still, Carriers, Fibers
<1> QED
  BY <1>1, QuietKeeps

\* A send begins its turn.
LEMMA SendArrives ==
  ASSUME IInv, NEW s \in Sends, pc[s] \in {"idle", "latched"},
         NEW flush \in BOOLEAN, SendPrompt(s, <<s>>, session, flush),
         pc' = [pc EXCEPT ![s] = "preparing"],
         UNCHANGED <<queue, delivered, outcome>>
  PROVE  AtMostOnce' /\ Fresh' /\ Accepted'
<1> DEFINE a == <<"turn", s>>
<1>1. s \in Fibers /\ s \notin Carriers /\ Carriers' = Carriers \cup {s}
  BY DEF IInv, TypeOK, Carriers, Fibers
<1>2. /\ turn'[s].prompts = <<s>>
      /\ \A f \in Fibers : f # s => turn'[f] = turn[f]
  BY <1>1 DEF IInv, TypeOK, SendPrompt, NoTurn
<1>3. a \in Holders' /\ a \notin Holders
  BY <1>1 DEF Holders
<1>4. PromptsAt(a)' = <<s>>
  BY <1>2 DEF PromptsAt
<1>5. \A h : h # a => (h \in Holders' <=> h \in Holders)
  BY <1>1 DEF Holders
<1>6. \A h \in Holders : h # a => PromptsAt(h)' = PromptsAt(h)
  BY <1>2 DEF Holders, PromptsAt, Carriers
<1>7. ~Placed(s)
  BY DEF IInv, Fresh
<1>8. <<s>> \in Seq(Sends) /\ <<s>> = Append(<<>>, s) /\ <<>> \in Seq(Sends)
  OBVIOUS
<1> HIDE DEF a
<1>9. AtMostOnce' /\ \A u : Placed(u)' <=> Placed(u) \/ u = s
  BY <1>3, <1>4, <1>5, <1>6, <1>7, <1>8, ArrivesKeeps DEF IInv
<1>10. \A u \in Sends : u # s => pc'[u] = pc[u]
  BY DEF IInv, TypeOK
<1>11. pc'[s] = "preparing"
  BY <1>1 DEF IInv, TypeOK
<1> QED
  BY <1>9, <1>10, <1>11 DEF IInv, Fresh, Accepted

\* A send is queued.
LEMMA QueueArrives ==
  ASSUME IInv, NEW s \in Sends, SendQueued(s)
  PROVE  AtMostOnce' /\ Fresh' /\ Accepted'
<1> DEFINE a == <<"queue", 0>>
<1>1. s \in Fibers /\ pc' = [pc EXCEPT ![s] = "done"] /\ pc[s] = "idle"
  BY DEF SendQueued, Return, Fibers
<1>2. Carriers' = Carriers /\ s \notin Carriers
  BY <1>1 DEF IInv, TypeOK, Carriers, Fibers
<1>3. a \in Holders' /\ a \in Holders /\ Holders' = Holders
  BY <1>2 DEF Holders, SendQueued
<1>4. PromptsAt(a)' = Append(PromptsAt(a), s) /\ PromptsAt(a) \in Seq(Sends)
  BY DEF PromptsAt, SendQueued, IInv, TypeOK
<1>5. \A h \in Holders : h # a => PromptsAt(h)' = PromptsAt(h)
  BY DEF Holders, PromptsAt, SendQueued
<1>6. ~Placed(s)
  BY <1>1 DEF IInv, Fresh
<1>7. PromptsAt(a)' \in Seq(Sends)
  BY <1>4
<1> HIDE DEF a
<1>8. AtMostOnce' /\ \A u : Placed(u)' <=> Placed(u) \/ u = s
  BY <1>3, <1>4, <1>5, <1>6, <1>7, ArrivesKeeps DEF IInv
<1>9. \A u \in Sends : u # s => pc'[u] = pc[u] /\ outcome'[u] = outcome[u]
  BY <1>1 DEF IInv, TypeOK, SendQueued, Return
<1>10. pc'[s] = "done"
  BY <1>1 DEF IInv, TypeOK
<1> QED
  BY <1>8, <1>9, <1>10 DEF IInv, Fresh, Accepted

\* The queue becomes the turn of a fiber that carried nothing.
LEMMA FlushMoves ==
  ASSUME IInv, NEW f \in Fibers, pc[f] \in {"ended", "readied"},
         f \in Sends => pc[f] = "ended",
         FlushQueue(f), UNCHANGED <<delivered, outcome>>
  PROVE  AtMostOnce' /\ Fresh' /\ Accepted'
<1> DEFINE a == <<"turn", f>>  b == <<"queue", 0>>
<1>1. /\ pc' = [pc EXCEPT ![f] = "preparing"] /\ queue' = <<>>
      /\ f \notin Carriers /\ Carriers' = Carriers \cup {f}
  BY DEF FlushQueue, IInv, TypeOK, Carriers, Fibers
<1>2. /\ turn'[f].prompts = queue
      /\ \A g \in Fibers : g # f => turn'[g] = turn[g]
  BY DEF IInv, TypeOK, FlushQueue, SendPrompt, NoTurn
<1>3. a \in Holders' /\ b \in Holders /\ b # a
  BY <1>1 DEF Holders
<1>4. PromptsAt(a)' = PromptsAt(b)
  BY <1>2 DEF PromptsAt
<1>5. DOMAIN PromptsAt(b)' = {}
  BY <1>1 DEF PromptsAt
<1>6. \A h : h # a => (h \in Holders' <=> h \in Holders)
  BY <1>1 DEF Holders
<1>7. \A h \in Holders : h # a /\ h # b => PromptsAt(h)' = PromptsAt(h)
  BY <1>2 DEF Holders, PromptsAt, Carriers
<1>8. a \notin Holders
  BY <1>1 DEF Holders
<1> HIDE DEF a, b
<1>9. AtMostOnce' /\ \A u : Placed(u)' <=> Placed(u)
  BY <1>3, <1>4, <1>5, <1>6, <1>7, <1>8, MovedKeeps DEF IInv
<1>10. /\ \A u \in Sends : u # f => pc'[u] = pc[u]
       /\ f \in Sends => pc'[f] = "preparing" /\ pc[f] = "ended"
  BY <1>1 DEF IInv, TypeOK
<1> QED
  BY <1>9, <1>10 DEF IInv, Fresh, Accepted, Busy

\* What a fiber carries is handed to a process.
LEMMA HandMoves ==
  ASSUME IInv, NEW f \in Fibers, HandOver(f)
  PROVE  AtMostOnce' /\ Fresh' /\ Accepted'
<1>0. PICK n \in Nat : n = Len(delivered) + 1
  BY DEF IInv, TypeOK
<1> DEFINE a == <<"process", n>>  b == <<"turn", f>>
<1>1. /\ pc' = [pc EXCEPT ![f] = "turn"] /\ pc[f] \in Busy
      /\ f \in Carriers /\ Carriers' = Carriers \ {f}
  BY DEF HandOver, IInv, TypeOK, Carriers, Fibers, Busy
<1>2. \A g \in Fibers : g # f => turn'[g] = turn[g]
  BY DEF IInv, TypeOK, HandOver
<1>3. /\ DOMAIN delivered = 1 .. Len(delivered) /\ Len(delivered) \in Nat
      /\ DOMAIN delivered' = 1 .. n /\ delivered'[n].prompts = turn[f].prompts
      /\ \A i \in 1 .. Len(delivered) : delivered'[i] = delivered[i]
  <2>1. turn[f] \in Turns /\ client \in Procs /\ delivered \in Seq(Deliveries)
    BY DEF IInv, TypeOK
  <2> DEFINE d == [prompts |-> turn[f].prompts, to |-> client,
                   session |-> turn[f].session, preamble |-> turn[f].preamble]
  <2>2. d \in Deliveries /\ d.prompts = turn[f].prompts
    BY <2>1 DEF Turns, Deliveries
  <2>3. delivered' = Append(delivered, d)
    BY DEF HandOver
  <2> HIDE DEF d
  <2> QED
    BY <1>0, <2>1, <2>2, <2>3
<1>4. DOMAIN delivered' = DOMAIN delivered \cup {n} /\ n \notin DOMAIN delivered
  BY <1>0, <1>3
<1>5. /\ a \in Holders' /\ b \in Holders /\ a # b
      /\ a \notin Holders /\ b \notin Holders'
  <2>1. a \in Holders' /\ b \in Holders
    BY <1>1, <1>4 DEF Holders
  <2>2. a # b /\ a \notin Holders
    BY <1>4 DEF Holders
  <2>3. b \notin Holders'
    BY <1>1 DEF Holders
  <2> QED
    BY <2>1, <2>2, <2>3
<1>6. PromptsAt(a)' = PromptsAt(b)
  BY <1>3 DEF PromptsAt
<1>7. \A h : h # a /\ h # b => (h \in Holders' <=> h \in Holders)
  BY <1>1, <1>4 DEF Holders, HandOver
<1>8. \A h \in Holders : h # b => PromptsAt(h)' = PromptsAt(h)
  <2>1. \A i \in DOMAIN delivered : delivered'[i] = delivered[i]
    BY <1>3
  <2>2. queue' = queue
    BY DEF HandOver
  <2> QED
    BY <1>2, <2>1, <2>2 DEF Holders, PromptsAt, Carriers
<1> HIDE DEF a, b
<1>9. AtMostOnce' /\ \A u : Placed(u)' <=> Placed(u)
  BY <1>5, <1>6, <1>7, <1>8, MovedKeeps DEF IInv
<1>10. /\ \A u \in Sends : u # f => pc'[u] = pc[u]
       /\ f \in Sends => pc'[f] = "turn"
       /\ outcome' = outcome
  BY <1>1 DEF IInv, TypeOK, HandOver
<1> QED
  BY <1>1, <1>9, <1>10 DEF IInv, Fresh, Accepted, Busy

-----------------------------------------------------------------------------
\* The first state satisfies the inductive invariant.
LEMMA InitIInv == Init => IInv
<1> SUFFICES ASSUME Init PROVE IInv
  OBVIOUS
<1>1. Procs = 0 .. Cardinality(Restarts) /\ Cardinality(Restarts) \in Nat
  BY Disjoint DEF Procs
<1>2. Cardinality(Procs) = Cardinality(Restarts) + 1
  BY <1>1, FS_Interval
<1>3. TypeOK
  <2>1. NoTurn \in Turns
    BY <1>1 DEF NoTurn, Turns
  <2>2. pc \in [Fibers \cup Restarts \cup {Closer} -> Points]
    BY DEF Init, Points
  <2>3. /\ kind \in Kinds /\ session \in Procs
        /\ latch \in Nat /\ resolved \subseteq 0 .. latch
        /\ queue \in Seq(Sends) /\ delivered \in Seq(Deliveries)
        /\ client \in Procs /\ alive \subseteq Procs /\ pending \subseteq Procs
    BY <1>1 DEF Init, Kinds
  <2>4. spawned \in 1 .. Cardinality(Procs) /\ fails \in 0 .. MaxFails
    BY <1>1, <1>2, SessionAssumption DEF Init, SessionAssumption
  <2>5. /\ turn \in [Fibers -> Turns] /\ waits \in [Sends -> Nat]
        /\ outcome \in [Sends -> Outcomes]
    BY <2>1 DEF Init, Outcomes
  <2>6. preambleFired \in BOOLEAN /\ subscribed \in BOOLEAN
    BY DEF Init
  <2> QED
    BY <2>2, <2>3, <2>4, <2>5, <2>6 DEF TypeOK
<1>4. Unborn
  BY Disjoint DEF Init, Unborn, Fibers
<1>5. SpawnRoom
  <2>1. Unspawned = Restarts
    BY Disjoint DEF Init, Unspawned, Fibers
  <2> QED
    BY <1>1, <2>1 DEF Init, SpawnRoom
<1>6. Carriers = {} /\ DOMAIN delivered = {} /\ DOMAIN queue = {}
  BY DEF Init, Carriers, Fibers
<1>7. \A h \in Holders : DOMAIN PromptsAt(h) = {}
  BY <1>6 DEF Holders, PromptsAt
<1>8. AtMostOnce /\ \A s : ~Placed(s)
  BY <1>7 DEF AtMostOnce, Placed
<1>9. Fresh /\ Accepted
  BY <1>8, Disjoint DEF Init, Fresh, Accepted, Busy, Fibers
<1> QED
  BY <1>3, <1>4, <1>5, <1>8, <1>9 DEF IInv

\* A turn whose fields are set to values of their types is a turn.
LEMMA TurnTypes ==
  ASSUME TypeOK, NEW f \in Fibers
  PROVE  /\ turn[f] \in Turns /\ client \in Procs /\ session \in Procs
         /\ turn[f].session \in Procs /\ turn[f].to \in Procs
         /\ turn[f].prompts \in Seq(Sends)
         /\ \A b \in BOOLEAN :
              [turn EXCEPT ![f].preamble = b] \in [Fibers -> Turns]
         /\ \A p \in Procs, b \in BOOLEAN :
              /\ [turn EXCEPT ![f].to = p] \in [Fibers -> Turns]
              /\ [turn EXCEPT ![f].session = p] \in [Fibers -> Turns]
              /\ [turn EXCEPT ![f].to = p, ![f].heard = b]
                   \in [Fibers -> Turns]
BY ZenonT(60) DEF TypeOK, Turns

LEMMA SendPromptTypes ==
  ASSUME TypeOK, NEW f \in Fibers, NEW prompts \in Seq(Sends),
         NEW flush \in BOOLEAN, SendPrompt(f, prompts, session, flush)
  PROVE  kind' \in Kinds /\ session' \in Procs /\ turn' \in [Fibers -> Turns]
<1>1. NoTurn \in Turns
  BY Disjoint DEF NoTurn, Turns
<1>2. [NoTurn EXCEPT !.prompts = prompts, !.session = session, !.flush = flush]
        \in Turns
  BY <1>1 DEF TypeOK, Turns
<1> QED
  BY <1>2 DEF SendPrompt, TypeOK, Kinds

\* A flush keeps the types of the variables it assigns.
LEMMA FlushTypes ==
  ASSUME TypeOK, NEW f \in Fibers, FlushQueue(f)
  PROVE  /\ kind' \in Kinds /\ session' \in Procs /\ queue' \in Seq(Sends)
         /\ turn' \in [Fibers -> Turns]
         /\ pc' \in [Fibers \cup Restarts \cup {Closer} -> Points]
<1>1. queue \in Seq(Sends) /\ FALSE \in BOOLEAN
  BY DEF TypeOK
<1>2. SendPrompt(f, queue, session, FALSE)
  BY DEF FlushQueue
<1>3. kind' \in Kinds /\ session' \in Procs /\ turn' \in [Fibers -> Turns]
  BY <1>1, <1>2, SendPromptTypes
<1>4. queue' \in Seq(Sends)
  BY DEF FlushQueue
<1>5. pc' \in [Fibers \cup Restarts \cup {Closer} -> Points]
  BY DEF FlushQueue, TypeOK, Points
<1> QED
  BY <1>3, <1>4, <1>5

\* A turn's own steps: the preamble, the hand over, and its end.
LEMMA TurnSteps ==
  ASSUME IInv, NEW f \in Fibers, TurnStep(f) \/ TurnEnds(f) \/ TurnFails(f)
  PROVE  IInv'
<1> USE DEF stateVars, latchVars, procVars
<1>1. CASE AskPreamble(f)
  <2>1. TypeOK'
    BY <1>1 DEF AskPreamble, IInv, TypeOK, Points
  <2>2. Still
    BY <1>1, FiberStill DEF AskPreamble
  <2>3. AtMostOnce' /\ Fresh' /\ Accepted'
    BY <1>1, <2>2, QuietKeeps DEF AskPreamble, IInv, TypeOK, Busy
  <2>4. Unborn' /\ SpawnRoom'
    BY <1>1, FiberRoom DEF AskPreamble
  <2> QED
    BY <2>1, <2>3, <2>4 DEF IInv
<1>2. CASE MarkPreamble(f)
  <2>1. PICK b \in BOOLEAN : turn' = [turn EXCEPT ![f].preamble = b]
    BY <1>2 DEF MarkPreamble
  <2>2. turn' \in [Fibers -> Turns] /\
        \A g \in Fibers : turn'[g].prompts = turn[g].prompts
    <3>1. turn' \in [Fibers -> Turns]
      BY <2>1, TurnTypes DEF IInv
    <3>2. \A g \in Fibers : turn'[g].prompts = turn[g].prompts
      BY <2>1 DEF IInv, TypeOK, Turns
    <3> QED
      BY <3>1, <3>2
  <2>3. TypeOK'
    BY <1>2, <2>2 DEF MarkPreamble, IInv, TypeOK, Points
  <2>4. Still
    BY <1>2, <2>2, FiberStill DEF MarkPreamble
  <2>5. AtMostOnce' /\ Fresh' /\ Accepted'
    BY <1>2, <2>4, QuietKeeps DEF MarkPreamble, IInv, TypeOK, Busy
  <2>6. Unborn' /\ SpawnRoom'
    BY <1>2, FiberRoom DEF MarkPreamble
  <2> QED
    BY <2>3, <2>5, <2>6 DEF IInv
<1>3. CASE HandOver(f)
  <2>1. turn' \in [Fibers -> Turns]
    <3>1. PICK b \in BOOLEAN : b <=> client \in alive
      OBVIOUS
    <3>2. turn' = [turn EXCEPT ![f].to = client, ![f].heard = (client \in alive)]
      BY <1>3 DEF HandOver
    <3>3. (client \in alive) \in BOOLEAN
      OBVIOUS
    <3> QED
      BY <3>2, <3>3, TurnTypes DEF IInv
  <2>2. delivered' \in Seq(Deliveries)
    <3> DEFINE d == [prompts |-> turn[f].prompts, to |-> client,
                     session |-> turn[f].session, preamble |-> turn[f].preamble]
    <3>1. d \in Deliveries
      BY TurnTypes DEF IInv, Turns, Deliveries
    <3>2. delivered' = Append(delivered, d) /\ delivered \in Seq(Deliveries)
      BY <1>3 DEF HandOver, IInv, TypeOK
    <3> HIDE DEF d
    <3> QED
      BY <3>1, <3>2
  <2>3. TypeOK'
    BY <1>3, <2>1, <2>2 DEF HandOver, IInv, TypeOK, Points
  <2>4. Unborn' /\ SpawnRoom'
    BY <1>3, FiberRoom DEF HandOver
  <2> QED
    BY <1>3, <2>3, <2>4, HandMoves DEF IInv
<1>4. CASE TurnEnds(f)
  <2>1. TypeOK'
    BY <1>4, TurnTypes DEF TurnEnds, IInv, TypeOK, Points, Kinds
  <2>2. Still
    BY <1>4, FiberStill DEF TurnEnds
  <2>3. AtMostOnce' /\ Fresh' /\ Accepted'
    BY <1>4, <2>2, QuietKeeps DEF TurnEnds, IInv, TypeOK, Busy
  <2>4. Unborn' /\ SpawnRoom'
    BY <1>4, FiberRoom DEF TurnEnds
  <2> QED
    BY <2>1, <2>3, <2>4 DEF IInv
<1>5. CASE TurnFails(f)
  <2>1. PICK l \in {"done", "failing"} : pc' = [pc EXCEPT ![f] = l]
    BY <1>5 DEF TurnFails
  <2>2. outcome' \in [Sends -> Outcomes]
    BY <1>5 DEF TurnFails, IInv, TypeOK, Outcomes, Points
  <2>3. fails' \in 0 .. MaxFails
    BY <1>5, SessionAssumption DEF TurnFails, IInv, TypeOK, SessionAssumption
  <2>4. TypeOK'
    BY <1>5, <2>1, <2>2, <2>3 DEF TurnFails, IInv, TypeOK, Points
  <2>5. Still
    BY <1>5, <2>1, FiberStill DEF TurnFails
  <2>6. AtMostOnce' /\ Fresh' /\ Accepted'
    BY <1>5, <2>1, <2>5, QuietKeeps DEF TurnFails, IInv, TypeOK, Busy
  <2>7. Unborn' /\ SpawnRoom'
    BY <1>5, <2>1, FiberRoom DEF TurnFails
  <2> QED
    BY <2>4, <2>6, <2>7 DEF IInv
<1> QED
  BY <1>1, <1>2, <1>3, <1>4, <1>5 DEF TurnStep

\* send(), from the call to its return.
LEMMA SendSteps ==
  ASSUME IInv, NEW s \in Sends, Send(s) \/ SendStep(s)
  PROVE  IInv'
<1> USE DEF stateVars, latchVars, procVars
<1>0. s \in Fibers /\ s \notin Procs
  BY Disjoint DEF Fibers
<1>1. ASSUME NEW how \in {"threw", "dropped"}, Return(s, how),
             pc[s] \in {"idle", "latched"},
             UNCHANGED <<kind, session, latch, resolved, queue, client, alive,
                         spawned, subscribed, turn, waits, preambleFired, pending,
                         delivered, fails>>
      PROVE  IInv'
  <2>1. TypeOK'
    BY <1>1 DEF Return, IInv, TypeOK, Points, Outcomes
  <2>2. Still
    BY <1>0, <1>1, FiberStill DEF Return
  <2>3. AtMostOnce' /\ Fresh' /\ Accepted'
    BY <1>1, <2>2, QuietKeeps DEF Return, IInv, TypeOK, Busy
  <2>4. Unborn' /\ SpawnRoom'
    BY <1>0, <1>1, FiberRoom DEF Return
  <2> QED
    BY <2>1, <2>3, <2>4 DEF IInv
<1>2. CASE SendRefused(s)
  BY <1>1, <1>2 DEF SendRefused
<1>3. CASE SendLatched(s)
  <2>1. TypeOK'
    BY <1>3 DEF SendLatched, IInv, TypeOK, Points
  <2>2. Still
    BY <1>0, <1>3, FiberStill DEF SendLatched
  <2>3. AtMostOnce' /\ Fresh' /\ Accepted'
    BY <1>3, <2>2, QuietKeeps DEF SendLatched, IInv, TypeOK, Busy
  <2>4. Unborn' /\ SpawnRoom'
    BY <1>0, <1>3, FiberRoom DEF SendLatched
  <2> QED
    BY <2>1, <2>3, <2>4 DEF IInv
<1>4. CASE SendQueued(s)
  <2>1. TypeOK'
    <3>1. queue' \in Seq(Sends)
      BY <1>4 DEF SendQueued, IInv, TypeOK
    <3>2. outcome' \in [Sends -> Outcomes]
      BY <1>4 DEF SendQueued, Return, IInv, TypeOK, Outcomes
    <3>3. pc' \in [Fibers \cup Restarts \cup {Closer} -> Points]
      BY <1>4 DEF SendQueued, Return, IInv, TypeOK, Points
    <3> QED
      BY <1>4, <3>1, <3>2, <3>3 DEF SendQueued, IInv, TypeOK
  <2>2. Unborn' /\ SpawnRoom'
    BY <1>0, <1>4, FiberRoom DEF SendQueued, Return
  <2> QED
    BY <1>4, <2>1, <2>2, QueueArrives DEF IInv
<1>5. ASSUME NEW flush \in BOOLEAN, pc[s] \in {"idle", "latched"},
             SendPrompt(s, <<s>>, session, flush),
             pc' = [pc EXCEPT ![s] = "preparing"],
             UNCHANGED <<latch, resolved, queue, client, alive, spawned,
                         subscribed, waits, outcome, preambleFired, pending,
                         delivered, fails>>
      PROVE  IInv'
  <2>1. <<s>> \in Seq(Sends)
    OBVIOUS
  <2>2. TypeOK'
    <3>1. kind' \in Kinds /\ session' \in Procs /\ turn' \in [Fibers -> Turns]
      BY <1>0, <1>5, <2>1, SendPromptTypes DEF IInv
    <3>2. pc' \in [Fibers \cup Restarts \cup {Closer} -> Points]
      BY <1>5 DEF IInv, TypeOK, Points
    <3> QED
      BY <1>5, <3>1, <3>2 DEF IInv, TypeOK
  <2>3. AtMostOnce' /\ Fresh' /\ Accepted'
    BY <1>5, SendArrives
  <2>4. Unborn' /\ SpawnRoom'
    BY <1>0, <1>5, FiberRoom
  <2> QED
    BY <2>2, <2>3, <2>4 DEF IInv
<1>6. CASE SendDirect(s)
  BY <1>5, <1>6 DEF SendDirect
<1>7. CASE SendResumes(s)
  BY <1>1, <1>5, <1>7 DEF SendResumes
<1>8. CASE AfterTurn(s)
  <2>1. CASE FlushQueue(s) /\ UNCHANGED <<latchVars, procVars, waits, outcome,
                preambleFired, pending, delivered, fails>>
    <3>1. queue \in Seq(Sends) /\ pc[s] = "ended"
      BY <1>8 DEF IInv, TypeOK, AfterTurn
    <3>2. TypeOK'
      BY <1>0, <2>1, <3>1, FlushTypes DEF IInv, TypeOK
    <3>3. AtMostOnce' /\ Fresh' /\ Accepted'
      BY <1>0, <2>1, <3>1, FlushMoves
    <3>4. Unborn' /\ SpawnRoom'
      BY <1>0, <2>1, FiberRoom DEF FlushQueue
    <3> QED
      BY <3>2, <3>3, <3>4 DEF IInv
  <2>2. CASE Return(s, "sent") /\ UNCHANGED <<stateVars, latchVars, queue,
                procVars, turn, waits, preambleFired, pending, delivered, fails>>
    <3>1. pc[s] = "ended"
      BY <1>8 DEF AfterTurn
    <3>2. TypeOK'
      BY <2>2 DEF Return, IInv, TypeOK, Points, Outcomes
    <3>3. Still
      BY <1>0, <2>2, <3>1, FiberStill DEF Return
    <3>4. AtMostOnce' /\ Fresh' /\ Accepted'
      BY <2>2, <3>1, <3>3, QuietKeeps DEF Return, IInv, TypeOK, Busy
    <3>5. Unborn' /\ SpawnRoom'
      BY <1>0, <2>2, FiberRoom DEF Return
    <3> QED
      BY <3>2, <3>4, <3>5 DEF IInv
  <2> QED
    BY <1>8, <2>1, <2>2 DEF AfterTurn
<1> QED
  BY <1>2, <1>3, <1>4, <1>6, <1>7, <1>8 DEF Send, SendStep

\* The session initialisation of a process, from the handshake to its return.
LEMMA InitSteps ==
  ASSUME IInv, NEW p \in Procs,
         Initialized(p) \/ SessionOpened(p) \/ InitStep(p) \/ InitFails(p)
  PROVE  IInv'
<1> USE DEF stateVars, latchVars, procVars
<1>0. p \in Fibers /\ p \notin Sends /\ p \notin Restarts /\ p # Closer
  BY Disjoint DEF Fibers
<1>1. ASSUME NEW l \in Points, pc' = [pc EXCEPT ![p] = l],
             pc[p] \notin {"idle", "preparing", "composing", "composed"},
             l \notin {"preparing", "composing", "composed"},
             UNCHANGED <<queue, delivered, outcome, spawned>>,
             \A f \in Fibers : turn'[f].prompts = turn[f].prompts
      PROVE  /\ AtMostOnce' /\ Fresh' /\ Accepted' /\ Unborn' /\ SpawnRoom'
             /\ pc' \in [Fibers \cup Restarts \cup {Closer} -> Points]
  <2>1. Still
    BY <1>0, <1>1, FiberStill
  <2>2. \A s \in Sends : pc'[s] = pc[s]
    BY <1>0, <1>1 DEF IInv, TypeOK, Fibers
  <2>3. AtMostOnce' /\ Fresh' /\ Accepted'
    BY <1>1, <2>1, <2>2, QuietKeeps
  <2>4. Unborn' /\ SpawnRoom'
    BY <1>0, <1>1, FiberRoom
  <2>5. pc' \in [Fibers \cup Restarts \cup {Closer} -> Points]
    BY <1>1 DEF IInv, TypeOK
  <2> QED
    BY <2>3, <2>4, <2>5
<1> USE DEF Points
<1>2. CASE Initialized(p)
  <2>1. turn' \in [Fibers -> Turns]
    BY <1>0, <1>2, TurnTypes DEF Initialized, IInv
  <2>2. \A f \in Fibers : turn'[f].prompts = turn[f].prompts
    BY <1>0, <1>2 DEF Initialized, IInv, TypeOK, Turns
  <2>3. /\ AtMostOnce' /\ Fresh' /\ Accepted' /\ Unborn' /\ SpawnRoom'
        /\ pc' \in [Fibers \cup Restarts \cup {Closer} -> Points]
    BY <1>1, <1>2, <2>2 DEF Initialized
  <2> QED
    BY <1>2, <2>1, <2>3 DEF Initialized, IInv, TypeOK
<1>3. CASE SessionOpened(p)
  <2>1. turn' \in [Fibers -> Turns]
    BY <1>0, <1>3, TurnTypes DEF SessionOpened, IInv
  <2>2. \A f \in Fibers : turn'[f].prompts = turn[f].prompts
    BY <1>0, <1>3 DEF SessionOpened, IInv, TypeOK, Turns
  <2>3. /\ AtMostOnce' /\ Fresh' /\ Accepted' /\ Unborn' /\ SpawnRoom'
        /\ pc' \in [Fibers \cup Restarts \cup {Closer} -> Points]
    BY <1>1, <1>3, <2>2 DEF SessionOpened
  <2> QED
    BY <1>3, <2>1, <2>3 DEF SessionOpened, IInv, TypeOK
<1>4. CASE SessionStored(p)
  <2>1. turn[p].session \in Procs
    BY <1>0, TurnTypes DEF IInv
  <2>2. /\ AtMostOnce' /\ Fresh' /\ Accepted' /\ Unborn' /\ SpawnRoom'
        /\ pc' \in [Fibers \cup Restarts \cup {Closer} -> Points]
    BY <1>1, <1>4 DEF SessionStored
  <2> QED
    BY <1>4, <2>1, <2>2 DEF SessionStored, IInv, TypeOK, Kinds
<1>5. CASE InitFlushes(p)
  <2>1. FlushQueue(p) /\ pc[p] = "readied"
    BY <1>5 DEF InitFlushes
  <2>2. TypeOK'
    BY <1>0, <1>5, <2>1, FlushTypes DEF InitFlushes, IInv, TypeOK
  <2>3. AtMostOnce' /\ Fresh' /\ Accepted'
    BY <1>0, <1>5, <2>1, FlushMoves DEF InitFlushes
  <2>4. Unborn' /\ SpawnRoom'
    BY <1>0, <1>5, <2>1, FiberRoom DEF InitFlushes, FlushQueue
  <2> QED
    BY <2>2, <2>3, <2>4 DEF IInv
<1>6. CASE InitReturns(p)
  <2>1. resolved' \subseteq 0 .. latch'
    BY <1>6 DEF InitReturns, IInv, TypeOK
  <2>2. /\ AtMostOnce' /\ Fresh' /\ Accepted' /\ Unborn' /\ SpawnRoom'
        /\ pc' \in [Fibers \cup Restarts \cup {Closer} -> Points]
    BY <1>1, <1>6 DEF InitReturns
  <2> QED
    BY <1>6, <2>1, <2>2 DEF InitReturns, IInv, TypeOK
<1>7. CASE InitErrs(p)
  <2>1. /\ AtMostOnce' /\ Fresh' /\ Accepted' /\ Unborn' /\ SpawnRoom'
        /\ pc' \in [Fibers \cup Restarts \cup {Closer} -> Points]
    BY <1>1, <1>7 DEF InitErrs
  <2> QED
    BY <1>7, <2>1 DEF InitErrs, IInv, TypeOK, Kinds
<1>8. CASE InitFails(p)
  <2>1. fails' \in 0 .. MaxFails
    BY <1>8, SessionAssumption DEF InitFails, IInv, TypeOK, SessionAssumption
  <2>2. /\ AtMostOnce' /\ Fresh' /\ Accepted' /\ Unborn' /\ SpawnRoom'
        /\ pc' \in [Fibers \cup Restarts \cup {Closer} -> Points]
    BY <1>1, <1>8 DEF InitFails
  <2> QED
    BY <1>8, <2>1, <2>2 DEF InitFails, IInv, TypeOK
<1> QED
  BY <1>2, <1>3, <1>4, <1>5, <1>6, <1>7, <1>8 DEF InitStep

\* A restart, from the old process's end to the new one's first call.
LEMMA RestartSteps ==
  ASSUME IInv, NEW r \in Restarts,
         Restart(r) \/ Spawned(r) \/ SpawnFails(r) \/ RestartGivesUp(r)
  PROVE  IInv'
<1> USE DEF stateVars, latchVars, procVars
<1>0. r \notin Fibers
  BY Disjoint DEF Fibers
<1>1. ASSUME NEW l \in Points, pc' = [pc EXCEPT ![r] = l],
             pc[r] \in {"idle", "spawning"} \/ l \notin {"idle", "spawning"},
             UNCHANGED <<queue, delivered, outcome, spawned, turn>>
      PROVE  /\ AtMostOnce' /\ Fresh' /\ Accepted' /\ Unborn' /\ SpawnRoom'
             /\ pc' \in [Fibers \cup Restarts \cup {Closer} -> Points]
  <2>1. \A f \in Fibers \cup Restarts : f # r => pc'[f] = pc[f]
    BY <1>1 DEF IInv, TypeOK
  <2>2. AtMostOnce' /\ Fresh' /\ Accepted'
    BY <1>0, <1>1, <2>1, OtherStill DEF Fibers
  <2>3. pc'[r] = l
    BY <1>1 DEF IInv, TypeOK
  <2>4. Unborn' /\ SpawnRoom'
    BY <1>0, <1>1, <2>1, <2>3, RoomKeeps DEF Fibers
  <2>5. pc' \in [Fibers \cup Restarts \cup {Closer} -> Points]
    BY <1>1 DEF IInv, TypeOK
  <2> QED
    BY <2>2, <2>4, <2>5
<1>2. CASE Restart(r)
  <2>1. /\ AtMostOnce' /\ Fresh' /\ Accepted' /\ Unborn' /\ SpawnRoom'
        /\ pc' \in [Fibers \cup Restarts \cup {Closer} -> Points]
    BY <1>1, <1>2 DEF Restart, Points
  <2>2. latch' \in Nat /\ resolved' \subseteq 0 .. latch'
    BY <1>2 DEF Restart, IInv, TypeOK
  <2> QED
    BY <1>2, <2>1, <2>2 DEF Restart, IInv, TypeOK, Kinds
<1>3. CASE SpawnFails(r)
  <2>1. /\ AtMostOnce' /\ Fresh' /\ Accepted' /\ Unborn' /\ SpawnRoom'
        /\ pc' \in [Fibers \cup Restarts \cup {Closer} -> Points]
    BY <1>1, <1>3 DEF SpawnFails, Points
  <2>2. fails' \in 0 .. MaxFails
    BY <1>3, SessionAssumption DEF SpawnFails, IInv, TypeOK, SessionAssumption
  <2> QED
    BY <1>3, <2>1, <2>2 DEF SpawnFails, IInv, TypeOK, Kinds
<1>4. CASE RestartGivesUp(r)
  <2>1. /\ AtMostOnce' /\ Fresh' /\ Accepted' /\ Unborn' /\ SpawnRoom'
        /\ pc' \in [Fibers \cup Restarts \cup {Closer} -> Points]
    BY <1>1, <1>4 DEF RestartGivesUp, Points
  <2>2. resolved' \subseteq 0 .. latch'
    BY <1>4 DEF RestartGivesUp, IInv, TypeOK
  <2> QED
    BY <1>4, <2>1, <2>2 DEF RestartGivesUp, IInv, TypeOK
<1>5. CASE Spawned(r)
  \* The restart's own place becomes the number of its process.
  <2>1. Unspawned \in SUBSET Restarts /\ IsFiniteSet(Unspawned) /\ r \in Unspawned
    <3>1. Unspawned \in SUBSET Restarts /\ r \in Unspawned
      BY <1>5 DEF Spawned, Unspawned
    <3> QED
      BY <3>1, Disjoint, FS_Subset
  <2>2. /\ IsFiniteSet(Unspawned \ {r})
        /\ Cardinality(Unspawned \ {r}) = Cardinality(Unspawned) - 1
        /\ Cardinality(Unspawned) \in Nat /\ Cardinality(Unspawned \ {r}) \in Nat
    BY <2>1, FS_RemoveElement, FS_CardinalityType
  <2>3. spawned \in Procs /\ spawned \in Nat /\ spawned \in Fibers
    BY <2>2, Disjoint DEF IInv, TypeOK, SpawnRoom, Procs, Fibers
  <2>4. /\ spawned \notin Sends /\ spawned \notin Restarts /\ spawned # r
        /\ pc[spawned] = "idle"
    BY <2>3, Disjoint DEF IInv, Unborn
  <2>5. /\ pc' = [pc EXCEPT ![r] = "done", ![spawned] = "handshaking"]
        /\ pc' \in [Fibers \cup Restarts \cup {Closer} -> Points]
        /\ \A f \in Fibers \cup Restarts :
             pc'[f] = IF f = r THEN "done"
                      ELSE IF f = spawned THEN "handshaking" ELSE pc[f]
    BY <1>5, <2>3, <2>4 DEF Spawned, IInv, TypeOK, Points
  <2>6. turn' = [turn EXCEPT ![spawned].to = spawned]
    BY <1>5 DEF Spawned
  <2>7. turn' \in [Fibers -> Turns]
    BY <2>3, <2>6, TurnTypes DEF IInv
  <2>8. \A f \in Fibers : turn'[f].prompts = turn[f].prompts
    BY <2>3, <2>6 DEF IInv, TypeOK, Turns
  <2>9. AtMostOnce' /\ Fresh' /\ Accepted'
    <3>1. \A s \in Sends : pc'[s] = pc[s]
      BY <1>0, <2>4, <2>5 DEF Fibers
    <3>2. \A p \in Procs : pc[p] \in {"preparing", "composing", "composed"} <=>
                           pc'[p] \in {"preparing", "composing", "composed"}
      BY <1>0, <2>4, <2>5 DEF Fibers
    <3> QED
      BY <1>5, <2>8, <3>1, <3>2, OtherStill DEF Spawned
  <2>10. Unborn'
    BY <1>0, <1>5, <2>3, <2>5, Disjoint DEF Spawned, IInv, Unborn, Fibers
  <2>11. Unspawned' = Unspawned \ {r}
    BY <2>4, <2>5 DEF Unspawned
  <2>12. SpawnRoom'
    BY <1>5, <2>2, <2>3, <2>11, Disjoint DEF Spawned, IInv, SpawnRoom
  <2>13. spawned' \in 1 .. Cardinality(Procs)
    <3>1. Cardinality(Procs) = Cardinality(Restarts) + 1
      BY Disjoint, FS_Interval DEF Procs
    <3> QED
      BY <1>5, <2>3, <3>1, Disjoint DEF Spawned, Procs
  <2>14. client' \in Procs /\ alive' \subseteq Procs
    BY <1>5, <2>3 DEF Spawned, IInv, TypeOK
  <2>15. TypeOK'
    BY <1>5, <2>5, <2>7, <2>13, <2>14 DEF Spawned, IInv, TypeOK
  <2> QED
    BY <2>9, <2>10, <2>12, <2>15 DEF IInv
<1> QED
  BY <1>2, <1>3, <1>4, <1>5

\* close(), and the permission requests.
LEMMA OtherSteps ==
  ASSUME IInv,
         \/ Close \/ Closed
         \/ \E p \in Procs : PermissionAsked(p) \/ PermissionAnswered(p)
  PROVE  IInv'
<1> USE DEF stateVars, latchVars, procVars
<1>0. Closer \notin Fibers /\ Closer \notin Restarts
  BY Disjoint DEF Fibers
<1>1. ASSUME UNCHANGED <<queue, delivered, outcome, spawned, turn>>,
             \A f \in Fibers \cup Restarts : pc'[f] = pc[f]
      PROVE  AtMostOnce' /\ Fresh' /\ Accepted' /\ Unborn' /\ SpawnRoom'
  BY <1>1, OtherStill, RoomKeeps DEF Fibers
<1>2. CASE Close
  <2>1. /\ \A f \in Fibers \cup Restarts : pc'[f] = pc[f]
        /\ pc' \in [Fibers \cup Restarts \cup {Closer} -> Points]
    BY <1>0, <1>2 DEF Close, IInv, TypeOK, Points
  <2> QED
    BY <1>1, <1>2, <2>1 DEF Close, IInv, TypeOK, Kinds
<1>3. CASE Closed
  <2>1. /\ \A f \in Fibers \cup Restarts : pc'[f] = pc[f]
        /\ pc' \in [Fibers \cup Restarts \cup {Closer} -> Points]
    BY <1>0, <1>3 DEF Closed, IInv, TypeOK, Points
  <2>2. resolved' \subseteq 0 .. latch'
    BY <1>3 DEF Closed, IInv, TypeOK
  <2> QED
    BY <1>1, <1>3, <2>1, <2>2 DEF Closed, IInv, TypeOK
<1>4. ASSUME NEW p \in Procs, PermissionAsked(p) \/ PermissionAnswered(p)
      PROVE  IInv'
  <2>1. UNCHANGED <<kind, session, latch, resolved, queue, client, alive, spawned,
                    subscribed, pc, turn, waits, outcome, preambleFired, delivered, fails>>
    BY <1>4 DEF PermissionAsked, PermissionAnswered
  <2>2. pending' \subseteq Procs
    BY <1>4 DEF PermissionAsked, PermissionAnswered, IInv, TypeOK
  <2> QED
    BY <1>1, <2>1, <2>2 DEF IInv, TypeOK
<1> QED
  BY <1>2, <1>3, <1>4

\* Every step keeps the inductive invariant.
LEMMA StepIInv == IInv /\ [Next]_vars => IInv'
<1> SUFFICES ASSUME IInv, [Next]_vars PROVE IInv'
  OBVIOUS
<1>1. CASE UNCHANGED vars
  BY <1>1 DEF vars, stateVars, latchVars, procVars, IInv, TypeOK, Unborn,
     SpawnRoom, Unspawned, AtMostOnce, Fresh, Accepted, Placed, Holders,
     PromptsAt, Carriers
<1> QED
  BY <1>1, TurnSteps, SendSteps, InitSteps, RestartSteps, OtherSteps DEF Next

\* Every state of an agent satisfies the inductive invariant.
LEMMA SpecIInv == Spec => []IInv
BY InitIInv, StepIInv, PTL DEF Spec

-----------------------------------------------------------------------------
\* The agent's fields and its fibers have their types, and no more processes
\* are spawned than there are restarts to spawn them.
THEOREM TypeCorrect == Spec => []TypeOK
<1>1. IInv => TypeOK
  BY DEF IInv
<1> QED
  BY <1>1, SpecIInv, PTL

\* However sends, restarts, failures, the close and the answers of killed
\* processes interleave, no prompt reaches a process twice.
THEOREM PromptsReachAtMostOnce == Spec => []AtMostOnce
<1>1. IInv => AtMostOnce
  BY DEF IInv
<1> QED
  BY <1>1, SpecIInv, PTL

\* No prompt that was accepted is dropped, in the same interleavings.
THEOREM AcceptedIsKept == Spec => []NothingLost
<1>1. IInv => NothingLost
  BY DEF IInv, Accepted, NothingLost, Placed
<1> QED
  BY <1>1, SpecIInv, PTL

-----------------------------------------------------------------------------
(* What holds when a restart or the close finds the agent at rest.         *)

\* At most one restart is spawning, and then nothing is alive; the one process
\* that can be alive is the client's, and none is when the agent is closed.
Lifecycle ==
  ~Overlap =>
    /\ alive \subseteq {client}
    /\ kind = "closed" => alive = {}
    /\ \A r \in Restarts : pc[r] = "spawning" => alive = {} /\ kind # "closed"
    /\ \A q, r \in Restarts : pc[q] = "spawning" /\ pc[r] = "spawning" => q = r

\* A closed agent opens no session and listens to nobody; who listens to
\* nobody has no process that could ask.
Final ==
  ~Overlap /\ ~Late =>
    /\ \A p \in Procs : kind = "closed" =>
         pc[p] \notin {"handshaking", "opening", "storing"}
    /\ kind = "closed" => ~subscribed
    /\ ~subscribed => alive = {} /\ pending = {}

LInv == Lifecycle /\ Final

\* Steps that kill and spawn nothing and do not touch the restarts.
LEMMA LifecycleKept ==
  ASSUME Lifecycle, UNCHANGED <<alive, client>>,
         kind' = kind \/ kind' # "closed",
         ~Overlap => \A r \in Restarts : pc'[r] = "spawning" =>
           pc[r] = "spawning" /\ (kind' = kind \/ kind' # "closed")
  PROVE  Lifecycle'
BY DEF Lifecycle

LEMMA InitLInv == Init => LInv
BY Disjoint DEF Init, LInv, Lifecycle, Final, Fibers

\* The steps of sends, turns and initialisations.
LEMMA FiberLInv ==
  ASSUME TypeOK, LInv, NEW f \in Fibers,
         \/ TurnStep(f) \/ TurnEnds(f) \/ TurnFails(f)
         \/ f \in Sends /\ (Send(f) \/ SendStep(f))
         \/ f \in Procs /\ \/ Initialized(f) \/ SessionOpened(f)
                           \/ InitStep(f) \/ InitFails(f)
  PROVE  LInv' /\ (~Overlap /\ ~Late /\ kind = "closed" => kind' = "closed")
<1> USE DEF stateVars, latchVars, procVars
<1>0. f \notin Restarts /\ f # Closer
  BY Disjoint DEF Fibers
<1>1. /\ UNCHANGED <<alive, client, pending, subscribed>>
      /\ \E l \in Points : pc' = [pc EXCEPT ![f] = l]
      /\ kind' = kind \/ kind' # "closed"
  BY DEF TurnStep, AskPreamble, MarkPreamble, HandOver, TurnEnds, TurnFails,
     Send, SendRefused, SendLatched, SendQueued, SendDirect, SendStep,
     SendResumes, AfterTurn, FlushQueue, SendPrompt, Return, Initialized,
     SessionOpened, InitStep, SessionStored, InitFlushes, InitReturns,
     InitErrs, InitFails, Points
<1>2. \A g \in Procs \cup Restarts \cup {Closer} : g # f => pc'[g] = pc[g]
  BY <1>1 DEF TypeOK, Fibers
<1>3. Lifecycle'
  BY <1>0, <1>1, <1>2, LifecycleKept DEF LInv
<1>4. ASSUME ~Overlap, ~Late, kind = "closed" PROVE kind' = "closed"
  <2>1. alive = {} /\ (f \in Procs => pc[f] # "storing")
    BY <1>4 DEF LInv, Lifecycle, Final
  <2> QED
    BY <1>4, <2>1 DEF TurnStep, AskPreamble, MarkPreamble, HandOver, TurnEnds,
       MayAnswer, TurnFails, Send, SendRefused, SendLatched, SendQueued,
       SendDirect, SendStep, SendResumes, AfterTurn, FlushQueue, SendPrompt,
       Return, Initialized, SessionOpened, InitStep, SessionStored,
       InitFlushes, InitReturns, InitErrs, InitFails
<1>5. Final'
  <2> SUFFICES ASSUME ~Overlap, ~Late PROVE Final'
    BY DEF Final
  <2>1. kind' = "closed" => kind = "closed"
    BY <1>1
  <2>2. /\ kind' = "closed" => ~subscribed'
        /\ ~subscribed' => alive' = {} /\ pending' = {}
    BY <1>1, <2>1 DEF LInv, Final
  <2>4. ASSUME kind = "closed", f \in Procs,
               pc'[f] \in {"handshaking", "opening", "storing"}
        PROVE  FALSE
    <3>1. pc[f] \notin {"handshaking", "opening", "storing"}
      BY <2>4 DEF LInv, Final
    <3>2. f \notin Sends
      BY <2>4, Disjoint
    <3>3. pc'[f] \in {"composing", "composed", "turn", "ended", "failing",
                      "done", "readied", "preparing", "errored"}
      BY <3>1, <3>2 DEF TypeOK, TurnStep, AskPreamble, MarkPreamble, HandOver,
         TurnEnds, TurnFails, Initialized, SessionOpened, InitStep,
         SessionStored, InitFlushes, FlushQueue, InitReturns, InitErrs,
         InitFails
    <3> QED
      BY <2>4, <3>3
  <2>5. \A p \in Procs : kind' = "closed" =>
          pc'[p] \notin {"handshaking", "opening", "storing"}
    BY <1>2, <2>1, <2>4 DEF LInv, Final
  <2> QED
    BY <2>2, <2>5 DEF Final
<1> QED
  BY <1>3, <1>4, <1>5 DEF LInv

\* The steps of restarts.
LEMMA RestartLInv ==
  ASSUME TypeOK, LInv, NEW r \in Restarts,
         Restart(r) \/ Spawned(r) \/ SpawnFails(r) \/ RestartGivesUp(r)
  PROVE  LInv' /\ (~Overlap /\ kind = "closed" /\ kind' # "closed" => Restart(r))
<1> USE DEF stateVars, latchVars, procVars
<1>0. r \notin Fibers /\ r # Closer
  BY Disjoint DEF Fibers
<1> SUFFICES ASSUME ~Overlap
             PROVE  LInv' /\ (kind = "closed" /\ kind' # "closed" => Restart(r))
  BY DEF LInv, Lifecycle, Final
<1>1. CASE Restart(r)
  <2>1. AtRest /\ kind' = "initializing"
    BY <1>1 DEF Restart
  <2>2. /\ \A q \in Restarts : q # r => pc'[q] = pc[q] /\ pc[q] # "spawning"
    BY <1>0, <1>1, <2>1 DEF Restart, AtRest, TypeOK
  <2>3. alive' = {} /\ UNCHANGED <<pending, subscribed>>
    BY <1>1 DEF Restart, LInv, Lifecycle
  <2> QED
    BY <1>1, <2>1, <2>2, <2>3 DEF LInv, Lifecycle, Final
<1>2. CASE Spawned(r)
  <2>1. alive = {} /\ kind # "closed" /\ kind' = kind /\ subscribed'
    BY <1>2 DEF Spawned, LInv, Lifecycle
  <2>2. alive' = {spawned} /\ client' = spawned
    BY <1>2, <2>1 DEF Spawned
  <2>3. /\ pc' = [pc EXCEPT ![r] = "done", ![spawned] = "handshaking"]
        /\ spawned \in Nat
    BY <1>2 DEF Spawned, TypeOK
  <2>4. spawned \notin Restarts /\ spawned # Closer
    BY <2>3, SessionAssumption DEF SessionAssumption
  <2>5. \A q \in Restarts : pc'[q] = IF q = r THEN "done" ELSE pc[q]
    BY <1>0, <2>3, <2>4 DEF TypeOK
  <2>6. pc[r] = "spawning"
    BY <1>2 DEF Spawned
  <2>7. \A q \in Restarts : pc[q] = "spawning" => q = r
    BY <2>6 DEF LInv, Lifecycle
  <2>8. \A q \in Restarts : pc'[q] # "spawning"
    BY <2>5, <2>7
  <2>9. Lifecycle'
    BY <2>1, <2>2, <2>8 DEF Lifecycle
  <2>10. Final'
    BY <2>1 DEF Final
  <2> QED
    BY <2>1, <2>9, <2>10 DEF LInv
<1>3. CASE SpawnFails(r)
  <2>1. /\ \A g \in Procs \cup Restarts \cup {Closer} : g # r => pc'[g] = pc[g]
        /\ pc'[r] = "errored" /\ kind' = "error" /\ kind # "closed"
        /\ UNCHANGED <<alive, client, pending, subscribed>>
    BY <1>3 DEF SpawnFails, TypeOK, Fibers, LInv, Lifecycle
  <2> QED
    BY <1>0, <2>1 DEF LInv, Lifecycle, Final
<1>4. CASE RestartGivesUp(r)
  <2>1. /\ \A g \in Procs \cup Restarts \cup {Closer} : g # r => pc'[g] = pc[g]
        /\ pc'[r] = "done" /\ UNCHANGED <<kind, alive, client, pending, subscribed>>
    BY <1>4 DEF RestartGivesUp, TypeOK, Fibers
  <2> QED
    BY <1>0, <2>1 DEF LInv, Lifecycle, Final, Fibers
<1> QED
  BY <1>1, <1>2, <1>3, <1>4

\* Nothing but a restart ends closed.
ClosedStays ==
  ~Overlap /\ ~Late /\ kind = "closed" /\ kind' # "closed" =>
    \E r \in Restarts : pc[r] = "idle" /\ pc'[r] = "spawning"

\* A restart that begins is one.
LEMMA RestartBegins ==
  ASSUME TypeOK, NEW r \in Restarts, Restart(r)
  PROVE  pc[r] = "idle" /\ pc'[r] = "spawning"
BY DEF Restart, TypeOK

\* Every step keeps it, and a closed agent closed, or is a restart.
LEMMA StepLInv ==
  TypeOK /\ LInv /\ [Next]_vars => LInv' /\ ClosedStays
<1> SUFFICES ASSUME TypeOK, LInv, [Next]_vars
             PROVE  LInv' /\ ClosedStays
  OBVIOUS
<1> USE DEF stateVars, latchVars, procVars
<1>0. Closer \notin Fibers /\ Closer \notin Restarts
  BY Disjoint DEF Fibers
<1>1. CASE Close
  <2>1. /\ \A g \in Procs \cup Restarts : pc'[g] = pc[g]
        /\ kind' = "closed" /\ pending' = {} /\ ~subscribed'
    BY <1>0, <1>1 DEF Close, TypeOK, Fibers
  <2>2. ~Overlap => alive' = {}
    BY <1>1 DEF Close, LInv, Lifecycle
  <2>3. ~Overlap => \A g \in Procs \cup Restarts :
                      pc[g] \in {"idle", "turn", "done"}
    BY <1>1 DEF Close, AtRest, TypeOK, Fibers
  <2> QED
    BY <2>1, <2>2, <2>3 DEF LInv, Lifecycle, Final, ClosedStays
<1>2. CASE Closed
  <2>1. /\ \A g \in Procs \cup Restarts : pc'[g] = pc[g]
        /\ UNCHANGED <<kind, alive, client, pending, subscribed>>
    BY <1>0, <1>2 DEF Closed, TypeOK, Fibers
  <2> QED
    BY <2>1 DEF LInv, Lifecycle, Final, ClosedStays
<1>3. ASSUME NEW p \in Procs, PermissionAsked(p) PROVE LInv' /\ kind' = kind
  <2>1. UNCHANGED <<kind, alive, client, pc, subscribed>>
    BY <1>3 DEF PermissionAsked
  <2>2. ~Overlap /\ ~Late => subscribed
    BY <1>3 DEF PermissionAsked, MayAnswer, LInv, Lifecycle, Final
  <2>3. Lifecycle'
    BY <2>1 DEF LInv, Lifecycle
  <2>4. Final'
    BY <2>1, <2>2 DEF LInv, Final
  <2> QED
    BY <2>1, <2>3, <2>4 DEF LInv
<1>4. ASSUME NEW p \in Procs, PermissionAnswered(p) PROVE LInv' /\ kind' = kind
  BY <1>4 DEF PermissionAnswered, LInv, Lifecycle, Final
<1>5. CASE UNCHANGED vars
  BY <1>5 DEF vars, LInv, Lifecycle, Final, ClosedStays
<1>6. Sends \subseteq Fibers /\ Procs \subseteq Fibers
  BY DEF Fibers
<1>7. ASSUME NEW r \in Restarts,
             Restart(r) \/ Spawned(r) \/ SpawnFails(r) \/ RestartGivesUp(r)
      PROVE  LInv' /\ ClosedStays
  BY <1>7, RestartLInv, RestartBegins DEF ClosedStays
<1>8. ASSUME NEW f \in Fibers,
         \/ TurnStep(f) \/ TurnEnds(f) \/ TurnFails(f)
         \/ f \in Sends /\ (Send(f) \/ SendStep(f))
         \/ f \in Procs /\ \/ Initialized(f) \/ SessionOpened(f)
                           \/ InitStep(f) \/ InitFails(f)
      PROVE  LInv' /\ ClosedStays
  BY <1>8, FiberLInv DEF ClosedStays
<1>9. kind' = kind => ClosedStays
  BY DEF ClosedStays
<1> QED
  BY <1>1, <1>2, <1>3, <1>4, <1>5, <1>6, <1>7, <1>8, <1>9 DEF Next

LEMMA SpecLInv == Spec => []LInv
<1>1. IInv => TypeOK
  BY DEF IInv
<1>2. TypeOK /\ LInv /\ [Next]_vars => LInv'
  BY StepLInv
<1> QED
  BY <1>1, <1>2, InitLInv, SpecIInv, PTL DEF Spec

\* When restarts and the close find the agent at rest, no process is left
\* behind by any of them.
THEOREM NothingIsLeftBehind == Spec => []NoProcessLeftBehind
<1>1. LInv => NoProcessLeftBehind
  BY DEF LInv, Lifecycle, NoProcessLeftBehind
<1> QED
  BY <1>1, SpecLInv, PTL

\* ... if killed processes are silent too, nothing but a restart brings a
\* closed agent back,
THEOREM OnlyARestartReopens == Spec => ClosedUntilRestarted
<1>1. TypeOK /\ LInv /\ [Next]_vars => [ClosedStays]_vars
  BY StepLInv
<1>2. IInv => TypeOK
  BY DEF IInv
<1> QED
  BY <1>1, <1>2, SpecLInv, SpecIInv, PTL
  DEF Spec, ClosedUntilRestarted, ClosedStays

\* ... and a permission request that is pending can be answered, and never
\* outlives the agent it was made of, restarted or not.
THEOREM PermissionsEnd == Spec => []PermissionsUnwind
<1>1. LInv => PermissionsUnwind
  BY DEF LInv, Final, PermissionsUnwind
<1> QED
  BY <1>1, SpecLInv, PTL

-----------------------------------------------------------------------------
(* Whole turns.  A killed process that answers late has had a turn, so what  *)
(* holds with silent processes holds anyway until the first turn is handed   *)
(* over.                                                                     *)

Orderly == ~Overlap /\ (~Late \/ delivered = <<>>)

Opens(p) == pc[p] \in {"handshaking", "opening", "storing"}
Runs(f) == pc[f] = "turn" /\ turn[f].to \in alive
Active(f) == f \in Carriers \/ Runs(f)
Spawning == \E r \in Restarts : pc[r] = "spawning"

\* Processes are numbered in the order they are spawned.
Born == /\ client < spawned
        /\ \A f \in Fibers : pc[f] = "turn" => turn[f].to < spawned

\* One fiber carries a prompt or runs a turn, or one process opens its session,
\* or a process is spawned, or the agent is ready for what comes;
OneAtWork ==
  /\ \A f, g \in Fibers : Active(f) /\ Active(g) => f = g
  /\ \A f \in Fibers : Active(f) =>
       ~Spawning /\ kind # "ready" /\ \A p \in Procs : ~Opens(p)
  /\ \A p \in Procs : Opens(p) => ~Spawning /\ kind # "ready" /\ p = client
  /\ kind = "ready" => ~Spawning

\* each with the client's process, which is alive, and with its session.
WithClient ==
  /\ \A f \in Fibers : Active(f) => client \in alive /\ turn[f].session = client
  /\ \A p \in Procs : Opens(p) =>
       /\ client \in alive /\ turn[p].to = client
       /\ pc[p] = "storing" => turn[p].session = client
  /\ kind = "ready" => session = client /\ client \in alive

\* The preamble goes with the first turn that is handed over, or with none.
FirstOnly ==
  ~Overlap =>
    /\ \A f \in Fibers :
         /\ delivered = <<>> => pc[f] \notin {"turn", "ended"}
         /\ delivered # <<>> => pc[f] \notin {"composing", "composed"}
         /\ pc[f] = "preparing" => ~turn[f].preamble
         /\ pc[f] = "composed" => preambleFired
    /\ delivered # <<>> => preambleFired
    /\ \A i \in DOMAIN delivered : delivered[i].preamble => i = 1

Homes == ~Overlap /\ ~Late =>
           \A i \in DOMAIN delivered : delivered[i].session = delivered[i].to

WInv == Born /\ FirstOnly /\ Homes /\ (Orderly => OneAtWork /\ WithClient)

LEMMA InitWInv == Init => WInv
<1> SUFFICES ASSUME Init PROVE WInv
  OBVIOUS
<1>1. /\ \A f \in Fibers : pc[f] \in {"idle", "handshaking"}
      /\ \A r \in Restarts : pc[r] = "idle"
      /\ \A p \in Procs : Opens(p) => p = 0 /\ pc[p] = "handshaking"
  BY Disjoint DEF Init, Fibers, Opens
<1>2. \A f \in Fibers : ~Active(f)
  BY <1>1 DEF Active, Carriers, Runs
<1>3. OneAtWork /\ WithClient
  BY <1>1, <1>2, Disjoint DEF Init, OneAtWork, WithClient, Spawning, NoTurn, Fibers
<1>4. Born
  BY <1>1 DEF Init, Born
<1>5. FirstOnly /\ Homes
  BY <1>1 DEF Init, FirstOnly, Homes
<1> QED
  BY <1>3, <1>4, <1>5 DEF WInv

\* Steps that begin no turn, hand none over and end none well.
Calm ==
  /\ UNCHANGED <<alive, client, spawned, delivered, preambleFired>>
  /\ \A f \in Fibers :
       pc'[f] \in {"preparing", "composing", "composed", "turn", "ended"} =>
         pc'[f] = pc[f] /\ turn'[f] = turn[f]
  /\ Orderly => \A p \in Procs : Opens(p)' =>
       /\ Opens(p) /\ turn'[p].to = client
       /\ pc'[p] = "storing" => turn'[p].session = client
  /\ \A r \in Restarts : pc'[r] = "spawning" => pc[r] = "spawning"
  /\ kind' = "ready" => kind = "ready" /\ session' = session

LEMMA CalmKeeps ==
  ASSUME WInv, Calm
  PROVE  WInv'
<1>1. \A f \in Fibers : Active(f)' => Active(f) /\ turn'[f] = turn[f]
  BY DEF Calm, Active, Carriers, Runs
<1>2. Born'
  BY DEF WInv, Born, Calm
<1>3. FirstOnly' /\ Homes'
  BY DEF WInv, FirstOnly, Homes, Calm
<1>4. ASSUME Orderly' PROVE OneAtWork' /\ WithClient'
  <2>1. Orderly /\ OneAtWork /\ WithClient
    BY <1>4 DEF Orderly, WInv, Calm
  <2>2. Spawning' => Spawning
    BY DEF Spawning, Calm
  <2>3. OneAtWork'
    BY <1>1, <2>1, <2>2 DEF OneAtWork, Calm
  <2>4. WithClient'
    BY <1>1, <2>1 DEF WithClient, Calm
  <2> QED
    BY <2>3, <2>4
<1> QED
  BY <1>2, <1>3, <1>4 DEF WInv

\* A ready agent begins a turn.
LEMMA BeginKeeps ==
  ASSUME TypeOK, WInv, NEW f \in Fibers, pc[f] # "turn", kind = "ready",
         NEW prompts \in Seq(Sends), NEW flush \in BOOLEAN,
         SendPrompt(f, prompts, session, flush),
         pc' = [pc EXCEPT ![f] = "preparing"],
         UNCHANGED <<alive, client, spawned, delivered, preambleFired>>
  PROVE  WInv'
<1>1. /\ kind' = "prompting" /\ session' = session
      /\ turn'[f].session = session /\ turn'[f].preamble = FALSE
      /\ \A g \in Fibers : g # f => turn'[g] = turn[g]
  BY DEF SendPrompt, NoTurn, TypeOK
<1>2. /\ pc'[f] = "preparing"
      /\ \A g \in Fibers \cup Restarts : g # f => pc'[g] = pc[g]
  BY DEF TypeOK
<1>3. f \notin Restarts
  BY Disjoint DEF Fibers
<1>4. Born'
  BY <1>1, <1>2 DEF WInv, Born
<1>5. FirstOnly' /\ Homes'
  BY <1>1, <1>2 DEF WInv, FirstOnly, Homes
<1>6. ASSUME Orderly' PROVE OneAtWork' /\ WithClient'
  <2>1. Orderly /\ OneAtWork /\ WithClient
    BY <1>6 DEF Orderly, WInv
  <2>2. \A g \in Fibers : g # f => (Active(g)' <=> Active(g))
    BY <1>1, <1>2 DEF Active, Carriers, Runs
  <2>3. \A g \in Fibers : Active(g)' => g = f
    BY <2>1, <2>2 DEF OneAtWork
  <2>4. \A p \in Procs : ~Opens(p)'
    BY <1>2, <2>1 DEF OneAtWork, Opens, Fibers
  <2>5. ~Spawning'
    BY <1>2, <1>3, <2>1 DEF OneAtWork, Spawning
  <2> QED
    BY <1>1, <2>1, <2>3, <2>4, <2>5 DEF OneAtWork, WithClient
<1> QED
  BY <1>4, <1>5, <1>6 DEF WInv

\* A turn ends or a session is stored: the agent is ready with the session.
LEMMA ReadyKeeps ==
  ASSUME TypeOK, WInv, NEW f \in Fibers,
         \/ TurnEnds(f)
         \/ f \in Procs /\ SessionStored(f)
  PROVE  WInv'
<1> USE DEF stateVars, latchVars, procVars
<1>1. PICK l \in {"ended", "readied"} :
        /\ pc' = [pc EXCEPT ![f] = l]
        /\ l = "ended" => pc[f] = "turn"
  BY DEF TurnEnds, SessionStored
<1>2. /\ kind' = "ready" /\ session' = turn[f].session
      /\ UNCHANGED <<turn, alive, client, spawned, delivered, preambleFired>>
  BY DEF TurnEnds, SessionStored
<1>3. /\ pc'[f] = l
      /\ \A g \in Fibers \cup Restarts : g # f => pc'[g] = pc[g]
  BY <1>1 DEF TypeOK
<1>4. f \notin Restarts
  BY Disjoint DEF Fibers
<1>5. Born'
  BY <1>2, <1>3 DEF WInv, Born
<1>6. FirstOnly' /\ Homes'
  BY <1>1, <1>2, <1>3 DEF WInv, FirstOnly, Homes
<1>7. ASSUME Orderly' PROVE OneAtWork' /\ WithClient'
  <2>1. Orderly /\ OneAtWork /\ WithClient /\ FirstOnly
    BY <1>2, <1>7 DEF Orderly, WInv
  <2>2. \/ Active(f)
        \/ f \in Procs /\ Opens(f) /\ pc[f] = "storing"
    <3>1. CASE TurnEnds(f)
      <4>1. ~Late
        BY <2>1, <3>1 DEF Orderly, FirstOnly, TurnEnds
      <4> QED
        BY <3>1, <4>1 DEF TurnEnds, MayAnswer, Active, Runs
    <3>2. CASE f \in Procs /\ SessionStored(f)
      BY <3>2 DEF SessionStored, Opens
    <3> QED
      BY <3>1, <3>2
  <2>3. client \in alive /\ turn[f].session = client /\ ~Spawning
    BY <2>1, <2>2 DEF OneAtWork, WithClient
  <2>4. \A g \in Fibers : g # f => ~Active(g)
    BY <2>1, <2>2 DEF OneAtWork
  <2>5. \A g \in Fibers : ~Active(g)'
    BY <1>1, <1>2, <1>3, <2>4 DEF Active, Carriers, Runs
  <2>6. \A p \in Procs : p # f => ~Opens(p)
    BY <2>1, <2>2 DEF OneAtWork
  <2>7. \A p \in Procs : ~Opens(p)'
    BY <1>1, <1>3, <2>6 DEF Opens, Fibers
  <2>8. ~Spawning'
    BY <1>3, <1>4, <2>3 DEF Spawning
  <2> QED
    BY <1>2, <2>3, <2>5, <2>7, <2>8 DEF OneAtWork, WithClient
<1> QED
  BY <1>5, <1>6, <1>7 DEF WInv

\* The preamble is asked for, and answered.
LEMMA PreambleKeeps ==
  ASSUME TypeOK, WInv, NEW f \in Fibers, AskPreamble(f) \/ MarkPreamble(f)
  PROVE  WInv'
<1> USE DEF stateVars, latchVars, procVars
<1>1. PICK l \in {"composing", "composed"} :
        /\ pc' = [pc EXCEPT ![f] = l]
        /\ l = "composing" => ~preambleFired /\ preambleFired' = preambleFired
        /\ l = "composed" => preambleFired' = TRUE /\ pc[f] = "composing"
  BY DEF AskPreamble, MarkPreamble
<1>2. /\ UNCHANGED <<kind, session, alive, client, spawned, delivered>>
      /\ pc[f] \in {"preparing", "composing"}
  BY DEF AskPreamble, MarkPreamble
<1>3. /\ pc'[f] = l
      /\ \A g \in Fibers \cup Restarts : g # f => pc'[g] = pc[g]
  BY <1>1 DEF TypeOK
<1>4. f \notin Restarts
  BY Disjoint DEF Fibers
<1>5. /\ \A g \in Fibers : turn'[g].session = turn[g].session
                           /\ turn'[g].to = turn[g].to
      /\ \A g \in Fibers : g # f => turn'[g] = turn[g]
  <2>1. CASE AskPreamble(f)
    BY <2>1 DEF AskPreamble
  <2>2. ASSUME NEW b \in BOOLEAN, turn' = [turn EXCEPT ![f].preamble = b]
        PROVE  /\ \A g \in Fibers : turn'[g].session = turn[g].session
                                   /\ turn'[g].to = turn[g].to
               /\ \A g \in Fibers : g # f => turn'[g] = turn[g]
    BY <2>2 DEF TypeOK, Turns
  <2> QED
    BY <2>1, <2>2 DEF MarkPreamble
<1>6. Born'
  BY <1>1, <1>2, <1>3, <1>5 DEF WInv, Born
<1>7. FirstOnly'
  <2> SUFFICES ASSUME ~Overlap PROVE FirstOnly'
    BY DEF FirstOnly
  <2>1. delivered = <<>>
    BY <1>1, <1>2 DEF WInv, FirstOnly
  <2> QED
    BY <1>1, <1>2, <1>3, <1>5, <2>1 DEF WInv, FirstOnly
<1>8. Homes'
  BY <1>2 DEF WInv, Homes
<1>9. ASSUME Orderly' PROVE OneAtWork' /\ WithClient'
  <2>1. Orderly /\ OneAtWork /\ WithClient
    BY <1>2, <1>9 DEF Orderly, WInv
  <2>2. \A g \in Fibers : Active(g)' => Active(g)
    BY <1>1, <1>2, <1>3, <1>5 DEF Active, Carriers, Runs
  <2>3. \A p \in Procs : Opens(p)' => Opens(p) /\ pc'[p] = pc[p]
    BY <1>1, <1>3 DEF Opens, Fibers
  <2>4. Spawning' => Spawning
    BY <1>3, <1>4 DEF Spawning
  <2>5. OneAtWork'
    BY <1>2, <2>1, <2>2, <2>3, <2>4 DEF OneAtWork
  <2>6. WithClient'
    BY <1>2, <1>5, <2>1, <2>2, <2>3 DEF WithClient, Fibers
  <2> QED
    BY <2>5, <2>6
<1> QED
  BY <1>6, <1>7, <1>8, <1>9 DEF WInv

\* A prompt is handed over: to the process its session lives in.
LEMMA HandOverKeeps ==
  ASSUME IInv, WInv, NEW f \in Fibers, HandOver(f)
  PROVE  WInv'
<1> USE DEF stateVars, latchVars, procVars
<1> DEFINE d == [prompts |-> turn[f].prompts, to |-> client,
                 session |-> turn[f].session, preamble |-> turn[f].preamble]
<1>0. TypeOK
  BY DEF IInv
<1>1. /\ pc' = [pc EXCEPT ![f] = "turn"] /\ delivered' = Append(delivered, d)
      /\ delivered \in Seq(Deliveries) /\ d \in Deliveries
      /\ UNCHANGED <<kind, session, alive, client, spawned, preambleFired>>
  <2>1. d \in Deliveries
    BY <1>0, TurnTypes DEF Turns, Deliveries
  <2> QED
    BY <1>0, <2>1 DEF HandOver, TypeOK
<1>2. /\ Len(delivered') = Len(delivered) + 1 /\ delivered' # <<>>
      /\ delivered'[Len(delivered) + 1] = d
      /\ DOMAIN delivered' = DOMAIN delivered \cup {Len(delivered) + 1}
      /\ \A i \in DOMAIN delivered : delivered'[i] = delivered[i]
  <2> HIDE DEF d
  <2> QED
    BY <1>1
<1>3. /\ pc'[f] = "turn" /\ f \in Carriers
      /\ \A g \in Fibers \cup Restarts : g # f => pc'[g] = pc[g]
  BY <1>0, <1>1 DEF HandOver, TypeOK, Carriers
<1>4. f \notin Restarts
  BY Disjoint DEF Fibers
<1>5. /\ turn'[f].to = client /\ turn'[f].session = turn[f].session
      /\ \A g \in Fibers : g # f => turn'[g] = turn[g]
  BY <1>0 DEF HandOver, TypeOK, Turns
<1>6. Born'
  BY <1>1, <1>3, <1>5 DEF WInv, Born
<1>7. Orderly => Active(f) /\ client \in alive /\ turn[f].session = client
                 /\ \A g \in Fibers : Active(g) => g = f
  BY <1>3 DEF WInv, OneAtWork, WithClient, Active
<1>8. FirstOnly'
  <2> SUFFICES ASSUME ~Overlap PROVE FirstOnly'
    BY DEF FirstOnly
  <2>1. preambleFired
    BY DEF HandOver, WInv, FirstOnly
  <2>2. \A g \in Fibers : pc'[g] \notin {"composing", "composed"}
    <3>1. CASE delivered = <<>>
      <4>1. \A g \in Fibers : Active(g) => g = f
        BY <1>7, <3>1 DEF Orderly
      <4> QED
        BY <1>3, <4>1 DEF Active, Carriers
    <3>2. CASE delivered # <<>>
      BY <1>3, <3>2 DEF WInv, FirstOnly
    <3> QED
      BY <3>1, <3>2
  <2>3. delivered # <<>> => ~turn[f].preamble
    BY DEF HandOver, WInv, FirstOnly
  <2>4. \A i \in DOMAIN delivered' : delivered'[i].preamble => i = 1
    <3> SUFFICES ASSUME NEW i \in DOMAIN delivered', delivered'[i].preamble
                 PROVE  i = 1
      OBVIOUS
    <3>1. CASE i \in DOMAIN delivered
      BY <1>2, <3>1 DEF WInv, FirstOnly
    <3>2. CASE i = Len(delivered) + 1
      <4>1. turn[f].preamble
        BY <1>2, <3>2
      <4>2. delivered = <<>>
        BY <2>3, <4>1
      <4> QED
        BY <3>2, <4>2
    <3> QED
      BY <1>2, <3>1, <3>2
  <2>5. \A g \in Fibers : pc'[g] = "preparing" => ~turn'[g].preamble
    BY <1>3, <1>5 DEF WInv, FirstOnly
  <2> QED
    BY <1>1, <1>2, <2>1, <2>2, <2>4, <2>5 DEF FirstOnly
<1>9. Homes'
  <2> SUFFICES ASSUME ~Overlap, ~Late, NEW i \in DOMAIN delivered'
               PROVE  delivered'[i].session = delivered'[i].to
    BY DEF Homes
  <2>1. CASE i \in DOMAIN delivered
    BY <1>2, <2>1 DEF WInv, Homes
  <2>2. CASE i = Len(delivered) + 1
    BY <1>2, <1>7, <2>2 DEF Orderly
  <2> QED
    BY <1>2, <2>1, <2>2
<1>10. ASSUME Orderly' PROVE OneAtWork' /\ WithClient'
  <2>1. Orderly /\ OneAtWork /\ WithClient
    BY <1>2, <1>10 DEF Orderly, WInv
  <2>2. \A g \in Fibers : Active(g)' => g = f
    BY <1>1, <1>3, <1>5, <1>7, <2>1 DEF Active, Carriers, Runs
  <2>3. \A p \in Procs : ~Opens(p)
    BY <1>7, <2>1 DEF OneAtWork
  <2>4. \A p \in Procs : ~Opens(p)'
    BY <1>3, <2>3 DEF Opens, Fibers
  <2>5. ~Spawning' /\ kind' # "ready"
    BY <1>1, <1>3, <1>4, <1>7, <2>1 DEF OneAtWork, Spawning
  <2> QED
    BY <1>1, <1>5, <1>7, <2>1, <2>2, <2>4, <2>5 DEF OneAtWork, WithClient
<1> QED
  BY <1>6, <1>8, <1>9, <1>10 DEF WInv

\* A fiber moves to where it carries nothing, and the agent is no readier.
LEMMA MoveIsCalm ==
  ASSUME TypeOK, NEW f \in Fibers,
         NEW l \in {"idle", "latched", "done", "failing", "errored"},
         pc' = [pc EXCEPT ![f] = l],
         kind' = "ready" => kind = "ready" /\ session' = session,
         UNCHANGED <<alive, client, spawned, delivered, preambleFired, turn>>,
         WInv
  PROVE  WInv'
<1>1. /\ pc'[f] = l
      /\ \A g \in Fibers \cup Restarts : g # f => pc'[g] = pc[g]
  BY DEF TypeOK
<1>2. f \notin Restarts
  BY Disjoint DEF Fibers
<1>3. ASSUME Orderly, NEW p \in Procs, Opens(p)'
      PROVE  /\ Opens(p) /\ turn'[p].to = client
             /\ pc'[p] = "storing" => turn'[p].session = client
  <2>1. pc'[p] = pc[p] /\ Opens(p)
    BY <1>1, <1>3 DEF Opens, Fibers
  <2> QED
    BY <1>3, <2>1 DEF WInv, WithClient
<1>4. Calm
  BY <1>1, <1>2, <1>3 DEF Calm
<1> QED
  BY <1>4, CalmKeeps

LEMMA SendWInv ==
  ASSUME IInv, WInv, NEW s \in Sends, Send(s) \/ SendStep(s)
  PROVE  WInv'
<1> USE DEF stateVars, latchVars, procVars
<1>0. TypeOK /\ s \in Fibers /\ <<s>> \in Seq(Sends) /\ queue \in Seq(Sends)
  BY DEF IInv, TypeOK, Fibers
<1>1. CASE SendRefused(s)
  BY <1>0, <1>1, MoveIsCalm DEF SendRefused, Return
<1>2. CASE SendLatched(s)
  BY <1>0, <1>2, MoveIsCalm DEF SendLatched
<1>3. CASE SendQueued(s)
  BY <1>0, <1>3, MoveIsCalm DEF SendQueued, Return
<1>4. CASE SendDirect(s)
  BY <1>0, <1>4, BeginKeeps DEF SendDirect
<1>5. CASE SendResumes(s)
  <2>1. CASE kind = "ready"
    BY <1>0, <1>5, <2>1, BeginKeeps DEF SendResumes
  <2>2. CASE kind # "ready"
    BY <1>0, <1>5, <2>2, MoveIsCalm DEF SendResumes, Return
  <2> QED
    BY <2>1, <2>2
<1>6. CASE AfterTurn(s)
  <2>1. CASE FlushQueue(s) /\ UNCHANGED <<latchVars, procVars, waits, outcome,
                preambleFired, pending, delivered, fails>>
    <3>1. pc[s] # "turn"
      BY <1>6 DEF AfterTurn
    <3> QED
      BY <1>0, <2>1, <3>1, BeginKeeps DEF FlushQueue
  <2>2. CASE Return(s, "sent") /\ UNCHANGED <<stateVars, latchVars, queue,
                procVars, turn, waits, preambleFired, pending, delivered, fails>>
    BY <1>0, <2>2, MoveIsCalm DEF Return
  <2> QED
    BY <1>6, <2>1, <2>2 DEF AfterTurn
<1> QED
  BY <1>1, <1>2, <1>3, <1>4, <1>5, <1>6 DEF Send, SendStep

\* The session is opened with the process it was asked of: the client's.
LEMMA OpeningKeeps ==
  ASSUME TypeOK, WInv, NEW p \in Procs, Initialized(p) \/ SessionOpened(p)
  PROVE  WInv'
<1> USE DEF stateVars, latchVars, procVars
<1>1. PICK l \in {"opening", "storing"} :
        pc' = [pc EXCEPT ![p] = l] /\ Opens(p)
  BY DEF Initialized, SessionOpened, Opens
<1>2. p \in Fibers /\ p \notin Restarts
  BY Disjoint DEF Fibers
<1>3. /\ pc'[p] = l
      /\ \A g \in Fibers \cup Restarts : g # p => pc'[g] = pc[g]
  BY <1>1, <1>2 DEF TypeOK
<1>4. UNCHANGED <<kind, session, alive, client, spawned, delivered, preambleFired>>
  BY DEF Initialized, SessionOpened
<1>5. \A g \in Fibers : g # p => turn'[g] = turn[g]
  BY DEF Initialized, SessionOpened, TypeOK
<1>6. Orderly => /\ turn'[p].to = client
                 /\ pc'[p] = "storing" => turn'[p].session = client
  <2>1. CASE Initialized(p)
    <3>1. turn'[p].to = client /\ pc'[p] = "opening"
      BY <1>2, <2>1 DEF Initialized, TypeOK, Turns
    <3> QED
      BY <3>1
  <2>2. CASE SessionOpened(p)
    <3>1. turn'[p].to = turn[p].to /\ turn'[p].session = turn[p].to
      BY <1>2, <2>2 DEF SessionOpened, TypeOK, Turns
    <3> QED
      BY <1>1, <3>1 DEF WInv, WithClient
  <2> QED
    BY <2>1, <2>2
<1>7. ASSUME Orderly, NEW q \in Procs, Opens(q)'
      PROVE  /\ Opens(q) /\ turn'[q].to = client
             /\ pc'[q] = "storing" => turn'[q].session = client
  <2>1. CASE q = p
    BY <1>1, <1>6, <1>7, <2>1
  <2>2. CASE q # p
    <3>1. pc'[q] = pc[q] /\ turn'[q] = turn[q]
      BY <1>3, <1>5, <2>2 DEF Fibers
    <3> QED
      BY <1>7, <3>1 DEF Opens, WInv, WithClient
  <2> QED
    BY <2>1, <2>2
<1>8. Calm
  BY <1>2, <1>3, <1>4, <1>5, <1>7 DEF Calm
<1> QED
  BY <1>8, CalmKeeps

LEMMA InitStepsWInv ==
  ASSUME IInv, WInv, NEW p \in Procs,
         Initialized(p) \/ SessionOpened(p) \/ InitStep(p) \/ InitFails(p)
  PROVE  WInv'
<1> USE DEF stateVars, latchVars, procVars
<1>0. TypeOK /\ p \in Fibers /\ queue \in Seq(Sends)
  BY DEF IInv, TypeOK, Fibers
<1>1. CASE Initialized(p) \/ SessionOpened(p)
  BY <1>0, <1>1, OpeningKeeps
<1>2. CASE SessionStored(p)
  BY <1>0, <1>2, ReadyKeeps
<1>3. CASE InitFlushes(p)
  BY <1>0, <1>3, BeginKeeps DEF InitFlushes, FlushQueue
<1>4. CASE InitReturns(p)
  BY <1>0, <1>4, MoveIsCalm DEF InitReturns
<1>5. CASE InitErrs(p)
  BY <1>0, <1>5, MoveIsCalm DEF InitErrs
<1>6. CASE InitFails(p)
  BY <1>0, <1>6, MoveIsCalm DEF InitFails
<1> QED
  BY <1>1, <1>2, <1>3, <1>4, <1>5, <1>6 DEF InitStep

\* A restart or the close finds the agent at rest: nothing is at work after it.
LEMMA RestKeeps ==
  ASSUME IInv, LInv, WInv, NEW g \in Restarts \cup {Closer}, NEW l,
         pc' = [pc EXCEPT ![g] = l], Overlap \/ AtRest,
         alive' = alive \ {client}, kind' # "ready",
         UNCHANGED <<client, spawned, delivered, preambleFired, turn>>
  PROVE  WInv'
<1>1. TypeOK /\ g \notin Fibers
  BY Disjoint DEF IInv, Fibers
<1>2. \A f \in Fibers : pc'[f] = pc[f]
  BY <1>1
<1>3. Born' /\ FirstOnly' /\ Homes'
  BY <1>2 DEF WInv, Born, FirstOnly, Homes
<1>4. ASSUME Orderly' PROVE OneAtWork' /\ WithClient'
  <2>1. ~Overlap
    BY <1>4 DEF Orderly
  <2>2. \A f \in Fibers : pc'[f] \in {"idle", "turn", "done"}
    BY <1>1, <1>2, <2>1 DEF AtRest, TypeOK
  <2>3. alive' = {}
    BY <2>1 DEF LInv, Lifecycle
  <2>4. /\ \A f \in Fibers : ~Active(f)'
        /\ \A p \in Procs : ~Opens(p)'
    BY <2>2, <2>3 DEF Active, Carriers, Runs, Opens, Fibers
  <2> QED
    BY <2>4 DEF OneAtWork, WithClient
<1> QED
  BY <1>3, <1>4 DEF WInv

\* The new process, whose number no turn was handed to.
LEMMA SpawnedKeeps ==
  ASSUME IInv, LInv, WInv, NEW r \in Restarts, Spawned(r)
  PROVE  WInv'
<1> USE DEF stateVars, latchVars, procVars
<1>1. /\ TypeOK /\ pc[r] = "spawning" /\ r \notin Fibers /\ r # Closer
      /\ spawned \in Nat /\ client \in Nat /\ client' = spawned
      /\ spawned' = spawned + 1 /\ alive' = alive \cup {spawned}
      /\ UNCHANGED <<kind, session, delivered, preambleFired>>
  BY Disjoint DEF IInv, TypeOK, Spawned, Fibers, Procs
<1>2. spawned \notin Restarts
  BY <1>1, SessionAssumption
<1>3. \A f \in Fibers \cup Restarts :
        pc'[f] = IF f = spawned THEN "handshaking"
                 ELSE IF f = r THEN "done" ELSE pc[f]
  BY <1>1, <1>2 DEF Spawned, TypeOK
<1>4. \A f \in Fibers : f # spawned => turn'[f] = turn[f]
  BY <1>1 DEF Spawned, TypeOK
<1>5. spawned \in Fibers => turn'[spawned].to = spawned
  BY <1>1 DEF Spawned, TypeOK, Turns
<1>6. \A f \in Fibers : turn[f].to \in Nat
  BY <1>1 DEF TypeOK, Turns, Procs
<1>7. Born'
  BY <1>1, <1>3, <1>4, <1>6 DEF WInv, Born
<1>8. \A f \in Fibers : /\ pc'[f] # "handshaking" => pc'[f] = pc[f] /\ turn'[f] = turn[f]
  BY <1>1, <1>3, <1>4
<1>9. FirstOnly'
  BY <1>1, <1>8 DEF WInv, FirstOnly
<1>10. Homes'
  BY <1>1 DEF WInv, Homes
<1>11. ASSUME Orderly' PROVE OneAtWork' /\ WithClient'
  <2>1. Orderly /\ OneAtWork /\ Spawning /\ ~Overlap
    BY <1>1, <1>11 DEF Orderly, WInv, Spawning
  <2>2. /\ \A f \in Fibers : ~Active(f)
        /\ \A p \in Procs : ~Opens(p)
        /\ kind' # "ready"
    BY <1>1, <2>1 DEF OneAtWork
  <2>3. \A f \in Fibers : ~Active(f)'
    <3> SUFFICES ASSUME NEW f \in Fibers, Active(f)' PROVE FALSE
      OBVIOUS
    <3>1. pc'[f] = pc[f] /\ turn'[f] = turn[f]
      BY <1>8 DEF Active, Carriers, Runs
    <3>2. Runs(f)' /\ pc[f] = "turn" /\ turn[f].to = spawned
      BY <1>1, <2>2, <3>1 DEF Active, Carriers, Runs
    <3> QED
      BY <1>1, <3>2 DEF WInv, Born
  <2>4. \A p \in Procs : Opens(p)' => /\ p = spawned /\ pc'[p] = "handshaking"
                                      /\ turn'[p].to = spawned
    BY <1>3, <1>5, <1>8, <2>2 DEF Opens, Fibers
  <2>5. ~Spawning'
    <3>1. \A q \in Restarts : pc[q] = "spawning" => q = r
      BY <1>1, <2>1 DEF LInv, Lifecycle
    <3> QED
      BY <1>2, <1>3, <3>1 DEF Spawning
  <2> QED
    BY <1>1, <2>2, <2>3, <2>4, <2>5 DEF OneAtWork, WithClient
<1> QED
  BY <1>7, <1>9, <1>10, <1>11 DEF WInv

LEMMA LifecycleWInv ==
  ASSUME IInv, LInv, WInv,
         \/ \E r \in Restarts : \/ Restart(r) \/ Spawned(r) \/ SpawnFails(r)
                                \/ RestartGivesUp(r)
         \/ Close \/ Closed
         \/ \E p \in Procs : PermissionAsked(p) \/ PermissionAnswered(p)
         \/ UNCHANGED vars
  PROVE  WInv'
<1> USE DEF stateVars, latchVars, procVars
<1>0. TypeOK
  BY DEF IInv
<1>1. ASSUME NEW r \in Restarts, Restart(r) PROVE WInv'
  BY <1>1, RestKeeps DEF Restart
<1>2. CASE Close
  BY <1>2, RestKeeps DEF Close
<1>3. ASSUME NEW r \in Restarts, Spawned(r) PROVE WInv'
  BY <1>3, SpawnedKeeps
\* The others touch no fiber.
<1>4. ASSUME \A f \in Fibers : pc'[f] = pc[f],
             \A r \in Restarts : pc'[r] = "spawning" => pc[r] = "spawning",
             kind' = "ready" => kind = "ready" /\ session' = session,
             UNCHANGED <<alive, client, spawned, delivered, preambleFired, turn>>
      PROVE  WInv'
  <2>1. ASSUME Orderly, NEW p \in Procs, Opens(p)'
        PROVE  /\ Opens(p) /\ turn'[p].to = client
               /\ pc'[p] = "storing" => turn'[p].session = client
    <3>1. pc'[p] = pc[p]
      BY <1>4 DEF Fibers
    <3> QED
      BY <1>4, <2>1, <3>1 DEF Opens, WInv, WithClient
  <2>2. Calm
    BY <1>4, <2>1 DEF Calm
  <2> QED
    BY <2>2, CalmKeeps
<1>5. ASSUME NEW r \in Restarts, SpawnFails(r) \/ RestartGivesUp(r) PROVE WInv'
  <2>1. \A g \in Fibers \cup Restarts : g # r => pc'[g] = pc[g]
    BY <1>0, <1>5 DEF SpawnFails, RestartGivesUp, TypeOK
  <2>2. r \notin Fibers /\ pc'[r] # "spawning"
    BY <1>0, <1>5, Disjoint DEF SpawnFails, RestartGivesUp, TypeOK, Fibers
  <2> QED
    BY <1>4, <1>5, <2>1, <2>2 DEF SpawnFails, RestartGivesUp
<1>6. CASE Closed
  <2>1. \A g \in Fibers \cup Restarts : pc'[g] = pc[g]
    BY <1>0, <1>6, Disjoint DEF Closed, TypeOK, Fibers
  <2> QED
    BY <1>4, <1>6, <2>1 DEF Closed
<1>7. ASSUME NEW p \in Procs, PermissionAsked(p) \/ PermissionAnswered(p)
      PROVE  WInv'
  BY <1>4, <1>7 DEF PermissionAsked, PermissionAnswered
<1>8. CASE UNCHANGED vars
  BY <1>4, <1>8 DEF vars
<1> QED
  BY <1>1, <1>2, <1>3, <1>5, <1>6, <1>7, <1>8

LEMMA StepWInv == IInv /\ LInv /\ WInv /\ [Next]_vars => WInv'
<1> SUFFICES ASSUME IInv, LInv, WInv, [Next]_vars PROVE WInv'
  OBVIOUS
<1>0. TypeOK
  BY DEF IInv
<1>1. ASSUME NEW s \in Sends, Send(s) \/ SendStep(s) PROVE WInv'
  BY <1>1, SendWInv
<1>2. ASSUME NEW f \in Fibers, TurnStep(f) \/ TurnEnds(f) \/ TurnFails(f)
      PROVE  WInv'
  <2>1. CASE AskPreamble(f) \/ MarkPreamble(f)
    BY <1>0, <2>1, PreambleKeeps
  <2>2. CASE HandOver(f)
    BY <2>2, HandOverKeeps
  <2>3. CASE TurnEnds(f)
    BY <1>0, <2>3, ReadyKeeps
  <2>4. CASE TurnFails(f)
    BY <1>0, <2>4, MoveIsCalm DEF TurnFails, stateVars, procVars
  <2> QED
    BY <1>2, <2>1, <2>2, <2>3, <2>4 DEF TurnStep
<1>3. ASSUME NEW p \in Procs,
             Initialized(p) \/ SessionOpened(p) \/ InitStep(p) \/ InitFails(p)
      PROVE  WInv'
  BY <1>3, InitStepsWInv
<1>4. CASE \/ \E r \in Restarts : \/ Restart(r) \/ Spawned(r) \/ SpawnFails(r)
                                  \/ RestartGivesUp(r)
           \/ Close \/ Closed
           \/ \E p \in Procs : PermissionAsked(p) \/ PermissionAnswered(p)
           \/ UNCHANGED vars
  BY <1>4, LifecycleWInv
<1> QED
  BY <1>1, <1>2, <1>3, <1>4 DEF Next

LEMMA SpecWInv == Spec => []WInv
BY InitWInv, StepWInv, SpecIInv, SpecLInv, PTL DEF Spec

\* At most one thing satisfying a description makes a set of at most one.
LEMMA AtMostOneIsSmall ==
  ASSUME NEW S, \A x, y \in S : x = y
  PROVE  Cardinality(S) <= 1
<1>1. CASE S = {}
  BY <1>1, FS_EmptySet
<1>2. ASSUME NEW x \in S PROVE Cardinality(S) <= 1
  <2>1. S = {x}
    BY <1>2
  <2> QED
    BY <2>1, FS_Singleton
<1> QED
  BY <1>1, <1>2

LEMMA InvariantsSuffice == IInv /\ LInv /\ WInv => TurnsStayWhole
<1> SUFFICES ASSUME IInv, LInv, WInv PROVE TurnsStayWhole
  OBVIOUS
<1>1. OneTurnAtATime
  <2> SUFFICES ASSUME ~Overlap, ~Late, NEW p \in alive
               PROVE  Cardinality({f \in Fibers : /\ pc[f] = "turn"
                                     /\ turn[f].heard /\ turn[f].to = p}) <= 1
    BY DEF OneTurnAtATime
  <2> DEFINE S == {f \in Fibers : /\ pc[f] = "turn"
                                  /\ turn[f].heard /\ turn[f].to = p}
  <2>1. \A f, g \in S : f = g
    BY DEF WInv, Orderly, OneAtWork, Active, Runs
  <2> HIDE DEF S
  <2>2. Cardinality(S) <= 1
    BY <2>1, AtMostOneIsSmall
  <2> QED
    BY <2>2 DEF S
<1>2. PreambleOnce
  <2> SUFFICES ASSUME ~Overlap
               PROVE  Cardinality({i \in DOMAIN delivered :
                                     delivered[i].preamble}) <= 1
    BY DEF PreambleOnce
  <2> DEFINE S == {i \in DOMAIN delivered : delivered[i].preamble}
  <2>1. \A i, j \in S : i = j
    BY DEF WInv, FirstOnly
  <2> HIDE DEF S
  <2>2. Cardinality(S) <= 1
    BY <2>1, AtMostOneIsSmall
  <2> QED
    BY <2>2 DEF S
<1>3. SessionOfItsProcess
  BY DEF WInv, Homes, Orderly, WithClient, SessionOfItsProcess
<1> QED
  BY <1>1, <1>2, <1>3 DEF TurnsStayWhole

\* However sends, restarts and failures interleave: a live process has one turn
\* at a time, in the session that lives in it, and the preamble goes out once
\* (that last whether or not killed processes answer late).
THEOREM TurnsAreWhole == Spec => []TurnsStayWhole
BY InvariantsSuffice, SpecIInv, SpecLInv, SpecWInv, PTL
-----------------------------------------------------------------------------
(* An agent that says it is prompting is at work.                          *)

AtWork == ~Overlap /\ ~Late /\ fails = 0 /\ kind = "prompting" =>
            \E f \in Fibers : Active(f)

\* Steps that start no turn and stop none.
LEMMA WorkKept ==
  ASSUME AtWork, fails' = 0 => fails = 0,
         kind' = "prompting" => kind = "prompting",
         ~Overlap /\ ~Late /\ kind' = "prompting" /\ fails' = 0 =>
           \A f \in Fibers : Active(f) => Active(f)'
  PROVE  AtWork'
BY DEF AtWork

\* A step of one fiber that was at no work, or of none.
LEMMA IdlerKept ==
  ASSUME AtWork, fails' = 0 => fails = 0, NEW i,
         kind' = "prompting" => kind = "prompting",
         ~Overlap /\ ~Late /\ fails' = 0 => i \notin Fibers \/ ~Active(i),
         \A f \in Fibers : f # i => pc'[f] = pc[f] /\ turn'[f] = turn[f],
         alive \subseteq alive'
  PROVE  AtWork'
<1>1. \A f \in Fibers : f # i => (Active(f) => Active(f)')
  BY DEF Active, Carriers, Runs
<1> QED
  BY <1>1, WorkKept

\* A fiber that carries a prompt is at work.
LEMMA CarrierWorks ==
  ASSUME NEW f \in Fibers, pc'[f] \in {"preparing", "composing", "composed"}
  PROVE  AtWork'
<1>1. Active(f)'
  BY DEF Active, Carriers
<1> QED
  BY <1>1 DEF AtWork

LEMMA SendAtWork ==
  ASSUME TypeOK, AtWork, NEW s \in Sends, Send(s) \/ SendStep(s)
  PROVE  AtWork'
<1> USE DEF stateVars, latchVars, procVars
<1>0. s \in Fibers
  BY DEF Fibers
<1>1. CASE pc'[s] = "preparing"
  BY <1>0, <1>1, CarrierWorks
<1>2. CASE pc'[s] # "preparing"
  <2>1. /\ UNCHANGED <<kind, turn, alive, fails>>
        /\ pc[s] \in {"idle", "latched", "ended"}
        /\ \E l \in {"done", "latched"} : pc' = [pc EXCEPT ![s] = l]
    BY <1>0, <1>2 DEF Send, SendRefused, SendLatched, SendQueued, SendDirect,
       SendStep, SendResumes, AfterTurn, FlushQueue, Return, TypeOK
  <2>2. ~Active(s)
    BY <2>1 DEF Active, Carriers, Runs
  <2>3. \A f \in Fibers : f # s => pc'[f] = pc[f] /\ turn'[f] = turn[f]
    BY <2>1 DEF TypeOK
  <2> QED
    BY <2>1, <2>2, <2>3, IdlerKept
<1> QED
  BY <1>1, <1>2

LEMMA TurnAtWork ==
  ASSUME TypeOK, WInv, AtWork, NEW f \in Fibers,
         TurnStep(f) \/ TurnEnds(f) \/ TurnFails(f)
  PROVE  AtWork'
<1> USE DEF stateVars, latchVars, procVars
<1>1. CASE AskPreamble(f) \/ MarkPreamble(f)
  <2>1. pc'[f] \in {"composing", "composed"}
    BY <1>1 DEF AskPreamble, MarkPreamble, TypeOK
  <2> QED
    BY <2>1, CarrierWorks
<1>2. CASE HandOver(f)
  <2>1. /\ pc'[f] = "turn" /\ turn'[f].to = client /\ alive' = alive
        /\ Active(f)
    BY <1>2 DEF HandOver, TypeOK, Turns, Active, Carriers
  <2>2. ~Overlap /\ ~Late => client \in alive
    BY <2>1 DEF WInv, WithClient, Orderly
  <2>3. ~Overlap /\ ~Late => Active(f)'
    BY <2>1, <2>2 DEF Active, Runs
  <2> QED
    BY <2>3 DEF AtWork
<1>3. CASE TurnEnds(f)
  BY <1>3 DEF TurnEnds, AtWork
<1>4. CASE TurnFails(f)
  <2>1. /\ kind' = kind /\ alive' = alive /\ turn' = turn
        /\ \E l \in {"done", "failing"} : pc' = [pc EXCEPT ![f] = l]
        /\ pc[f] = "turn"
    BY <1>4 DEF TurnFails
  <2>2. \/ fails' = fails + 1
        \/ fails' = fails /\ turn[f].to \notin alive
    BY <1>4 DEF TurnFails
  <2>3. fails' = 0 => fails = 0 /\ turn[f].to \notin alive
    BY <2>2 DEF TypeOK
  <2>4. fails' = 0 => ~Active(f)
    BY <2>1, <2>3 DEF Active, Carriers, Runs
  <2>5. \A g \in Fibers : g # f => pc'[g] = pc[g] /\ turn'[g] = turn[g]
    BY <2>1 DEF TypeOK
  <2> QED
    BY <2>1, <2>3, <2>4, <2>5, IdlerKept
<1> QED
  BY <1>1, <1>2, <1>3, <1>4 DEF TurnStep

LEMMA InitStepsAtWork ==
  ASSUME TypeOK, AtWork, NEW p \in Procs,
         Initialized(p) \/ SessionOpened(p) \/ InitStep(p) \/ InitFails(p)
  PROVE  AtWork'
<1> USE DEF stateVars, latchVars, procVars
<1>0. p \in Fibers
  BY DEF Fibers
<1>1. CASE InitFlushes(p)
  <2>1. pc'[p] = "preparing"
    BY <1>0, <1>1 DEF InitFlushes, FlushQueue, TypeOK
  <2> QED
    BY <1>0, <2>1, CarrierWorks
<1>2. CASE SessionStored(p) \/ InitErrs(p)
  BY <1>2 DEF SessionStored, InitErrs, AtWork
<1>3. CASE Initialized(p) \/ SessionOpened(p) \/ InitReturns(p) \/ InitFails(p)
  <2>1. /\ kind' = kind /\ alive' = alive
        /\ pc[p] \in {"handshaking", "opening", "readied", "ended", "errored",
                      "failing"}
        /\ \E l \in Points : pc' = [pc EXCEPT ![p] = l]
        /\ turn' = turn \/ \E t : turn' = [turn EXCEPT ![p] = t]
    BY <1>0, <1>3 DEF Initialized, SessionOpened, InitReturns, InitFails, Points
  <2>2. fails' = 0 => fails = 0
    BY <1>3 DEF Initialized, SessionOpened, InitReturns, InitFails, TypeOK
  <2>3. ~Active(p)
    BY <2>1 DEF Active, Carriers, Runs
  <2>4. \A g \in Fibers : g # p => pc'[g] = pc[g] /\ turn'[g] = turn[g]
    BY <2>1 DEF TypeOK
  <2> QED
    BY <2>1, <2>2, <2>3, <2>4, IdlerKept
<1> QED
  BY <1>1, <1>2, <1>3 DEF InitStep

LEMMA OthersAtWork ==
  ASSUME TypeOK, Unborn, AtWork,
         \/ \E r \in Restarts : \/ Restart(r) \/ Spawned(r) \/ SpawnFails(r)
                                \/ RestartGivesUp(r)
         \/ Close \/ Closed
         \/ \E p \in Procs : PermissionAsked(p) \/ PermissionAnswered(p)
         \/ UNCHANGED vars
  PROVE  AtWork'
<1> USE DEF stateVars, latchVars, procVars
<1>1. ASSUME NEW r \in Restarts, Restart(r) \/ SpawnFails(r) PROVE AtWork'
  BY <1>1 DEF Restart, SpawnFails, AtWork
<1>2. CASE Close
  BY <1>2 DEF Close, AtWork
<1>3. ASSUME NEW r \in Restarts, Spawned(r) PROVE AtWork'
  <2>1. r \notin Fibers /\ spawned \in Nat
    BY Disjoint DEF Fibers, TypeOK
  <2>2. \A f \in Fibers : f # spawned => pc'[f] = pc[f] /\ turn'[f] = turn[f]
    BY <1>3, <2>1 DEF Spawned, TypeOK
  <2>3. spawned \notin Fibers \/ ~Active(spawned)
    <3>1. CASE spawned \in Procs
      <4>1. pc[spawned] = "idle"
        BY <2>1, <3>1 DEF Unborn
      <4> QED
        BY <4>1 DEF Active, Carriers, Runs
    <3>2. spawned \notin Sends
      BY <2>1, SessionAssumption DEF SessionAssumption
    <3> QED
      BY <3>1, <3>2 DEF Fibers
  <2>4. kind' = kind /\ fails' = fails /\ alive \subseteq alive'
    BY <1>3 DEF Spawned
  <2> QED
    BY <2>2, <2>3, <2>4, IdlerKept
<1>4. ASSUME NEW r \in Restarts, RestartGivesUp(r) PROVE AtWork'
  <2>1. r \notin Fibers
    BY Disjoint DEF Fibers
  <2>2. \A f \in Fibers : pc'[f] = pc[f] /\ turn'[f] = turn[f]
    BY <1>4, <2>1 DEF RestartGivesUp, TypeOK
  <2>3. kind' = kind /\ fails' = fails /\ alive' = alive
    BY <1>4 DEF RestartGivesUp
  <2> QED
    BY <2>1, <2>2, <2>3, IdlerKept
<1>5. CASE Closed
  <2>1. \A f \in Fibers : pc'[f] = pc[f] /\ turn'[f] = turn[f]
    BY <1>5, Disjoint DEF Closed, TypeOK, Fibers
  <2>2. Closer \notin Fibers
    BY Disjoint DEF Fibers
  <2>3. kind' = kind /\ fails' = fails /\ alive' = alive
    BY <1>5 DEF Closed
  <2> QED
    BY <2>1, <2>2, <2>3, IdlerKept
<1>6. CASE \/ \E p \in Procs : PermissionAsked(p) \/ PermissionAnswered(p)
           \/ UNCHANGED vars
  <2>1. UNCHANGED <<kind, fails, alive, pc, turn>>
    BY <1>6 DEF PermissionAsked, PermissionAnswered, vars
  <2>2. Closer \notin Fibers
    BY Disjoint DEF Fibers
  <2> QED
    BY <2>1, <2>2, IdlerKept
<1> QED
  BY <1>1, <1>2, <1>3, <1>4, <1>5, <1>6

LEMMA StepAtWork == IInv /\ WInv /\ AtWork /\ [Next]_vars => AtWork'
<1>1. IInv => TypeOK /\ Unborn
  BY DEF IInv
<1> QED
  BY <1>1, SendAtWork, TurnAtWork, InitStepsAtWork, OthersAtWork DEF Next

LEMMA InitAtWork == Init => AtWork
BY DEF Init, AtWork

\* While lifecycle calls find the agent at rest, killed processes are silent and
\* no live one has failed, an agent that says it is prompting has a turn under
\* way, for any number of sends and restarts.
THEOREM PromptingMeansATurn == Spec => []PromptingHasTurn
<1>1. AtWork => PromptingHasTurn
  BY DEF AtWork, PromptingHasTurn, Active, Carriers, Runs
<1> QED
  BY <1>1, InitAtWork, StepAtWork, SpecIInv, SpecWInv, PTL DEF Spec
=============================================================================
