-------------------------- MODULE AgentServiceProofs --------------------------
(***************************************************************************)
(* Theorems about AgentService: for any number of agents, calls, hot       *)
(* reloads and failures.                                                   *)
(***************************************************************************)
EXTENDS AgentService, TLAPS

\* Every instance that was lost was lost in a hot reload of its own.
Counted ==
  /\ instance <= count.hots + 1
  /\ phase \in {"cleaning", "down"} => instance <= count.hots

\* Marks and entries to close are there only while the service is cleaned up.
Tidy ==
  /\ phase # "cleaning" => todo = {} /\ closing = {}
  /\ phase \in {"up", "stopping", "over"} => pendingContinues = {}

\* A turn that was cut off is marked in the hot reload that cut it, or goes on;
\* what is marked was cut off in this one.
Marked ==
  /\ instance = 1 => \A c \in cut :
       (c[1] \in pendingContinues /\ c[2] = count.hots) \/ pc[c] # "idle"
  /\ \A a \in pendingContinues : <<a, count.hots>> \in cut

\* While the first instance lasts and nobody overlaps:
Alone == ~Overlap /\ instance = 1

\* at most one party is changing the entry of an agent,
Writing(f) == pc[f] \in {"creating", "closing"}
OneWriter ==
  /\ \A f, g \in Fibers : Writing(f) /\ Writing(g) /\ Of(f) = Of(g) => f = g
  /\ \A f \in Fibers : Writing(f) => \A e \in todo \cup closing : e[1] # Of(f)
  /\ \A d, e \in todo \cup closing : d[1] = e[1] => d = e
  /\ todo \cap closing = {}

\* and what it replaces or takes out is not alive.
Replaceable ==
  /\ \A f \in Fibers :
       /\ pc[f] = "creating" => processes[1][Of(f)] = 0
       /\ pc[f] = "closing" =>
            \A o \in DOMAIN objects : Live(o) => processes[1][Of(f)] # o
  /\ \A e \in todo \cup closing : processes[1][e[1]] = e[2]
  /\ \A e \in closing : ~Live(e[2])

Reachable ==
  \A o \in DOMAIN objects : Live(o) => processes[1][objects[o].of] = o
LateOnly ==
  phase = "over" => \A o \in DOMAIN objects : Live(o) => objects[o].late
AloneInv == OneWriter /\ Replaceable /\ Reachable /\ LateOnly

IInv ==
  /\ TypeOK /\ Counted /\ Tidy /\ Marked /\ OnlyCutTurnsContinue
  /\ Alone => AloneInv

-----------------------------------------------------------------------------
(* Types                                                                   *)

LEMMA InitIInv == Init => IInv
<1> SUFFICES ASSUME Init PROVE IInv
  OBVIOUS
<1> USE ServiceAssumption DEF Init
<1>1. TypeOK
  BY DEF TypeOK, Instances, Points, Modes, Outcomes, Objects, Counts
<1>2. Counted /\ Tidy /\ Marked /\ OnlyCutTurnsContinue
  BY DEF Counted, Tidy, Marked, OnlyCutTurnsContinue, Fibers
<1>3. OneWriter /\ Replaceable /\ Reachable /\ LateOnly
  BY DEF OneWriter, Replaceable, Reachable, LateOnly, Writing
<1> QED
  BY <1>1, <1>2, <1>3 DEF IInv, AloneInv

LEMMA OfAgents == \A f \in Fibers : Of(f) \in Agents
<1> SUFFICES ASSUME NEW f \in Fibers PROVE Of(f) \in Agents
  OBVIOUS
<1>1. CASE f \in Continues
  <2>1. f[1] \in Agents
    BY <1>1 DEF Continues
  <2> QED
    BY <1>1, <2>1 DEF Of
<1>2. CASE f \notin Continues
  BY <1>2, ServiceAssumption DEF Of, Fibers
<1> QED
  BY <1>1, <1>2

\* An object changes: it stays whose it was, and a killed process stays killed.
Later(x, y) ==
  y \in Objects /\ y.of = x.of /\ y.late = x.late /\ (y.alive => x.alive)

LEMMA Edits ==
  ASSUME NEW x \in Objects, NEW k \in Kinds, NEW n \in Nat, NEW i \in Stages
  PROVE  /\ Later(x, [x EXCEPT !.kind = k]) /\ Later(x, [x EXCEPT !.queue = n])
         /\ Later(x, [x EXCEPT !.kind = k, !.alive = FALSE])
         /\ ~[x EXCEPT !.kind = k, !.alive = FALSE].alive
         /\ Later(x, [x EXCEPT !.kind = k, !.queue = n])
         /\ Later(x, [x EXCEPT !.init = i, !.kind = k])
         /\ Later(x, [x EXCEPT !.init = i, !.kind = k, !.queue = n])
<1>1. Later(x, [x EXCEPT !.kind = k])
  <2> DEFINE y == [x EXCEPT !.kind = k]
  <2>1. y \in Objects
    BY DEF Objects
  <2>2. y.of = x.of /\ y.late = x.late
    BY DEF Objects
  <2>3. y.alive = x.alive
    BY DEF Objects
  <2> HIDE DEF y
  <2>4. Later(x, y)
    BY <2>1, <2>2, <2>3 DEF Later
  <2> QED
    BY <2>4 DEF y
<1>2. Later(x, [x EXCEPT !.queue = n])
  <2> DEFINE y == [x EXCEPT !.queue = n]
  <2>1. y \in Objects
    BY DEF Objects
  <2>2. y.of = x.of /\ y.late = x.late
    BY DEF Objects
  <2>3. y.alive = x.alive
    BY DEF Objects
  <2> HIDE DEF y
  <2>4. Later(x, y)
    BY <2>1, <2>2, <2>3 DEF Later
  <2> QED
    BY <2>4 DEF y
<1>3. Later(x, [x EXCEPT !.kind = k, !.queue = n])
  <2> DEFINE y == [x EXCEPT !.kind = k, !.queue = n]
  <2>1. y \in Objects
    BY DEF Objects
  <2>2. y.of = x.of /\ y.late = x.late
    BY DEF Objects
  <2>3. y.alive = x.alive
    BY DEF Objects
  <2> HIDE DEF y
  <2>4. Later(x, y)
    BY <2>1, <2>2, <2>3 DEF Later
  <2> QED
    BY <2>4 DEF y
<1>4. Later(x, [x EXCEPT !.init = i, !.kind = k])
  <2> DEFINE y == [x EXCEPT !.init = i, !.kind = k]
  <2>1. y \in Objects
    BY DEF Objects
  <2>2. y.of = x.of /\ y.late = x.late
    BY DEF Objects
  <2>3. y.alive = x.alive
    BY DEF Objects
  <2> HIDE DEF y
  <2>4. Later(x, y)
    BY <2>1, <2>2, <2>3 DEF Later
  <2> QED
    BY <2>4 DEF y
<1>5. Later(x, [x EXCEPT !.init = i, !.kind = k, !.queue = n])
  <2> DEFINE y == [x EXCEPT !.init = i, !.kind = k, !.queue = n]
  <2>1. y \in Objects
    BY DEF Objects
  <2>2. y.of = x.of /\ y.late = x.late
    BY DEF Objects
  <2>3. y.alive = x.alive
    BY DEF Objects
  <2> HIDE DEF y
  <2>4. Later(x, y)
    BY <2>1, <2>2, <2>3 DEF Later
  <2> QED
    BY <2>4 DEF y
<1>6. \A v \in BOOLEAN :
        LET y == [x EXCEPT !.kind = k, !.alive = v] IN
        y \in Objects /\ y.of = x.of /\ y.late = x.late /\ y.alive = v
  BY DEF Objects
<1>7. /\ Later(x, [x EXCEPT !.kind = k, !.alive = FALSE])
      /\ ~[x EXCEPT !.kind = k, !.alive = FALSE].alive
  BY <1>6 DEF Later
<1> QED
  BY <1>1, <1>2, <1>3, <1>4, <1>5, <1>7

LEMMA ObjectChanges ==
  ASSUME objects \in Seq(Objects), NEW o \in DOMAIN objects,
         NEW x \in Objects, x.of = objects[o].of, x.late = objects[o].late,
         objects' = [objects EXCEPT ![o] = x]
  PROVE  /\ objects' \in Seq(Objects) /\ Len(objects') = Len(objects)
         /\ DOMAIN objects' = DOMAIN objects
         /\ \A p \in DOMAIN objects : /\ objects'[p].of = objects[p].of
                                      /\ objects'[p].late = objects[p].late
         /\ \A p \in DOMAIN objects \ {o} : objects'[p] = objects[p]
         /\ objects'[o] = x
OBVIOUS

Changed(o, x) ==
  /\ x \in Objects /\ x.of = objects[o].of /\ x.late = objects[o].late
  /\ objects' = [objects EXCEPT ![o] = x]

-----------------------------------------------------------------------------
(* What a step keeps                                                       *)

\* One object is another one now, of the same agent and age; or none is.
SomeChange ==
  \/ UNCHANGED objects
  \/ \E o \in DOMAIN objects : \E x :
       Changed(o, x) /\ (x.alive => Live(o))

LEMMA ChangeKeeps ==
  ASSUME objects \in Seq(Objects), SomeChange
  PROVE  /\ objects' \in Seq(Objects) /\ Len(objects') = Len(objects)
         /\ DOMAIN objects' = DOMAIN objects
         /\ \A p \in DOMAIN objects :
              /\ objects'[p].of = objects[p].of
              /\ objects'[p].late = objects[p].late
              /\ Live(p)' => Live(p)
<1>1. CASE UNCHANGED objects
  BY <1>1 DEF Live
<1>2. ASSUME NEW o \in DOMAIN objects, NEW x,
             Changed(o, x), x.alive => Live(o)
      PROVE  /\ objects' \in Seq(Objects) /\ Len(objects') = Len(objects)
             /\ DOMAIN objects' = DOMAIN objects
             /\ \A p \in DOMAIN objects :
                  /\ objects'[p].of = objects[p].of
                  /\ objects'[p].late = objects[p].late
                  /\ Live(p)' => Live(p)
  BY <1>2, ObjectChanges DEF Changed, Live
<1> QED
  BY <1>1, <1>2 DEF SomeChange

\* Nothing happens to the marks.
LEMMA MarksKept ==
  ASSUME Counted, Tidy, Marked, OnlyCutTurnsContinue,
         UNCHANGED <<instance, phase, pendingContinues, todo, closing, cut>>,
         count'.hots = count.hots,
         \A c \in Continues : pc'[c] = "idle" <=> pc[c] = "idle",
         cut \subseteq Continues
  PROVE  Counted' /\ Tidy' /\ Marked' /\ OnlyCutTurnsContinue'
BY DEF Counted, Tidy, Marked, OnlyCutTurnsContinue

\* Nothing happens to the table.
LEMMA TableKept ==
  ASSUME TypeOK, AloneInv, SomeChange, UNCHANGED <<processes, todo, closing>>,
         phase' = "over" => phase = "over",
         \A f \in Fibers : Writing(f)' => pc'[f] = pc[f]
  PROVE  AloneInv'
<1>1. objects \in Seq(Objects)
  BY DEF TypeOK
<1>2. \A f \in Fibers : Writing(f)' => Writing(f)
  BY DEF Writing
<1>3. OneWriter'
  BY <1>2 DEF AloneInv, OneWriter, Of
<1>4. Replaceable'
  <2>1. \A e \in todo \cup closing : e[2] \in DOMAIN objects
    BY DEF TypeOK
  <2>2. \A f \in Fibers : pc'[f] \in {"creating", "closing"} => pc'[f] = pc[f]
    BY DEF Writing
  <2> QED
    BY <1>1, <2>1, <2>2, ChangeKeeps DEF AloneInv, Replaceable, Of
<1>5. Reachable'
  BY <1>1, ChangeKeeps DEF AloneInv, Reachable
<1>6. LateOnly'
  BY <1>1, ChangeKeeps DEF AloneInv, LateOnly
<1> QED
  BY <1>3, <1>4, <1>5, <1>6 DEF AloneInv

LEMMA Kinds4 ==
  ASSUME NEW f
  PROVE  /\ f \in Continues => f \notin Sends /\ f \notin Reloads
         /\ f \in Reloads => f \notin Sends /\ f \notin Continues
BY ServiceAssumption

\* No hot reload is counted.
CountKept == count' \in Counts /\ count'.hots = count.hots

\* A call that leaves the table alone.
CallKeeps(f) ==
  /\ SomeChange
  /\ UNCHANGED <<svcVars, cleanVars, reloadMode>>
  /\ \E l \in Points \ {"idle", "creating", "closing"} : Goes(f, l)
  /\ pc[f] # "idle" \/ f \notin Continues
  /\ outcome' \in [Continues -> Outcomes]
  /\ held' \in [Fibers -> [obj : 0 .. Len(objects), inst : 1 .. instance]]
  /\ CountKept

LEMMA CallKeepsIInv ==
  ASSUME IInv, NEW f \in Fibers, CallKeeps(f)
  PROVE  IInv'
<1> USE DEF svcVars, cleanVars
<1>1. PICK l \in Points \ {"idle", "creating", "closing"} : Goes(f, l)
  BY DEF CallKeeps
<1>2. /\ objects' \in Seq(Objects) /\ Len(objects') = Len(objects)
  BY ChangeKeeps DEF IInv, TypeOK, CallKeeps
<1>3. pc' \in [Fibers -> Points] /\ pc'[f] = l
      /\ \A g \in Fibers \ {f} : pc'[g] = pc[g]
  BY <1>1 DEF IInv, TypeOK, Goes
<1>4. TypeOK'
  BY <1>2, <1>3 DEF IInv, TypeOK, CallKeeps, CountKept
<1>5. Counted' /\ Tidy' /\ Marked' /\ OnlyCutTurnsContinue'
  <2>1. \A c \in Continues : pc'[c] = "idle" <=> pc[c] = "idle"
    BY <1>1, <1>3 DEF CallKeeps, Fibers
  <2> QED
    BY <2>1, MarksKept DEF IInv, CallKeeps, CountKept, TypeOK
<1>6. ASSUME Alone' PROVE AloneInv'
  <2>1. \A g \in Fibers : Writing(g)' => pc'[g] = pc[g]
    BY <1>1, <1>3 DEF Writing
  <2> QED
    BY <1>6, <2>1, TableKept DEF IInv, CallKeeps, Alone
<1> QED
  BY <1>4, <1>5, <1>6 DEF IInv

\* Where a fiber that looks at an object stands, it holds one.
LEMMA EndTypes ==
  ASSUME TypeOK, NEW f \in Fibers, NEW how \in Outcomes, Ends(f, how)
  PROVE  outcome' \in [Continues -> Outcomes] /\ Goes(f, "done")
BY DEF TypeOK, Ends, Goes

\* An object becomes another one; what no call holds is left out of account.
LEMMA Becoming ==
  ASSUME objects \in Seq(Objects), NEW o, NEW y, Becomes(o, y),
         o \in DOMAIN objects => Later(objects[o], y)
  PROVE  SomeChange
<1>1. CASE o \in DOMAIN objects
  BY <1>1 DEF Becomes, SomeChange, Later, Changed, Live
<1>2. CASE o \notin DOMAIN objects
  BY <1>2 DEF Becomes, SomeChange
<1> QED
  BY <1>1, <1>2

LEMMA ObjectSet ==
  ASSUME objects \in Seq(Objects), NEW o, NEW k \in Kinds, NEW i \in Stages,
         \/ SetKind(o, k) \/ Close(o) \/ TakeQueue(o)
         \/ Becomes(o, [objects[o] EXCEPT !.queue = @ + 1])
         \/ Becomes(o, [objects[o] EXCEPT !.init = i, !.kind = k])
         \/ Becomes(o, [objects[o] EXCEPT !.init = i, !.kind = k, !.queue = 0])
  PROVE  SomeChange
<1> DEFINE x == objects[o]
<1>1. /\ "closed" \in Kinds /\ "prompting" \in Kinds /\ 0 \in Nat
  BY DEF Kinds
<1>2. o \in DOMAIN objects => x \in Objects /\ x.queue \in Nat
  <2> SUFFICES ASSUME o \in DOMAIN objects PROVE x \in Objects /\ x.queue \in Nat
    OBVIOUS
  <2>1. x \in Objects
    OBVIOUS
  <2> QED
    BY <2>1 DEF Objects
<1>3. o \in DOMAIN objects =>
        /\ Later(x, [x EXCEPT !.kind = k])
        /\ Later(x, [x EXCEPT !.kind = "closed", !.alive = FALSE])
        /\ Later(x, [x EXCEPT !.kind = "prompting", !.queue = 0])
        /\ Later(x, [x EXCEPT !.queue = x.queue + 1])
        /\ Later(x, [x EXCEPT !.init = i, !.kind = k])
        /\ Later(x, [x EXCEPT !.init = i, !.kind = k, !.queue = 0])
  <2> SUFFICES ASSUME o \in DOMAIN objects
               PROVE  /\ Later(x, [x EXCEPT !.kind = k])
                      /\ Later(x, [x EXCEPT !.kind = "closed", !.alive = FALSE])
                      /\ Later(x, [x EXCEPT !.kind = "prompting", !.queue = 0])
                      /\ Later(x, [x EXCEPT !.queue = x.queue + 1])
                      /\ Later(x, [x EXCEPT !.init = i, !.kind = k])
                      /\ Later(x, [x EXCEPT !.init = i, !.kind = k, !.queue = 0])
    OBVIOUS
  <2>1. x \in Objects /\ x.queue + 1 \in Nat
    BY <1>2
  <2> HIDE DEF x
  <2> QED
    BY <1>1, <2>1, Edits
<1>4. CASE SetKind(o, k)
  BY <1>3, <1>4, Becoming DEF SetKind
<1>5. CASE Close(o)
  BY <1>3, <1>5, Becoming DEF Close
<1>6. CASE TakeQueue(o)
  BY <1>3, <1>6, Becoming DEF TakeQueue
<1>7. CASE Becomes(o, [objects[o] EXCEPT !.queue = @ + 1])
  <2>1. Becomes(o, [x EXCEPT !.queue = x.queue + 1])
    BY <1>7
  <2> QED
    BY <1>3, <2>1, Becoming
<1>8. CASE Becomes(o, [objects[o] EXCEPT !.init = i, !.kind = k])
  BY <1>3, <1>8, Becoming
<1>9. CASE Becomes(o, [objects[o] EXCEPT !.init = i, !.kind = k, !.queue = 0])
  BY <1>3, <1>9, Becoming
<1> QED
  BY <1>4, <1>5, <1>6, <1>7, <1>8, <1>9

\* What is closed is not alive.
LEMMA Closing ==
  ASSUME objects \in Seq(Objects), NEW o \in DOMAIN objects, Close(o)
  PROVE  SomeChange /\ ~objects'[o].alive
<1>1. SomeChange
  BY ObjectSet DEF Kinds, Stages
<1>2. objects[o] \in Objects /\ "closed" \in Kinds
  BY DEF Kinds
<1>3. ~[objects[o] EXCEPT !.kind = "closed", !.alive = FALSE].alive
  BY <1>2, Edits DEF Stages
<1>4. objects'[o] = [objects[o] EXCEPT !.kind = "closed", !.alive = FALSE]
  BY DEF Close, Becomes
<1> QED
  BY <1>1, <1>3, <1>4

-----------------------------------------------------------------------------
(* The calls                                                               *)

LEMMA Stays ==
  ASSUME IInv, SomeChange, UNCHANGED <<svcVars, cleanVars, pc, held, outcome>>,
         CountKept, reloadMode' \in [Agents -> Modes]
  PROVE  IInv'
<1> USE DEF svcVars, cleanVars
<1>1. objects' \in Seq(Objects) /\ Len(objects') = Len(objects)
  BY ChangeKeeps DEF IInv, TypeOK
<1>2. TypeOK'
  BY <1>1 DEF IInv, TypeOK, CountKept
<1>3. Counted' /\ Tidy' /\ Marked' /\ OnlyCutTurnsContinue'
  BY MarksKept DEF IInv, TypeOK, CountKept
<1>4. Alone' => AloneInv'
  BY TableKept DEF IInv, Alone
<1> QED
  BY <1>2, <1>3, <1>4 DEF IInv

LEMMA MovesOn ==
  ASSUME IInv, NEW f \in Fibers, SomeChange, pc[f] # "idle", CountKept,
         UNCHANGED <<svcVars, cleanVars, reloadMode, held>>,
         \/ \E l \in {"latched", "turn", "ended", "lastTurn"} :
              Goes(f, l) /\ UNCHANGED outcome
         \/ \E how \in Outcomes : Ends(f, how)
  PROVE  IInv'
<1>1. outcome' \in [Continues -> Outcomes]
  BY EndTypes DEF IInv, TypeOK
<1>2. \E l \in Points \ {"idle", "creating", "closing"} : Goes(f, l)
  <2>1. {"latched", "turn", "ended", "lastTurn", "done"} \subseteq Points
    BY DEF Points
  <2>2. \E l \in {"latched", "turn", "ended", "lastTurn", "done"} : Goes(f, l)
    BY DEF Goes, Ends
  <2> QED
    BY <2>1, <2>2
<1>3. CallKeeps(f)
  BY <1>1, <1>2 DEF CallKeeps, IInv, TypeOK
<1> QED
  BY <1>3, CallKeepsIInv

\* The counts, as records.
LEMMA CountChanges ==
  ASSUME NEW c \in Counts, NEW v
  PROVE  /\ [c EXCEPT !.hots = v] =
              [hots |-> v, failures |-> c.failures, lates |-> c.lates]
         /\ [c EXCEPT !.failures = v] =
              [hots |-> c.hots, failures |-> v, lates |-> c.lates]
         /\ [c EXCEPT !.lates = v] =
              [hots |-> c.hots, failures |-> c.failures, lates |-> v]
BY DEF Counts

LEMMA CountKeeps ==
  ASSUME IInv,
         \/ UNCHANGED count
         \/ /\ count.failures < MaxFailures
            /\ count' = [count EXCEPT !.failures = @ + 1]
         \/ Late
  PROVE  CountKept
<1>1. count \in Counts
  BY DEF IInv, TypeOK
<1>2. CASE UNCHANGED count
  BY <1>1, <1>2 DEF CountKept
<1>3. CASE /\ count.failures < MaxFailures
           /\ count' = [count EXCEPT !.failures = @ + 1]
  <2>1. count' = [hots |-> count.hots, failures |-> count.failures + 1,
                  lates |-> count.lates]
    BY <1>1, <1>3, CountChanges
  <2> QED
    BY <1>1, <1>3, <2>1, ServiceAssumption DEF CountKept, Counts
<1>4. CASE Late
  <2>1. /\ count.lates < MaxLates
        /\ count' = [hots |-> count.hots, failures |-> count.failures,
                     lates |-> count.lates + 1]
    BY <1>1, <1>4, CountChanges DEF Late
  <2> QED
    BY <1>1, <2>1, ServiceAssumption DEF CountKept, Counts
<1> QED
  BY <1>2, <1>3, <1>4

LEMMA AgentSteps ==
  ASSUME IInv, NEW f \in Fibers,
         \/ AgentSend(f) \/ LatchOver(f) \/ TurnEnds(f) \/ TurnFails(f)
         \/ FlushQueue(f)
  PROVE  IInv'
<1> DEFINE o == held[f].obj
<1>1. objects \in Seq(Objects)
  BY DEF IInv, TypeOK
<1>2. {"ready", "prompting"} \subseteq Kinds /\ "over" \in Stages
      /\ {"threw", "queued", "dropped", "sent"} \subseteq Outcomes
  BY DEF Kinds, Outcomes, Stages
<1>3. SomeChange
  <2>1. CASE UNCHANGED objects
    BY <2>1 DEF SomeChange
  <2>2. CASE \/ SetKind(o, "prompting") \/ SetKind(o, "ready") \/ TakeQueue(o)
             \/ Becomes(o, [objects[o] EXCEPT !.queue = @ + 1])
    BY <1>1, <1>2, <2>2, ObjectSet
  <2>3. \/ UNCHANGED objects
        \/ SetKind(o, "prompting") \/ SetKind(o, "ready") \/ TakeQueue(o)
        \/ Becomes(o, [objects[o] EXCEPT !.queue = @ + 1])
    BY DEF AgentSend, LatchOver, TurnEnds, TurnFails, FlushQueue
  <2> QED
    BY <2>1, <2>2, <2>3
<1>4. CountKept
  <2>1. \/ UNCHANGED count
        \/ /\ count.failures < MaxFailures
           /\ count' = [count EXCEPT !.failures = @ + 1]
        \/ Late
    BY DEF AgentSend, LatchOver, TurnEnds, TurnFails, FlushQueue, Answers, Rejects
  <2> QED
    BY <2>1, CountKeeps
<1>5. /\ pc[f] # "idle"
      /\ UNCHANGED <<svcVars, cleanVars, reloadMode, held>>
      /\ \/ \E l \in {"latched", "turn", "ended", "lastTurn"} :
              Goes(f, l) /\ UNCHANGED outcome
         \/ \E how \in {"threw", "queued", "dropped", "sent"} : Ends(f, how)
  BY DEF AgentSend, LatchOver, TurnEnds, TurnFails, FlushQueue, InTurn
<1> QED
  BY <1>2, <1>3, <1>4, <1>5, MovesOn

\* What a fiber holds, as a record.
LEMMA HeldChanges ==
  ASSUME NEW S, NEW T, NEW h \in [obj : S, inst : T], NEW v
  PROVE  /\ [h EXCEPT !.obj = v] = [obj |-> v, inst |-> h.inst]
         /\ [h EXCEPT !.inst = v] = [obj |-> h.obj, inst |-> v]
OBVIOUS

LEMMA Holds ==
  ASSUME TypeOK, NEW f \in Fibers,
         \/ \E o \in 0 .. Len(objects) : held' = [held EXCEPT ![f].obj = o]
         \/ held' = [held EXCEPT ![f].inst = instance]
  PROVE  held' \in [Fibers -> [obj : 0 .. Len(objects), inst : 1 .. instance]]
<1> DEFINE H == [obj : 0 .. Len(objects), inst : 1 .. instance]
<1>1. held \in [Fibers -> H] /\ held[f] \in H
  BY DEF TypeOK
<1>2. instance \in 1 .. instance
  BY ServiceAssumption DEF TypeOK, Instances
<1>3. ASSUME NEW o \in 0 .. Len(objects), held' = [held EXCEPT ![f].obj = o]
      PROVE  held' \in [Fibers -> H]
  <2>1. held' = [held EXCEPT ![f] = [held[f] EXCEPT !.obj = o]]
    BY <1>3
  <2>2. [held[f] EXCEPT !.obj = o] = [obj |-> o, inst |-> held[f].inst]
    BY <1>1, HeldChanges
  <2>3. [held[f] EXCEPT !.obj = o] \in H
    BY <1>1, <1>3, <2>2
  <2> HIDE DEF H
  <2> QED
    BY <1>1, <2>1, <2>3
<1>4. ASSUME held' = [held EXCEPT ![f].inst = instance]
      PROVE  held' \in [Fibers -> H]
  <2>1. held' = [held EXCEPT ![f] = [held[f] EXCEPT !.inst = instance]]
    BY <1>4
  <2>2. [held[f] EXCEPT !.inst = instance] = [obj |-> held[f].obj, inst |-> instance]
    BY <1>1, HeldChanges
  <2>3. [held[f] EXCEPT !.inst = instance] \in H
    BY <1>1, <1>2, <2>2
  <2> HIDE DEF H
  <2> QED
    BY <1>1, <2>1, <2>3
<1> QED
  BY <1>3, <1>4

LEMMA FiberSteps ==
  ASSUME IInv, NEW f \in Fibers,
         \/ ReloadEnds(f) \/ CreateFails(f) \/ EnsureProcess(f)
         \/ f \in Sends /\ Send(f)
  PROVE  IInv'
<1> USE DEF svcVars, cleanVars
<1>1. CASE ReloadEnds(f)
  <2>1. CountKept
    BY <1>1, CountKeeps DEF ReloadEnds
  <2> QED
    BY <1>1, <2>1, MovesOn DEF ReloadEnds, SomeChange, Outcomes, svcVars, cleanVars
<1>2. CASE CreateFails(f)
  <2>1. CountKept
    BY <1>2, CountKeeps DEF CreateFails
  <2>2. outcome' \in [Continues -> Outcomes] /\ Goes(f, "done")
    BY <1>2, EndTypes DEF CreateFails, IInv, Outcomes
  <2>3. CallKeeps(f)
    BY <1>2, <2>1, <2>2 DEF CreateFails, CallKeeps, SomeChange, Points, IInv, TypeOK
  <2> QED
    BY <2>3, CallKeepsIInv
<1>3. CASE f \in Sends /\ Send(f)
  <2>1. held' \in [Fibers -> [obj : 0 .. Len(objects), inst : 1 .. instance]]
    BY <1>3, Holds DEF Send, IInv
  <2>2. Goes(f, "ensuring") /\ "ensuring" \in Points
    BY <1>3 DEF Send, Points
  <2>3. CallKeeps(f)
    BY <1>3, <2>1, <2>2, Kinds4
       DEF Send, CallKeeps, CountKept, SomeChange, IInv, TypeOK
  <2> QED
    BY <2>3, CallKeepsIInv
<1>4. CASE EnsureProcess(f) /\ Goes(f, "ensured")
  <2>1. held[f].inst \in Instances
    BY ServiceAssumption DEF IInv, TypeOK, Instances
  <2>2. Table(f)[Of(f)] \in 0 .. Len(objects)
    BY <2>1, OfAgents DEF IInv, TypeOK, Table
  <2>3. held' \in [Fibers -> [obj : 0 .. Len(objects), inst : 1 .. instance]]
    <3>1. \/ held' = [held EXCEPT ![f].obj = Table(f)[Of(f)]]
          \/ Goes(f, "creating")
      BY <1>4 DEF EnsureProcess
    <3>2. ~Goes(f, "creating")
      BY <1>4 DEF Goes, IInv, TypeOK
    <3> QED
      BY <2>2, <3>1, <3>2, Holds DEF IInv
  <2>4. "ensured" \in Points
    BY DEF Points
  <2>5. CallKeeps(f)
    BY <1>4, <2>3, <2>4
       DEF EnsureProcess, CallKeeps, CountKept, SomeChange, IInv, TypeOK
  <2> QED
    BY <2>5, CallKeepsIInv
<1>5. CASE EnsureProcess(f) /\ Goes(f, "creating")
  <2>1. /\ pc[f] = "ensuring" /\ Table(f)[Of(f)] = 0 /\ (Overlap \/ ~Busy(Of(f)))
        /\ UNCHANGED <<svcVars, cleanVars, objects, reloadMode, outcome, count, held>>
    BY <1>5 DEF EnsureProcess, Goes, IInv, TypeOK
  <2>2. /\ pc' \in [Fibers -> Points] /\ pc'[f] = "creating"
        /\ \A g \in Fibers \ {f} : pc'[g] = pc[g]
    BY <1>5 DEF Goes, IInv, TypeOK, Points
  <2>3. TypeOK'
    BY <2>1, <2>2 DEF IInv, TypeOK
  <2>4. Counted' /\ Tidy' /\ Marked' /\ OnlyCutTurnsContinue'
    <3>1. \A c \in Continues : pc'[c] = "idle" <=> pc[c] = "idle"
      BY <2>1, <2>2 DEF Fibers
    <3> QED
      BY <2>1, <3>1, MarksKept DEF IInv, TypeOK
  <2>5. ASSUME Alone' PROVE AloneInv'
    <3>1. Alone /\ AloneInv
      BY <2>1, <2>5 DEF Alone, IInv
    <3>2. processes[1][Of(f)] = 0
      BY <2>1, <3>1 DEF Table, Alone, IInv, TypeOK
    <3>3. /\ \A g \in Fibers : Writing(g) => Of(g) # Of(f)
          /\ \A e \in todo \cup closing : e[1] # Of(f)
      BY <2>1, <3>1 DEF Alone, Busy, Writing
    <3>4. OneWriter'
      BY <2>1, <2>2, <3>1, <3>3 DEF AloneInv, OneWriter, Writing, Of
    <3>5. Replaceable'
      BY <2>1, <2>2, <3>1, <3>2 DEF AloneInv, Replaceable, Of, Live
    <3> QED
      BY <2>1, <3>1, <3>4, <3>5 DEF AloneInv, Reachable, LateOnly, Live
  <2> QED
    BY <2>3, <2>4, <2>5 DEF IInv
<1> QED
  BY <1>1, <1>2, <1>3, <1>4, <1>5 DEF EnsureProcess

-----------------------------------------------------------------------------
(* The calls that change the table                                         *)

\* One entry is another one now.
LEMMA EntryChanges ==
  ASSUME NEW N, NEW M, N \subseteq M,
         processes \in [Instances -> [Agents -> N]],
         NEW i \in Instances, NEW a \in Agents, NEW v \in M,
         processes' = [processes EXCEPT ![i][a] = v]
  PROVE  /\ processes' \in [Instances -> [Agents -> M]]
         /\ processes'[i][a] = v
         /\ \A b \in Agents \ {a} : processes'[i][b] = processes[i][b]
OBVIOUS

LEMMA CreatedKeeps ==
  ASSUME IInv, NEW f \in Fibers, Created(f)
  PROVE  IInv'
<1> DEFINE o == Len(objects) + 1
           x == [of |-> Of(f), kind |-> "initializing", alive |-> TRUE,
                 queue |-> 0, init |-> "starting",
                 late |-> phase \in {"stopping", "over"}]
           i == held[f].inst
<1> USE DEF svcVars, cleanVars
<1>1. /\ objects \in Seq(Objects) /\ x \in Objects /\ Of(f) \in Agents
      /\ i \in 1 .. instance /\ i \in Instances
  BY OfAgents, ServiceAssumption
     DEF IInv, TypeOK, Objects, Kinds, Stages, Instances
<1>2. /\ pc[f] = "creating" /\ objects' = Append(objects, x)
      /\ processes' = [processes EXCEPT ![i][Of(f)] = o]
      /\ Goes(f, "ensured")
      /\ UNCHANGED <<instance, phase, pendingContinues, cleanVars, reloadMode,
                     outcome, count>>
  BY DEF Created
<1>3. /\ objects' \in Seq(Objects) /\ Len(objects') = o
      /\ DOMAIN objects' = DOMAIN objects \cup {o}
      /\ objects'[o] = x /\ \A p \in DOMAIN objects : objects'[p] = objects[p]
  BY <1>1, <1>2
<1>4. /\ processes' \in [Instances -> [Agents -> 0 .. Len(objects')]]
      /\ processes'[i][Of(f)] = o
      /\ \A b \in Agents \ {Of(f)} : processes'[i][b] = processes[i][b]
  <2>1. /\ processes \in [Instances -> [Agents -> 0 .. Len(objects)]]
        /\ 0 .. Len(objects) \subseteq 0 .. o /\ o \in 0 .. o
    BY <1>1 DEF IInv, TypeOK
  <2> HIDE DEF o
  <2>2. /\ processes' \in [Instances -> [Agents -> 0 .. o]]
        /\ processes'[i][Of(f)] = o
        /\ \A b \in Agents \ {Of(f)} : processes'[i][b] = processes[i][b]
    BY <1>1, <1>2, <2>1, EntryChanges
  <2> QED
    BY <1>3, <2>2
<1>5. /\ pc' \in [Fibers -> Points] /\ pc'[f] = "ensured"
      /\ \A g \in Fibers \ {f} : pc'[g] = pc[g]
  BY <1>2 DEF Goes, IInv, TypeOK, Points
<1>6. held' \in [Fibers -> [obj : 0 .. Len(objects'), inst : 1 .. instance']]
  <2> DEFINE H == [obj : 0 .. Len(objects'), inst : 1 .. instance']
  <2>1. held[f] \in [obj : 0 .. Len(objects), inst : 1 .. instance]
    BY DEF IInv, TypeOK
  <2>2. \A g \in Fibers : held[g] \in H
    BY <1>1, <1>2, <1>3 DEF IInv, TypeOK
  <2> DEFINE y == [obj |-> o, inst |-> held[f].inst]
  <2>3. held' = [held EXCEPT ![f] = [held[f] EXCEPT !.obj = o]]
    BY DEF Created
  <2>4. held' = [held EXCEPT ![f] = y]
    <3>1. [held[f] EXCEPT !.obj = o] = y
      BY <2>1, HeldChanges
    <3> HIDE DEF y
    <3> QED
      BY <2>3, <3>1
  <2>5. y \in H
    BY <1>1, <1>2, <1>3
  <2>6. held \in [Fibers -> H]
    BY <2>2 DEF IInv, TypeOK
  <2> HIDE DEF H, y, o, x, i
  <2>7. held' \in [Fibers -> H]
    BY <2>4, <2>5, <2>6
  <2> QED
    BY <2>7 DEF H
<1>7. TypeOK'
  <2>1. /\ todo' \subseteq Agents \X (1 .. Len(objects'))
        /\ closing' \subseteq Agents \X (1 .. Len(objects'))
    BY <1>1, <1>2, <1>3 DEF IInv, TypeOK
  <2> QED
    BY <1>2, <1>3, <1>4, <1>5, <1>6, <2>1 DEF IInv, TypeOK
<1>8. Counted' /\ Tidy' /\ Marked' /\ OnlyCutTurnsContinue'
  <2>1. \A c \in Continues : pc'[c] = "idle" <=> pc[c] = "idle"
    BY <1>2, <1>5 DEF Fibers
  <2> QED
    BY <1>2, <2>1, MarksKept DEF IInv, TypeOK
<1>9. ASSUME Alone' PROVE AloneInv'
  <2>1. Alone /\ AloneInv /\ i = 1 /\ Writing(f) /\ processes[1][Of(f)] = 0
    BY <1>1, <1>2, <1>9 DEF Alone, IInv, Writing, AloneInv, Replaceable
  <2>2. \A g \in Fibers : Writing(g)' => g # f /\ Writing(g) /\ Of(g) # Of(f)
    BY <1>5, <2>1 DEF Writing, AloneInv, OneWriter
  <2>3. \A e \in todo \cup closing :
          e[1] \in Agents /\ e[1] # Of(f) /\ e[2] \in DOMAIN objects
    BY <1>1, <2>1 DEF AloneInv, OneWriter, IInv, TypeOK
  <2>4. OneWriter'
    BY <1>2, <2>1, <2>2 DEF AloneInv, OneWriter, Of
  <2>5. \A p \in DOMAIN objects : Live(p)' <=> Live(p)
    BY <1>3 DEF Live
  <2>6. o \notin DOMAIN objects /\ \A b \in Agents : processes[1][b] # o
    BY <1>1, ServiceAssumption DEF IInv, TypeOK, Instances
  <2>7. Replaceable'
    <3>1. \A g \in Fibers :
            /\ pc'[g] = "creating" => processes'[1][Of(g)] = 0
            /\ pc'[g] = "closing" =>
                 \A p \in DOMAIN objects' : Live(p)' => processes'[1][Of(g)] # p
      <4> SUFFICES ASSUME NEW g \in Fibers, Writing(g)'
                   PROVE  /\ pc'[g] = "creating" => processes'[1][Of(g)] = 0
                          /\ pc'[g] = "closing" =>
                               \A p \in DOMAIN objects' :
                                 Live(p)' => processes'[1][Of(g)] # p
        BY DEF Writing
      <4>1. /\ pc'[g] = pc[g] /\ Of(g) \in Agents \ {Of(f)}
            /\ processes'[1][Of(g)] = processes[1][Of(g)]
        BY <1>4, <1>5, <2>1, <2>2, OfAgents
      <4> QED
        BY <1>3, <2>1, <2>5, <2>6, <4>1 DEF AloneInv, Replaceable
    <3>2. /\ \A e \in todo \cup closing : processes'[1][e[1]] = e[2]
          /\ \A e \in closing : ~Live(e[2])'
      BY <1>4, <2>1, <2>3, <2>5 DEF AloneInv, Replaceable
    <3> QED
      BY <1>2, <3>1, <3>2 DEF Replaceable, Of
  <2>8. Reachable'
    <3> SUFFICES ASSUME NEW p \in DOMAIN objects', Live(p)'
                 PROVE  processes'[1][objects'[p].of] = p
      BY DEF Reachable
    <3>1. CASE p = o
      BY <1>3, <1>4, <2>1, <3>1
    <3>2. CASE p \in DOMAIN objects
      <4>1. processes[1][objects[p].of] = p /\ p # 0 /\ objects[p].of \in Agents
        <5>1. objects[p] \in Objects /\ p # 0
          BY <1>1, <3>2
        <5> QED
          BY <2>1, <2>5, <3>2, <5>1 DEF AloneInv, Reachable, Objects
      <4> QED
        BY <1>3, <1>4, <2>1, <3>2, <4>1
    <3> QED
      BY <1>3, <3>1, <3>2
  <2>9. LateOnly'
    <3>1. phase = "over" => x.late
      OBVIOUS
    <3> HIDE DEF x
    <3> QED
      BY <1>2, <1>3, <2>1, <2>5, <3>1 DEF AloneInv, LateOnly
  <2> QED
    BY <2>4, <2>7, <2>8, <2>9 DEF AloneInv
<1> QED
  BY <1>7, <1>8, <1>9 DEF IInv

LEMMA ReloadClosedKeeps ==
  ASSUME IInv, NEW f \in Fibers, ReloadClosed(f)
  PROVE  IInv'
<1> DEFINE i == held[f].inst
<1> USE DEF svcVars, cleanVars
<1>1. Of(f) \in Agents /\ i \in 1 .. instance /\ i \in Instances
  BY OfAgents, ServiceAssumption DEF IInv, TypeOK, Instances
<1>2. /\ pc[f] = "closing" /\ Goes(f, "ensuring")
      /\ processes' = [processes EXCEPT ![i][Of(f)] = 0]
      /\ UNCHANGED <<instance, phase, pendingContinues, cleanVars, objects,
                     reloadMode, held, outcome, count>>
  BY DEF ReloadClosed
<1>3. /\ processes' \in [Instances -> [Agents -> 0 .. Len(objects)]]
      /\ processes'[i][Of(f)] = 0
      /\ \A b \in Agents \ {Of(f)} : processes'[i][b] = processes[i][b]
  <2>1. /\ processes \in [Instances -> [Agents -> 0 .. Len(objects)]]
        /\ 0 \in 0 .. Len(objects)
    BY DEF IInv, TypeOK
  <2> QED
    BY <1>1, <1>2, <2>1, EntryChanges
<1>4. /\ pc' \in [Fibers -> Points] /\ pc'[f] = "ensuring"
      /\ \A g \in Fibers \ {f} : pc'[g] = pc[g]
  BY <1>2 DEF Goes, IInv, TypeOK, Points
<1>5. TypeOK'
  BY <1>2, <1>3, <1>4 DEF IInv, TypeOK
<1>6. Counted' /\ Tidy' /\ Marked' /\ OnlyCutTurnsContinue'
  <2>1. \A c \in Continues : pc'[c] = "idle" <=> pc[c] = "idle"
    BY <1>2, <1>4 DEF Fibers
  <2> QED
    BY <1>2, <2>1, MarksKept DEF IInv, TypeOK
<1>7. ASSUME Alone' PROVE AloneInv'
  <2>1. Alone /\ AloneInv /\ i = 1 /\ Writing(f)
    BY <1>1, <1>2, <1>7 DEF Alone, IInv, Writing
  <2>2. \A g \in Fibers :
          Writing(g)' => /\ Writing(g) /\ pc'[g] = pc[g]
                         /\ Of(g) \in Agents \ {Of(f)}
                         /\ processes'[1][Of(g)] = processes[1][Of(g)]
    BY <1>3, <1>4, <2>1, OfAgents DEF Writing, AloneInv, OneWriter
  <2>3. \A e \in todo \cup closing : e[1] \in Agents \ {Of(f)}
    BY <1>1, <2>1 DEF AloneInv, OneWriter, IInv, TypeOK
  <2>4. OneWriter'
    BY <1>2, <2>1, <2>2 DEF AloneInv, OneWriter, Of
  <2>5. Replaceable'
    <3>1. \A g \in Fibers :
            /\ pc'[g] = "creating" => processes'[1][Of(g)] = 0
            /\ pc'[g] = "closing" =>
                 \A p \in DOMAIN objects : Live(p) => processes'[1][Of(g)] # p
      BY <2>1, <2>2 DEF Writing, AloneInv, Replaceable
    <3>2. \A e \in todo \cup closing : processes'[1][e[1]] = e[2]
      BY <1>3, <2>1, <2>3 DEF AloneInv, Replaceable
    <3> QED
      BY <1>2, <2>1, <3>1, <3>2 DEF AloneInv, Replaceable, Of, Live
  <2>6. Reachable'
    <3>1. \A p \in DOMAIN objects : objects[p].of \in Agents
      <4> SUFFICES ASSUME NEW p \in DOMAIN objects PROVE objects[p].of \in Agents
        OBVIOUS
      <4>1. objects[p] \in Objects
        BY DEF IInv, TypeOK
      <4> QED
        BY <4>1 DEF Objects
    <3>2. \A p \in DOMAIN objects : Live(p) => objects[p].of # Of(f)
      BY <1>2, <2>1 DEF AloneInv, Reachable, Replaceable
    <3> QED
      BY <1>2, <1>3, <2>1, <3>1, <3>2 DEF AloneInv, Reachable, Live
  <2>7. LateOnly'
    BY <1>2, <2>1 DEF AloneInv, LateOnly, Live
  <2> QED
    BY <2>4, <2>5, <2>6, <2>7 DEF AloneInv
<1> QED
  BY <1>5, <1>6, <1>7 DEF IInv

\* A reload that finds no process goes on to make one; one that finds a
\* process closes it, and only then takes its entry out.
LEMMA ReloadKeeps ==
  ASSUME IInv, NEW r \in Reloads, Reload(r)
  PROVE  IInv'
<1> DEFINE o == processes[instance][Target[r]]
<1> USE DEF svcVars, cleanVars
<1>1. r \in Fibers /\ r \notin Continues /\ Target[r] \in Agents /\ Of(r) = Target[r]
  BY Kinds4, ServiceAssumption DEF Fibers, Of
<1>2. o \in 0 .. Len(objects)
  BY <1>1 DEF IInv, TypeOK
<1>3. held' \in [Fibers -> [obj : 0 .. Len(objects), inst : 1 .. instance]]
  BY <1>1, Holds DEF IInv, Reload
<1>4. CASE ~(o > 0)
  <2>1. Goes(r, "ensuring") /\ UNCHANGED objects
        /\ UNCHANGED <<svcVars, cleanVars, reloadMode, outcome, count>>
    BY <1>4 DEF Reload
  <2>2. CallKeeps(r)
    BY <1>1, <1>3, <2>1
       DEF CallKeeps, CountKept, SomeChange, Points, IInv, TypeOK
  <2> QED
    BY <1>1, <2>2, CallKeepsIInv
<1>5. CASE o > 0
  <2>1. /\ pc[r] = "idle" /\ (Overlap \/ ~Busy(Target[r]))
        /\ Close(o) /\ Goes(r, "closing")
        /\ UNCHANGED <<svcVars, cleanVars, reloadMode, outcome, count>>
    BY <1>5 DEF Reload
  <2>2. o \in DOMAIN objects /\ objects \in Seq(Objects)
    BY <1>2, <1>5 DEF IInv, TypeOK
  <2>4. SomeChange /\ ~objects'[o].alive
    BY <2>1, <2>2, Closing
  <2>5. /\ objects' \in Seq(Objects) /\ Len(objects') = Len(objects)
        /\ DOMAIN objects' = DOMAIN objects
        /\ \A p \in DOMAIN objects :
             /\ objects'[p].of = objects[p].of
             /\ objects'[p].late = objects[p].late
             /\ Live(p)' => Live(p)
    BY <2>2, <2>4, ChangeKeeps
  <2>7. /\ pc' \in [Fibers -> Points] /\ pc'[r] = "closing"
        /\ \A g \in Fibers \ {r} : pc'[g] = pc[g]
    BY <1>1, <2>1 DEF Goes, IInv, TypeOK, Points
  <2>8. TypeOK'
    BY <1>3, <2>1, <2>5, <2>7 DEF IInv, TypeOK
  <2>9. Counted' /\ Tidy' /\ Marked' /\ OnlyCutTurnsContinue'
    <3>1. \A c \in Continues : pc'[c] = "idle" <=> pc[c] = "idle"
      BY <1>1, <2>7 DEF Fibers
    <3> QED
      BY <2>1, <3>1, MarksKept DEF IInv, TypeOK
  <2>10. ASSUME Alone' PROVE AloneInv'
    <3>1. Alone /\ AloneInv
      BY <2>1, <2>10 DEF Alone, IInv
    <3>2. /\ \A g \in Fibers : Writing(g) => Of(g) # Of(r)
          /\ \A e \in todo \cup closing : e[1] # Of(r)
      BY <1>1, <2>1, <3>1 DEF Alone, Busy, Writing
    <3>3. OneWriter'
      BY <1>1, <2>1, <2>7, <3>1, <3>2 DEF AloneInv, OneWriter, Writing, Of
    <3>4. \A p \in DOMAIN objects : Live(p)' => processes[1][Of(r)] # p
      BY <1>1, <2>4, <3>1 DEF Alone, Live
    <3>5. \A e \in todo \cup closing : e[2] \in DOMAIN objects
      BY <2>2 DEF IInv, TypeOK
    <3>6. Replaceable'
      <4>1. \A g \in Fibers :
              /\ pc'[g] = "creating" => processes[1][Of(g)] = 0
              /\ pc'[g] = "closing" =>
                   \A p \in DOMAIN objects : Live(p)' => processes[1][Of(g)] # p
        BY <2>5, <2>7, <3>1, <3>4 DEF AloneInv, Replaceable
      <4>2. \A e \in closing : ~Live(e[2])'
        BY <2>5, <3>1, <3>5 DEF AloneInv, Replaceable
      <4> QED
        BY <2>1, <2>5, <3>1, <4>1, <4>2 DEF AloneInv, Replaceable, Of
    <3>7. Reachable' /\ LateOnly'
      BY <2>1, <2>5, <3>1 DEF AloneInv, Reachable, LateOnly
    <3> QED
      BY <3>3, <3>6, <3>7 DEF AloneInv
  <2> QED
    BY <2>8, <2>9, <2>10 DEF IInv
<1> QED
  BY <1>4, <1>5

-----------------------------------------------------------------------------
(* The cleanup and evaluate()                                              *)

\* What an agent is, what a record of the agents says, and an end of the stop:
\* nothing but an agent's state or a mode changes.
LEMMA QuietSteps ==
  ASSUME IInv,
         \/ \E o \in DOMAIN objects : InitStep(o) \/ InitFails(o)
         \/ \E a \in Agents : \E mode \in Modes : SetReloadMode(a, mode)
         \/ StopNext
  PROVE  IInv'
<1> USE DEF svcVars, cleanVars
<1>1. objects \in Seq(Objects)
      /\ reloadMode \in [Agents -> Modes]
  BY DEF IInv, TypeOK
<1>2. ASSUME NEW o \in DOMAIN objects, InitStep(o) \/ InitFails(o) PROVE IInv'
  <2>1. objects[o].kind \in Kinds
    <3>1. objects[o] \in Objects
      BY <1>1
    <3> QED
      BY <3>1 DEF Objects
  <2>2. \/ \E k \in Kinds : \E i \in Stages :
             Becomes(o, [objects[o] EXCEPT !.init = i, !.kind = k])
        \/ Becomes(o, [objects[o] EXCEPT !.init = "turn", !.kind = "prompting",
                                         !.queue = 0])
    <3>1. CASE Initialized(o)
      BY <3>1 DEF Initialized, InitMoves, Kinds, Stages
    <3>2. CASE InitFlushes(o)
      BY <3>2 DEF InitFlushes
    <3>3. CASE InitOver(o)
      BY <2>1, <3>3 DEF InitOver, InitMoves, Kinds, Stages
    <3>4. CASE InitFails(o)
      BY <3>4 DEF InitFails, InitMoves, Kinds, Stages
    <3> QED
      BY <1>2, <3>1, <3>2, <3>3, <3>4 DEF InitStep
  <2>3. SomeChange
    BY <1>1, <2>2, ObjectSet DEF Kinds, Stages
  <2>4. CountKept
    <3>1. \/ UNCHANGED count
          \/ /\ count.failures < MaxFailures
             /\ count' = [count EXCEPT !.failures = @ + 1]
          \/ Late
      BY <1>2 DEF InitStep, Initialized, InitFlushes, InitOver, InitFails,
                  Answers, Rejects
    <3> QED
      BY <3>1, CountKeeps
  <2>5. UNCHANGED <<svcVars, cleanVars, reloadMode, pc, held, outcome>>
    BY <1>2 DEF InitStep, Initialized, InitFlushes, InitOver, InitFails, InitMoves
  <2> QED
    BY <1>1, <2>3, <2>4, <2>5, Stays
<1>3. ASSUME NEW a \in Agents, NEW mode \in Modes, SetReloadMode(a, mode)
      PROVE  IInv'
  <2>1. CountKept
    BY <1>3, CountKeeps DEF SetReloadMode
  <2> QED
    BY <1>1, <1>3, <2>1, Stays DEF SetReloadMode, SomeChange
<1>4. CASE StopNext
  <2>1. SomeChange
    BY <1>1, <1>4, ObjectSet DEF StopNext, Kinds, Stages
  <2>2. CountKept
    BY <1>4, CountKeeps DEF StopNext
  <2> QED
    BY <1>1, <1>4, <2>1, <2>2, Stays DEF StopNext
<1> QED
  BY <1>2, <1>3, <1>4

LEMMA HotReloadKeeps ==
  ASSUME IInv, HotReload
  PROVE  IInv'
<1> USE DEF svcVars, cleanVars
<1>1. /\ phase = "up" /\ count.hots < MaxHots /\ (Overlap \/ AtEase)
      /\ phase' = "cleaning"
      /\ todo' \subseteq Entries(instance)
      /\ UNCHANGED <<instance, processes, pendingContinues, closing, cut, objects,
                     reloadMode, pc, held, outcome>>
  BY DEF HotReload
<1>2. count' \in Counts /\ count'.hots = count.hots + 1 /\ count.hots \in Nat
  <2>1. count \in Counts
    BY DEF IInv, TypeOK
  <2>2. count' = [hots |-> count.hots + 1, failures |-> count.failures,
                  lates |-> count.lates]
    BY <2>1, CountChanges DEF HotReload
  <2> QED
    BY <1>1, <2>1, <2>2, ServiceAssumption DEF Counts
<1>3. todo = {} /\ closing = {} /\ pendingContinues = {}
  BY <1>1 DEF IInv, Tidy
<1>4. \A e \in Entries(instance) : /\ e \in Agents \X (1 .. Len(objects))
                                   /\ processes[instance][e[1]] = e[2]
  BY DEF Entries, IInv, TypeOK
<1>5. TypeOK'
  BY <1>1, <1>2, <1>4 DEF IInv, TypeOK
<1>6. instance \in Nat
  BY ServiceAssumption DEF IInv, TypeOK, Instances
<1>7. Counted' /\ Tidy' /\ Marked' /\ OnlyCutTurnsContinue'
  BY <1>1, <1>2, <1>3, <1>6
     DEF IInv, Counted, Tidy, Marked, OnlyCutTurnsContinue
<1>8. ASSUME Alone' PROVE AloneInv'
  <2>1. Alone /\ AloneInv
    BY <1>1, <1>8 DEF Alone, IInv
  <2>2. \A f \in Fibers : ~Writing(f)
    BY <1>1, <2>1, OfAgents DEF AtEase, Busy, Alone, Writing
  <2>3. \A e \in todo' : processes[1][e[1]] = e[2] /\ e \in Agents \X (1 .. Len(objects))
    BY <1>1, <1>4, <2>1 DEF Alone
  <2>4. OneWriter'
    BY <1>1, <1>3, <2>2, <2>3 DEF OneWriter, Writing
  <2>5. Replaceable'
    BY <1>1, <1>3, <2>2, <2>3 DEF Replaceable, Writing
  <2> QED
    BY <1>1, <2>1, <2>4, <2>5 DEF AloneInv, Reachable, LateOnly, Live
<1> QED
  BY <1>5, <1>7, <1>8 DEF IInv

LEMMA CloseNextKeeps ==
  ASSUME IInv, CloseNext
  PROVE  IInv'
<1> USE DEF svcVars, cleanVars
<1>1. PICK e \in todo :
        /\ todo' = todo \ {e} /\ closing' = {e}
        /\ \/ /\ pendingContinues' = pendingContinues \cup {e[1]}
              /\ cut' = cut \cup {<<e[1], count.hots>>}
           \/ UNCHANGED <<pendingContinues, cut>>
        /\ Close(e[2])
  BY DEF CloseNext
<1>2. /\ phase = "cleaning" /\ closing = {}
      /\ UNCHANGED <<instance, phase, processes, reloadMode, pc, held, outcome,
                     count>>
  BY DEF CloseNext
<1>3. e[1] \in Agents /\ e[2] \in DOMAIN objects /\ objects \in Seq(Objects)
      /\ e \in Agents \X (1 .. Len(objects))
  BY DEF IInv, TypeOK
<1>4. SomeChange /\ ~objects'[e[2]].alive
  BY <1>1, <1>3, Closing
<1>5. /\ objects' \in Seq(Objects) /\ Len(objects') = Len(objects)
      /\ DOMAIN objects' = DOMAIN objects
      /\ \A p \in DOMAIN objects :
           /\ objects'[p].of = objects[p].of
           /\ objects'[p].late = objects[p].late
           /\ Live(p)' => Live(p)
  BY <1>3, <1>4, ChangeKeeps
<1>7. count.hots \in 1 .. MaxHots
  BY <1>2, ServiceAssumption DEF IInv, TypeOK, Counted, Instances, Counts
<1>8. <<e[1], count.hots>> \in Continues
  BY <1>3, <1>7 DEF Continues
<1>9. TypeOK'
  BY <1>1, <1>2, <1>3, <1>5, <1>8 DEF IInv, TypeOK
<1>10. Counted' /\ Tidy'
  BY <1>1, <1>2 DEF IInv, Counted, Tidy
<1>11. Marked' /\ OnlyCutTurnsContinue'
  <2>1. \A c \in cut' : \/ c \in cut
                        \/ c[1] \in pendingContinues' /\ c[2] = count.hots
    BY <1>1
  <2>2. cut \subseteq cut' /\ pendingContinues \subseteq pendingContinues'
    BY <1>1
  <2>3. \A a \in pendingContinues' \ pendingContinues : <<a, count.hots>> \in cut'
    BY <1>1
  <2> QED
    BY <1>2, <2>1, <2>2, <2>3 DEF IInv, Marked, OnlyCutTurnsContinue
<1>12. ASSUME Alone' PROVE AloneInv'
  <2>1. Alone /\ AloneInv
    BY <1>2, <1>12 DEF Alone, IInv
  <2>2. todo' \cup closing' = todo \cup closing
    BY <1>1, <1>2
  <2>3. OneWriter'
    BY <1>1, <1>2, <2>1, <2>2 DEF AloneInv, OneWriter, Writing, Of
  <2>4. Replaceable'
    <3>1. \A f \in Fibers :
            /\ pc[f] = "creating" => processes[1][Of(f)] = 0
            /\ pc[f] = "closing" =>
                 \A p \in DOMAIN objects : Live(p)' => processes[1][Of(f)] # p
      BY <1>5, <2>1 DEF AloneInv, Replaceable
    <3>2. \A d \in closing' : ~Live(d[2])'
      BY <1>1, <1>4 DEF Live
    <3> QED
      BY <1>2, <1>5, <2>1, <2>2, <3>1, <3>2 DEF AloneInv, Replaceable, Of
  <2>5. Reachable' /\ LateOnly'
    BY <1>2, <1>5, <2>1 DEF AloneInv, Reachable, LateOnly
  <2> QED
    BY <2>3, <2>4, <2>5 DEF AloneInv
<1> QED
  BY <1>9, <1>10, <1>11, <1>12 DEF IInv

LEMMA EntryClosedKeeps ==
  ASSUME IInv, EntryClosed
  PROVE  IInv'
<1> USE DEF svcVars, cleanVars
<1>1. PICK e \in closing : processes' = [processes EXCEPT ![instance][e[1]] = 0]
  BY DEF EntryClosed
<1>2. /\ phase = "cleaning" /\ closing' = {}
      /\ UNCHANGED <<instance, phase, pendingContinues, todo, cut, objects,
                     reloadMode, pc, held, outcome, count>>
  BY DEF EntryClosed
<1>3. e[1] \in Agents /\ instance \in Instances
  BY DEF IInv, TypeOK
<1>4. /\ processes' \in [Instances -> [Agents -> 0 .. Len(objects)]]
      /\ processes'[instance][e[1]] = 0
      /\ \A b \in Agents \ {e[1]} : processes'[instance][b] = processes[instance][b]
  <2>1. /\ processes \in [Instances -> [Agents -> 0 .. Len(objects)]]
        /\ 0 \in 0 .. Len(objects)
    BY DEF IInv, TypeOK
  <2> QED
    BY <1>1, <1>3, <2>1, EntryChanges
<1>5. TypeOK'
  BY <1>2, <1>4 DEF IInv, TypeOK
<1>6. Counted' /\ Tidy' /\ Marked' /\ OnlyCutTurnsContinue'
  BY <1>2 DEF IInv, Counted, Tidy, Marked, OnlyCutTurnsContinue
<1>7. ASSUME Alone' PROVE AloneInv'
  <2>1. Alone /\ AloneInv
    BY <1>2, <1>7 DEF Alone, IInv
  <2>2. \A f \in Fibers : Writing(f) => Of(f) \in Agents \ {e[1]}
    BY <2>1, OfAgents DEF AloneInv, OneWriter
  <2>3. \A d \in todo : d[1] \in Agents \ {e[1]}
    BY <2>1 DEF AloneInv, OneWriter, IInv, TypeOK
  <2>4. OneWriter'
    BY <1>2, <2>1 DEF AloneInv, OneWriter, Writing, Of
  <2>5. Replaceable'
    <3>1. \A f \in Fibers :
            /\ pc[f] = "creating" => processes'[1][Of(f)] = 0
            /\ pc[f] = "closing" =>
                 \A p \in DOMAIN objects : Live(p) => processes'[1][Of(f)] # p
      BY <1>4, <2>1, <2>2 DEF Alone, Writing, AloneInv, Replaceable
    <3>2. \A d \in todo : processes'[1][d[1]] = d[2]
      BY <1>4, <2>1, <2>3 DEF Alone, AloneInv, Replaceable
    <3> QED
      BY <1>2, <3>1, <3>2 DEF Replaceable, Of, Live
  <2>6. Reachable'
    <3>1. \A p \in DOMAIN objects : objects[p].of \in Agents
      <4> SUFFICES ASSUME NEW p \in DOMAIN objects PROVE objects[p].of \in Agents
        OBVIOUS
      <4>1. objects[p] \in Objects
        BY DEF IInv, TypeOK
      <4> QED
        BY <4>1 DEF Objects
    <3>2. processes[1][e[1]] = e[2] /\ ~Live(e[2])
      BY <2>1 DEF AloneInv, Replaceable
    <3>3. \A p \in DOMAIN objects : Live(p) => objects[p].of # e[1]
      BY <2>1, <3>2 DEF AloneInv, Reachable
    <3> QED
      BY <1>2, <1>4, <2>1, <3>1, <3>3 DEF Alone, AloneInv, Reachable, Live
  <2>7. LateOnly'
    BY <1>2, <2>1 DEF AloneInv, LateOnly, Live
  <2> QED
    BY <2>4, <2>5, <2>6, <2>7 DEF AloneInv
<1> QED
  BY <1>5, <1>6, <1>7 DEF IInv

LEMMA PhaseSteps ==
  ASSUME IInv, CleanupEnds \/ Shutdown
  PROVE  IInv'
<1> USE DEF svcVars, cleanVars
<1>1. /\ \/ phase = "cleaning" /\ phase' = "down" /\ todo = {} /\ closing = {}
         \/ phase = "up" /\ phase' = "stopping"
      /\ UNCHANGED <<instance, processes, pendingContinues, cleanVars, objects,
                     reloadMode, pc, held, outcome, count>>
  BY DEF CleanupEnds, Shutdown
<1>2. TypeOK'
  BY <1>1 DEF IInv, TypeOK
<1>3. Counted' /\ Tidy' /\ Marked' /\ OnlyCutTurnsContinue'
  BY <1>1 DEF IInv, Counted, Tidy, Marked, OnlyCutTurnsContinue
<1>4. ASSUME Alone' PROVE AloneInv'
  <2>1. SomeChange
    BY <1>1 DEF SomeChange
  <2>2. AloneInv /\ phase' # "over"
    BY <1>1, <1>4 DEF Alone, IInv
  <2> QED
    BY <1>1, <2>1, <2>2, TableKept DEF IInv
<1> QED
  BY <1>2, <1>3, <1>4 DEF IInv

\* evaluate() starts exactly the marked agents' continuations.
LEMMA EvaluateKeeps ==
  ASSUME IInv, Evaluate
  PROVE  IInv'
<1> DEFINE Due == pendingContinues \X {count.hots}
           H == [obj : 0 .. Len(objects), inst : 1 .. instance]
<1> USE DEF svcVars, cleanVars
<1>1. /\ phase \in {"down", "blocked"} /\ phase' = "up" /\ pendingContinues' = {}
      /\ pc' = [f \in Fibers |-> IF f \in Due THEN "ensuring" ELSE pc[f]]
      /\ held' = [f \in Fibers |->
           IF f \in Due THEN [held[f] EXCEPT !.inst = instance] ELSE held[f]]
      /\ UNCHANGED <<instance, processes, cleanVars, objects, reloadMode,
                     outcome, count>>
  BY DEF Evaluate
<1>2. todo = {} /\ closing = {}
  BY <1>1 DEF IInv, Tidy
<1>3. held' \in [Fibers -> H]
  <2>1. \A f \in Fibers : held[f] \in H
    BY DEF IInv, TypeOK
  <2>2. instance \in 1 .. instance
    BY ServiceAssumption DEF IInv, TypeOK, Instances
  <2>3. \A f \in Fibers : [held[f] EXCEPT !.inst = instance] \in H
    <3> SUFFICES ASSUME NEW f \in Fibers
                 PROVE  [held[f] EXCEPT !.inst = instance] \in H
      OBVIOUS
    <3>1. [held[f] EXCEPT !.inst = instance] = [obj |-> held[f].obj, inst |-> instance]
      BY <2>1, HeldChanges
    <3> QED
      BY <2>1, <2>2, <3>1
  <2> DEFINE g(f) == IF f \in Due THEN [held[f] EXCEPT !.inst = instance] ELSE held[f]
  <2>4. \A f \in Fibers : g(f) \in H
    BY <2>1, <2>3
  <2>5. held' = [f \in Fibers |-> g(f)]
    BY <1>1
  <2> HIDE DEF H, g
  <2> QED
    BY <2>4, <2>5
<1>4. pc' \in [Fibers -> Points]
      /\ \A f \in Fibers : pc'[f] = IF f \in Due THEN "ensuring" ELSE pc[f]
  <2>1. pc' = [f \in Fibers |-> IF f \in Due THEN "ensuring" ELSE pc[f]]
    BY <1>1
  <2>2. pc \in [Fibers -> Points] /\ "ensuring" \in Points
    BY DEF IInv, TypeOK, Points
  <2> HIDE DEF Due
  <2> QED
    BY <2>1, <2>2
<1>5. TypeOK'
  BY <1>1, <1>3, <1>4 DEF IInv, TypeOK
<1>6. Counted' /\ Tidy'
  BY <1>1, <1>2 DEF IInv, Counted, Tidy
<1>7. Marked'
  <2> SUFFICES ASSUME instance = 1, NEW c \in cut PROVE pc'[c] # "idle"
    BY <1>1 DEF Marked
  <2>1. c \in Continues /\ c \in Fibers /\ c = <<c[1], c[2]>>
    BY DEF IInv, TypeOK, Continues, Fibers
  <2>2. CASE pc[c] # "idle"
    BY <1>4, <2>1, <2>2
  <2>3. CASE c[1] \in pendingContinues /\ c[2] = count.hots
    <3>1. c \in Due
      BY <2>1, <2>3
    <3> QED
      BY <1>4, <2>1, <3>1
  <2> QED
    BY <2>2, <2>3 DEF IInv, Marked
<1>8. OnlyCutTurnsContinue'
  <2> SUFFICES ASSUME NEW c \in Continues, pc'[c] # "idle" PROVE c \in cut
    BY <1>1 DEF OnlyCutTurnsContinue
  <2>1. c \in Due => c \in cut
    BY DEF IInv, Marked
  <2> QED
    BY <1>4, <2>1 DEF IInv, OnlyCutTurnsContinue, Fibers
<1>9. ASSUME Alone' PROVE AloneInv'
  <2>1. SomeChange
    BY <1>1 DEF SomeChange
  <2>2. \A f \in Fibers : Writing(f)' => pc'[f] = pc[f]
    BY <1>4 DEF Writing
  <2> QED
    BY <1>1, <1>9, <2>1, <2>2, TableKept DEF Alone, IInv
<1> QED
  BY <1>5, <1>6, <1>7, <1>8, <1>9 DEF IInv

LEMMA BlockKeeps ==
  ASSUME IInv, Block
  PROVE  IInv'
<1> USE DEF svcVars, cleanVars
<1>1. /\ phase = "down" /\ phase' = "blocked" /\ instance' = instance + 1
      /\ pendingContinues' = {}
      /\ UNCHANGED <<processes, cleanVars, objects, reloadMode, pc, held, outcome,
                     count>>
  BY DEF Block
<1>2. /\ instance \in 1 .. count.hots /\ count.hots \in 1 .. MaxHots
      /\ todo = {} /\ closing = {}
  BY <1>1, ServiceAssumption DEF IInv, Counted, Tidy, TypeOK, Instances, Counts
<1>3. instance' \in Instances /\ 1 .. instance \subseteq 1 .. instance' /\ instance' # 1
  BY <1>1, <1>2, ServiceAssumption DEF Instances
<1>4. held' \in [Fibers -> [obj : 0 .. Len(objects), inst : 1 .. instance']]
  BY <1>1, <1>3 DEF IInv, TypeOK
<1>5. TypeOK'
  BY <1>1, <1>3, <1>4 DEF IInv, TypeOK
<1>6. Counted' /\ Tidy' /\ Marked' /\ OnlyCutTurnsContinue'
  BY <1>1, <1>2, <1>3 DEF IInv, Counted, Tidy, Marked, OnlyCutTurnsContinue
<1> QED
  BY <1>3, <1>5, <1>6 DEF IInv, Alone

LEMMA StoppedKeeps ==
  ASSUME IInv, Stopped
  PROVE  IInv'
<1> USE DEF svcVars, cleanVars
<1>1. /\ phase = "stopping" /\ phase' = "over"
      /\ \A e \in Entries(instance) : ~Live(e[2])
      /\ processes' = [processes EXCEPT ![instance] = [a \in Agents |-> 0]]
      /\ UNCHANGED <<instance, pendingContinues, cleanVars, objects, reloadMode,
                     pc, held, outcome, count>>
  BY DEF Stopped
<1>2. TypeOK'
  BY <1>1 DEF IInv, TypeOK
<1>3. Counted' /\ Tidy' /\ Marked' /\ OnlyCutTurnsContinue'
  BY <1>1 DEF IInv, Counted, Tidy, Marked, OnlyCutTurnsContinue
<1>4. ASSUME Alone' PROVE AloneInv'
  <2>1. Alone /\ AloneInv /\ todo = {} /\ closing = {}
    BY <1>1, <1>4 DEF Alone, IInv, Tidy
  <2>2. \A p \in DOMAIN objects : ~Live(p)
    <3> SUFFICES ASSUME NEW p \in DOMAIN objects, Live(p) PROVE FALSE
      OBVIOUS
    <3> DEFINE a == objects[p].of
    <3>1. objects[p] \in Objects
      BY DEF IInv, TypeOK
    <3>2. a \in Agents /\ p > 0
      <4>1. objects \in Seq(Objects)
        BY DEF IInv, TypeOK
      <4> QED
        BY <3>1, <4>1 DEF Objects
    <3>4. processes[1][a] = p
      BY <2>1 DEF AloneInv, Reachable
    <3>3. <<a, p>> \in Entries(1)
      BY <3>2, <3>4 DEF Entries
    <3> QED
      BY <1>1, <2>1, <3>3 DEF Alone
  <2>3. \A a \in Agents : processes'[1][a] = 0
    BY <1>1, <2>1 DEF Alone, IInv, TypeOK
  <2>4. OneWriter'
    BY <1>1, <2>1 DEF AloneInv, OneWriter, Writing, Of
  <2>5. Replaceable'
    BY <1>1, <2>1, <2>2, <2>3, OfAgents DEF Replaceable, Of, Live
  <2> QED
    BY <1>1, <2>2, <2>4, <2>5 DEF AloneInv, Reachable, LateOnly, Live
<1> QED
  BY <1>2, <1>3, <1>4 DEF IInv

-----------------------------------------------------------------------------
(* The theorems                                                            *)

LEMMA StepIInv == IInv /\ [Next]_vars => IInv'
<1> SUFFICES ASSUME IInv, [Next]_vars PROVE IInv'
  OBVIOUS
<1>1. ASSUME NEW f \in Fibers,
             Call(f) \/ TurnEnds(f) \/ CreateFails(f) \/ TurnFails(f)
      PROVE  IInv'
  <2>1. CASE \/ AgentSend(f) \/ LatchOver(f) \/ TurnEnds(f) \/ TurnFails(f)
             \/ FlushQueue(f)
    BY <2>1, AgentSteps
  <2>2. CASE ReloadEnds(f) \/ CreateFails(f) \/ EnsureProcess(f)
    BY <2>2, FiberSteps
  <2>3. CASE Created(f)
    BY <2>3, CreatedKeeps
  <2>4. CASE ReloadClosed(f)
    BY <2>4, ReloadClosedKeeps
  <2> QED
    BY <1>1, <2>1, <2>2, <2>3, <2>4 DEF Call
<1>2. ASSUME NEW s \in Sends, Send(s) PROVE IInv'
  BY <1>2, FiberSteps DEF Fibers
<1>3. ASSUME NEW r \in Reloads, Reload(r) PROVE IInv'
  BY <1>3, ReloadKeeps
<1>4. CASE UNCHANGED vars
  <2>1. SomeChange /\ CountKept
    BY <1>4 DEF vars, SomeChange, CountKept, IInv, TypeOK
  <2> QED
    BY <1>4, <2>1, Stays DEF vars, IInv, TypeOK
<1>5. ASSUME \/ \E o \in DOMAIN objects : InitStep(o) \/ InitFails(o)
             \/ \E a \in Agents : \E mode \in Modes : SetReloadMode(a, mode)
             \/ HotReload \/ Cleanup \/ Evaluate \/ Block \/ Shutdown
      PROVE  IInv'
  BY <1>5, QuietSteps, HotReloadKeeps, CloseNextKeeps, EntryClosedKeeps,
     PhaseSteps, EvaluateKeeps, BlockKeeps, StoppedKeeps DEF Cleanup
<1> QED
  BY <1>1, <1>2, <1>3, <1>4, <1>5 DEF Next

LEMMA SpecIInv == Spec => []IInv
<1> QED
  BY InitIInv, StepIInv, PTL DEF Spec

\* The service's fields and its calls keep their types: no call holds an
\* object that is not there, none is left with an instance still to come.
THEOREM TypeCorrect == Spec => []TypeOK
<1>1. IInv => TypeOK
  BY DEF IInv
<1> QED
  BY <1>1, SpecIInv, PTL

\* Nothing the service starts gets out of its reach: for any number of agents,
\* sends, reloads of an agent and hot reloads, as long as the instance lasts
\* and no two parties change one agent's entry at a time, every live process is
\* the one its agent's entry names, and a shutdown leaves none that was made
\* before it began.
THEOREM ProcessesStayInReach == Spec => []NoStrayProcess
<1>1. IInv => NoStrayProcess
  BY DEF IInv, NoStrayProcess, OneProcess, NoneAfterShutdown, Alone, AloneInv,
         Reachable, LateOnly
<1> QED
  BY <1>1, SpecIInv, PTL

\* Exactly the turns that a hot reload cut off are continued, each once: the
\* mark is there from the moment the turn is cut to the moment evaluate()
\* starts the continuation.
THEOREM CutTurnsAreKept == Spec => []CutTurnsKept
<1>1. IInv => CutTurnsKept
  BY DEF IInv, CutTurnsKept, CutTurnsMarked, Marked
<1> QED
  BY <1>1, SpecIInv, PTL

===============================================================================
