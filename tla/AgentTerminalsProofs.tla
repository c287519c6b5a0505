------------------------ MODULE AgentTerminalsProofs ------------------------
(***************************************************************************)
(* Theorems about AgentTerminals: for any terminals, any of which may      *)
(* ignore SIGTERM or print, any waiters and any bounds.                    *)
(***************************************************************************)
EXTENDS AgentTerminals, SequenceTheorems, WellFoundedInduction, TLAPS

\* A set that holds 0 and, with a number, the next one holds every number.
LEMMA NatsIn ==
  ASSUME NEW S, 0 \in S, \A n \in Nat : n \in S => n + 1 \in S
  PROVE  Nat \subseteq S
<1> DEFINE R == OpToRel(<, Nat)
           T == Nat \ S
<1> SUFFICES ASSUME T # {} PROVE FALSE
  OBVIOUS
<1>1. IsWellFoundedOn(R, Nat)
  BY NatLessThanWellFounded
<1>2. \A i, j \in Nat : i < j => <<i, j>> \in R
  BY DEF OpToRel
<1> HIDE DEF R
<1>3. PICK m \in T : \A n \in T : ~(<<n, m>> \in R)
  BY <1>1, WFMin
<1>4. m \in Nat \ {0}
  OBVIOUS
<1>5. m - 1 \in Nat /\ m - 1 < m /\ (m - 1) + 1 = m
  BY <1>4
<1>6. m - 1 \notin T
  BY <1>2, <1>3, <1>5
<1> QED
  BY <1>3, <1>5, <1>6

\* A terminal that is not spawned yet has no process and is not in the table.
Unborn ==
  \A t \in Terminals : stage[t] # "done" =>
    proc[t] = "none" /\ exitStatus[t] = "none" /\ t \notin terminals

\* A process whose exit is known does not run: only the two events tell it.
RunsUnknown ==
  \A t \in Terminals : proc[t] = "running" => exitStatus[t] = "none"

IInv == /\ TypeOK /\ Unborn /\ RunsUnknown /\ TimersCleared
        /\ SomethingWillEndIt /\ ForgottenOnlyIfTold /\ WaitersToldTheStatus

LEMMA InitIInv == Init => IInv
<1> SUFFICES ASSUME Init PROVE IInv
  OBVIOUS
<1>1. waiting \in [Waiters -> [on : SUBSET Terminals, told : Statuses]]
  BY DEF Init, NoWait, Statuses
<1>2. TypeOK
  BY <1>1 DEF Init, TypeOK, Statuses
<1>3. Unborn /\ RunsUnknown /\ TimersCleared
  BY DEF Init, Unborn, RunsUnknown, TimersCleared
<1>4. SomethingWillEndIt /\ ForgottenOnlyIfTold
  BY DEF Init, SomethingWillEndIt, ForgottenOnlyIfTold
<1>5. WaitersToldTheStatus
  BY DEF Init, NoWait, WaitersToldTheStatus
<1> QED
  BY <1>2, <1>3, <1>4, <1>5 DEF IInv

-----------------------------------------------------------------------------
(* What the helpers of the actions keep.                                   *)

\* Terminate only adds to the signals, and tells every process it is to end
\* that runs and of which no exit is known.
LEMMA TerminateAdds ==
  ASSUME TypeOK, NEW ts \in SUBSET Terminals, Terminate(ts)
  PROVE  /\ signals' \in [Terminals -> SUBSET {"SIGTERM", "SIGKILL"}]
         /\ strays' \in [Terminals -> Nat]
         /\ \A t \in Terminals : /\ signals[t] \subseteq signals'[t]
                                 /\ strays[t] <= strays'[t]
         /\ \A t \in ts : exitStatus[t] = "none" /\ proc[t] = "running"
                            => "SIGTERM" \in signals'[t]
BY DEF TypeOK, Terminate, Killed

\* Resolve answers the waiters of one terminal that had no answer, and leaves
\* the others.
LEMMA ResolveAnswers ==
  ASSUME TypeOK, NEW t \in Terminals, NEW status \in Statuses,
         Resolve(t, status)
  PROVE  /\ waiting' \in [Waiters -> [on : SUBSET Terminals, told : Statuses]]
         /\ \A w \in Waiters :
              /\ waiting'[w].on = waiting[w].on
              /\ waiting'[w].told =
                   IF waiting[w].on = {t} /\ waiting[w].told = "none"
                     THEN status ELSE waiting[w].told
<1>1. ASSUME NEW w \in Waiters
      PROVE  /\ waiting'[w] \in [on : SUBSET Terminals, told : Statuses]
             /\ waiting'[w].on = waiting[w].on
             /\ waiting'[w].told =
                  IF waiting[w].on = {t} /\ waiting[w].told = "none"
                    THEN status ELSE waiting[w].told
  BY DEF Resolve, TypeOK
<1>2. waiting' \in [Waiters -> [on : SUBSET Terminals, told : Statuses]]
  BY <1>1 DEF Resolve
<1> QED
  BY <1>1, <1>2

\* A release leaves no process untold, and no timer with a handle.
LEMMA ReleaseKeeps ==
  ASSUME IInv, NEW ts \in SUBSET terminals, Release(ts),
         UNCHANGED <<stage, proc, exitStatus, waiting>>,
         agent' \in {"up", "closed"}, UNCHANGED truncated
  PROVE  IInv'
<1> USE DEF IInv
<1>1. ts \in SUBSET Terminals
  BY DEF TypeOK
<1>2. /\ signals' \in [Terminals -> SUBSET {"SIGTERM", "SIGKILL"}]
      /\ strays' \in [Terminals -> Nat]
      /\ \A t \in Terminals : /\ signals[t] \subseteq signals'[t]
                              /\ strays[t] <= strays'[t]
      /\ \A t \in ts : exitStatus[t] = "none" /\ proc[t] = "running"
                         => "SIGTERM" \in signals'[t]
  BY <1>1, TerminateAdds DEF Release
<1>3. /\ \A t \in Terminals : /\ lifetime'[t] <=> lifetime[t] /\ t \notin ts
                              /\ killer'[t] <=> killer[t] /\ t \notin ts
      /\ terminals' = terminals \ ts
  BY DEF Release
<1>4. TypeOK'
  <2>1. /\ lifetime' \in [Terminals -> BOOLEAN]
        /\ killer' \in [Terminals -> BOOLEAN]
    BY Zenon DEF Release
  <2> QED
    BY <1>2, <1>3, <2>1 DEF TypeOK
<1>5. Unborn' /\ RunsUnknown' /\ TimersCleared'
  BY <1>3 DEF Unborn, RunsUnknown, TimersCleared
<1>6. SomethingWillEndIt'
  <2> SUFFICES ASSUME NEW t \in terminals', exitStatus[t] = "none",
                      proc[t] = "running"
               PROVE  \/ lifetime'[t] \/ killer'[t] \/ strays'[t] > 0
                      \/ "SIGKILL" \in signals'[t]
    BY DEF SomethingWillEndIt
  <2>1. t \in Terminals /\ t \in terminals /\ t \notin ts
    BY <1>3 DEF TypeOK
  <2>2. lifetime[t] \/ killer[t] \/ strays[t] > 0 \/ "SIGKILL" \in signals[t]
    BY <2>1 DEF SomethingWillEndIt
  <2>3. strays[t] > 0 => strays'[t] > 0
    BY <1>2, <2>1 DEF TypeOK
  <2>4. "SIGKILL" \in signals[t] => "SIGKILL" \in signals'[t]
    BY <1>2, <2>1
  <2> QED
    BY <1>3, <2>1, <2>2, <2>3, <2>4, Zenon
<1>7. ForgottenOnlyIfTold'
  BY <1>1, <1>2, <1>3 DEF ForgottenOnlyIfTold, RunsUnknown
<1>8. WaitersToldTheStatus'
  BY DEF WaitersToldTheStatus
<1> QED
  BY <1>4, <1>5, <1>6, <1>7, <1>8

\* A kill arms the timer that goes on to SIGKILL.
LEMMA KillProcessKeeps ==
  ASSUME IInv, NEW t \in terminals, KillProcess(t),
         UNCHANGED <<stage, terminals, proc, exitStatus, waiting, truncated, agent>>,
         \/ UNCHANGED lifetime
         \/ lifetime' = [lifetime EXCEPT ![t] = FALSE]
  PROVE  IInv'
<1> USE DEF IInv
<1>1. t \in Terminals /\ {t} \in SUBSET Terminals
  BY DEF TypeOK
<1>2. /\ signals' \in [Terminals -> SUBSET {"SIGTERM", "SIGKILL"}]
      /\ strays' \in [Terminals -> Nat]
      /\ \A u \in Terminals : /\ signals[u] \subseteq signals'[u]
                              /\ strays[u] <= strays'[u]
  BY <1>1, TerminateAdds DEF KillProcess
<1>3. /\ killer' \in [Terminals -> BOOLEAN]
      /\ lifetime' \in [Terminals -> BOOLEAN]
  BY <1>1, Zenon DEF KillProcess, TypeOK
<1>4. \A u \in Terminals :
        /\ killer'[u] = IF u = t THEN killer[u] \/ exitStatus[u] = "none"
                                 ELSE killer[u]
        /\ lifetime'[u] => lifetime[u]
        /\ u # t => lifetime'[u] = lifetime[u]
  BY <1>1 DEF KillProcess, TypeOK
<1>5. TypeOK'
  BY <1>2, <1>3 DEF TypeOK
<1>6. Unborn' /\ RunsUnknown' /\ TimersCleared'
  BY <1>1, <1>4 DEF Unborn, RunsUnknown, TimersCleared
<1>7. SomethingWillEndIt'
  <2> SUFFICES ASSUME NEW u \in terminals, exitStatus[u] = "none",
                      proc[u] = "running"
               PROVE  \/ lifetime'[u] \/ killer'[u] \/ strays'[u] > 0
                      \/ "SIGKILL" \in signals'[u]
    BY DEF SomethingWillEndIt
  <2>1. u \in Terminals
    BY DEF TypeOK
  <2>2. lifetime[u] \/ killer[u] \/ strays[u] > 0 \/ "SIGKILL" \in signals[u]
    BY DEF SomethingWillEndIt
  <2>3. strays[u] > 0 => strays'[u] > 0
    BY <1>2, <2>1 DEF TypeOK
  <2>4. "SIGKILL" \in signals[u] => "SIGKILL" \in signals'[u]
    BY <1>2, <2>1
  <2>5. u # t => lifetime[u] = lifetime'[u] /\ killer[u] = killer'[u]
    BY <1>4, <2>1
  <2>6. u = t => killer'[u]
    BY <1>4, <2>1
  <2> QED
    BY <2>2, <2>3, <2>4, <2>5, <2>6, Zenon
<1>8. ForgottenOnlyIfTold' /\ WaitersToldTheStatus'
  BY <1>2 DEF ForgottenOnlyIfTold, WaitersToldTheStatus
<1> QED
  BY <1>5, <1>6, <1>7, <1>8

-----------------------------------------------------------------------------
\* Every step keeps the inductive invariant.
LEMMA StepIInv == IInv /\ [Next]_vars => IInv'
<1> SUFFICES ASSUME IInv, [Next]_vars PROVE IInv'
  OBVIOUS
<1> USE DEF IInv
<1>1. ASSUME NEW t \in Terminals, Create(t) PROVE IInv'
  BY <1>1 DEF Create, timers, outputs, TypeOK, Unborn, RunsUnknown,
     TimersCleared, SomethingWillEndIt, ForgottenOnlyIfTold,
     WaitersToldTheStatus
<1>2. ASSUME NEW t \in Terminals, Spawn(t) PROVE IInv'
  <2>1. PICK how \in {"running", "failing"} :
          proc' = [proc EXCEPT ![t] = how]
    BY <1>2 DEF Spawn
  <2>2. exitStatus[t] = "none" /\ t \notin terminals
    BY <1>2 DEF Spawn, Unborn
  <2>3. TypeOK'
    BY <1>2, <2>1 DEF Spawn, outputs, TypeOK
  <2>4. Unborn' /\ RunsUnknown' /\ TimersCleared'
    BY <1>2, <2>1, <2>2 DEF Spawn, TypeOK, Unborn, RunsUnknown, TimersCleared
  <2>5. SomethingWillEndIt' /\ ForgottenOnlyIfTold' /\ WaitersToldTheStatus'
    BY <1>2, <2>1, <2>2 DEF Spawn, TypeOK, SomethingWillEndIt,
       ForgottenOnlyIfTold, WaitersToldTheStatus
  <2> QED
    BY <2>3, <2>4, <2>5
<1>3. ASSUME NEW t \in Terminals, Closes(t) PROVE IInv'
  <2>1. /\ waiting' \in [Waiters -> [on : SUBSET Terminals, told : Statuses]]
        /\ \A w \in Waiters :
             /\ waiting'[w].on = waiting[w].on
             /\ waiting'[w].told =
                  IF waiting[w].on = {t} /\ waiting[w].told = "none"
                    THEN "close" ELSE waiting[w].told
    BY <1>3, ResolveAnswers DEF Closes, Statuses
  <2>2. TypeOK'
    BY <1>3, <2>1 DEF Closes, ClearTimers, outputs, TypeOK, Statuses
  <2>3. Unborn' /\ RunsUnknown' /\ TimersCleared'
    BY <1>3 DEF Closes, ClearTimers, TypeOK, Unborn, RunsUnknown, TimersCleared
  <2>4. SomethingWillEndIt' /\ ForgottenOnlyIfTold'
    BY <1>3 DEF Closes, ClearTimers, TypeOK, SomethingWillEndIt,
       ForgottenOnlyIfTold
  <2>5. WaitersToldTheStatus'
    <3> SUFFICES ASSUME NEW w \in Waiters, NEW u \in Terminals,
                        waiting[w].on = {u}
                 PROVE  waiting'[w].told \in {exitStatus'[u], "error"}
      BY <2>1 DEF WaitersToldTheStatus
    <3>1. waiting[w].told \in {exitStatus[u], "error"}
      BY DEF WaitersToldTheStatus
    <3>2. CASE u = t
      BY <1>3, <2>1, <3>1, <3>2 DEF Closes, TypeOK, Statuses
    <3>3. CASE u # t
      <4>1. {u} # {t}
        BY <3>3
      <4>2. waiting'[w].told = waiting[w].told
        BY <2>1, <4>1
      <4> QED
        BY <1>3, <3>1, <3>3, <4>2 DEF Closes, TypeOK
    <3> QED
      BY <3>2, <3>3
  <2> QED
    BY <2>2, <2>3, <2>4, <2>5
<1>4. ASSUME NEW t \in Terminals, Errors(t) PROVE IInv'
  <2>1. /\ waiting' \in [Waiters -> [on : SUBSET Terminals, told : Statuses]]
        /\ \A w \in Waiters :
             /\ waiting'[w].on = waiting[w].on
             /\ waiting'[w].told =
                  IF waiting[w].on = {t} /\ waiting[w].told = "none"
                    THEN "error" ELSE waiting[w].told
    BY <1>4, ResolveAnswers DEF Errors, Statuses
  <2>2. TypeOK'
    BY <1>4, <2>1 DEF Errors, ClearTimers, outputs, TypeOK, Statuses
  <2>3. Unborn' /\ RunsUnknown' /\ TimersCleared'
    BY <1>4 DEF Errors, ClearTimers, TypeOK, Unborn, RunsUnknown, TimersCleared
  <2>4. SomethingWillEndIt' /\ ForgottenOnlyIfTold'
    BY <1>4 DEF Errors, ClearTimers, TypeOK, SomethingWillEndIt,
       ForgottenOnlyIfTold
  <2>5. WaitersToldTheStatus'
    <3> SUFFICES ASSUME NEW w \in Waiters, NEW u \in Terminals,
                        waiting[w].on = {u}
                 PROVE  waiting'[w].told \in {exitStatus'[u], "error"}
      BY <2>1 DEF WaitersToldTheStatus
    <3>1. waiting[w].told \in {exitStatus[u], "error"}
      BY DEF WaitersToldTheStatus
    <3>2. CASE u = t
      BY <1>4, <2>1, <3>1, <3>2 DEF Errors, TypeOK
    <3>3. CASE u # t
      <4>1. {u} # {t}
        BY <3>3
      <4>2. waiting'[w].told = waiting[w].told
        BY <2>1, <4>1
      <4> QED
        BY <1>4, <3>1, <3>3, <4>2 DEF Errors, TypeOK
    <3> QED
      BY <3>2, <3>3
  <2> QED
    BY <2>2, <2>3, <2>4, <2>5
<1>5. ASSUME NEW t \in Terminals, LifetimeOver(t) PROVE IInv'
  <2>1. t \in terminals
    BY <1>5 DEF LifetimeOver, TimersCleared
  <2> QED
    BY <1>5, <2>1, KillProcessKeeps DEF LifetimeOver, outputs
<1>6. ASSUME NEW t \in Terminals, GraceOver(t) PROVE IInv'
  <2>1. /\ killer' \in [Terminals -> BOOLEAN]
        /\ \A u \in Terminals : /\ killer'[u] => killer[u]
                                /\ u # t => killer'[u] = killer[u]
    BY <1>6 DEF GraceOver, TypeOK
  <2>2. /\ strays' \in [Terminals -> Nat]
        /\ \A u \in Terminals : u # t => strays'[u] = strays[u]
    BY <1>6 DEF GraceOver, TypeOK
  <2>3. /\ signals' \in [Terminals -> SUBSET {"SIGTERM", "SIGKILL"}]
        /\ \A u \in Terminals : signals[u] \subseteq signals'[u]
        /\ exitStatus[t] = "none" /\ proc[t] = "running"
             => "SIGKILL" \in signals'[t]
    BY <1>6 DEF GraceOver, TypeOK
  <2>4. UNCHANGED <<stage, terminals, proc, exitStatus, lifetime, waiting,
                    truncated, agent>>
    BY <1>6 DEF GraceOver, outputs
  <2>5. TypeOK'
    BY <2>1, <2>2, <2>3, <2>4 DEF TypeOK
  <2>6. Unborn' /\ RunsUnknown' /\ TimersCleared'
    BY <2>1, <2>4 DEF Unborn, RunsUnknown, TimersCleared
  <2>7. SomethingWillEndIt'
    BY <2>1, <2>2, <2>3, <2>4 DEF SomethingWillEndIt, TypeOK
  <2>8. ForgottenOnlyIfTold' /\ WaitersToldTheStatus'
    BY <2>3, <2>4 DEF ForgottenOnlyIfTold, WaitersToldTheStatus
  <2> QED
    BY <2>5, <2>6, <2>7, <2>8
<1>7. ASSUME NEW t \in Terminals, Exits(t) PROVE IInv'
  BY <1>7 DEF Exits, timers, outputs, TypeOK, Unborn, RunsUnknown,
     TimersCleared, SomethingWillEndIt, ForgottenOnlyIfTold,
     WaitersToldTheStatus
<1>8. ASSUME NEW t \in Terminals, Kill(t) PROVE IInv'
  BY <1>8, KillProcessKeeps DEF Kill, outputs
<1>9. ASSUME NEW t \in Terminals, ReleaseTerminal(t) PROVE IInv'
  BY <1>9, ReleaseKeeps DEF ReleaseTerminal, outputs, TypeOK
<1>10. ASSUME NEW t \in Terminals, NEW chunk \in Chunks, Prints(t, chunk)
       PROVE  IInv'
  <2>1. truncated' \in [Terminals -> BOOLEAN]
    <3>1. \E b : truncated' = [truncated EXCEPT ![t] = truncated[t] \/ b]
      BY <1>10, Zenon DEF Prints
    <3> QED
      BY <3>1, Zenon DEF TypeOK
  <2>2. UNCHANGED <<stage, terminals, proc, signals, exitStatus, lifetime,
                    killer, strays, waiting, agent>>
    BY <1>10 DEF Prints, timers
  <2>3. TypeOK'
    BY <2>1, <2>2 DEF TypeOK
  <2> QED
    BY <2>2, <2>3 DEF Unborn, RunsUnknown, TimersCleared, SomethingWillEndIt,
       ForgottenOnlyIfTold, WaitersToldTheStatus
<1>11. ASSUME NEW w \in Waiters, NEW t \in Terminals, WaitForExit(w, t)
       PROVE  IInv'
  <2>1. /\ waiting' = [waiting EXCEPT ![w] = [on |-> {t}, told |-> exitStatus[t]]]
        /\ UNCHANGED <<stage, terminals, proc, signals, exitStatus, lifetime,
                       killer, strays, truncated, agent>>
    BY <1>11 DEF WaitForExit, timers, outputs
  <2>2. TypeOK'
    BY <2>1 DEF TypeOK
  <2>3. WaitersToldTheStatus'
    BY <2>1 DEF TypeOK, WaitersToldTheStatus
  <2> QED
    BY <2>1, <2>2, <2>3 DEF Unborn, RunsUnknown, TimersCleared,
       SomethingWillEndIt, ForgottenOnlyIfTold
<1>12. CASE RestartAgent
  BY <1>12, ReleaseKeeps DEF RestartAgent, outputs, TypeOK
<1>13. CASE CloseAgent
  BY <1>13, ReleaseKeeps DEF CloseAgent, outputs, TypeOK
<1>14. CASE UNCHANGED vars
  BY <1>14 DEF vars, timers, outputs, TypeOK, Unborn, RunsUnknown,
     TimersCleared, SomethingWillEndIt, ForgottenOnlyIfTold,
     WaitersToldTheStatus
<1> QED
  BY <1>1, <1>2, <1>3, <1>4, <1>5, <1>6, <1>7, <1>8, <1>9, <1>10, <1>11,
     <1>12, <1>13, <1>14 DEF Next, Step, Timer

\* Every state of the terminals satisfies the inductive invariant.
LEMMA SpecIInv == Spec => []IInv
BY InitIInv, StepIInv, PTL DEF Spec

-----------------------------------------------------------------------------
\* The manager's table and the terminals have their types.
THEOREM TypeCorrect == Spec => []TypeOK
<1>1. IInv => TypeOK
  BY DEF IInv
<1> QED
  BY <1>1, SpecIInv, PTL

\* A process in the table with no known exit always has a lifetime, a kill
\* timer or a SIGKILL ahead of it, however kills and timers interleave.
THEOREM NoProcessWithoutAnEnd == Spec => []SomethingWillEndIt
<1>1. IInv => SomethingWillEndIt
  BY DEF IInv
<1> QED
  BY <1>1, SpecIInv, PTL

\* A release, a restart or the close of the agent never just forgets a
\* process: it was sent SIGTERM.
THEOREM ReleasesTell == Spec => []ForgottenOnlyIfTold
<1>1. IInv => ForgottenOnlyIfTold
  BY DEF IInv
<1> QED
  BY <1>1, SpecIInv, PTL

\* No timer with a handle outlives the exit or the release.
THEOREM TimersAreCleared == Spec => []TimersCleared
<1>1. IInv => TimersCleared
  BY DEF IInv
<1> QED
  BY <1>1, SpecIInv, PTL

\* Every waiter is told the status of its terminal, or the failure to spawn.
THEOREM WaitersAreToldRight == Spec => []WaitersToldTheStatus
<1>1. IInv => WaitersToldTheStatus
  BY DEF IInv
<1> QED
  BY <1>1, SpecIInv, PTL

-----------------------------------------------------------------------------
(* The width of a text: a fold, from left to right.                        *)

\* What the fold is unfolded to: the sum over a set of positions, the last
\* of them taken off first.
Summed(text, s, g) ==
  g = [p \in SUBSET s |->
        IF p = {} THEN 0 ELSE g[p \ {Max(p)}] + text[Max(p)]]

LEMMA LastIsMax ==
  ASSUME NEW p \in SUBSET Nat, NEW n \in p, \A m \in p : n >= m
  PROVE  Max(p) = n
<1>1. \A x \in p : (\A y \in p : x >= y) => x = n
  OBVIOUS
<1> QED
  BY <1>1 DEF Max

LEMMA SumsAre ==
  ASSUME NEW text \in Seq(Nat)
  PROVE  \E g : Summed(text, DOMAIN text, g)
<1> DEFINE I == {n \in Nat : n <= Len(text) => \E g : Summed(text, 1 .. n, g)}
<1>1. 0 \in I
  <2> DEFINE g == [p \in SUBSET (1 .. 0) |-> 0]
  <2>1. \A p \in SUBSET (1 .. 0) : p = {}
    OBVIOUS
  <2>2. g = [p \in SUBSET (1 .. 0) |->
              IF p = {} THEN 0 ELSE g[p \ {Max(p)}] + text[Max(p)]]
    BY <2>1
  <2> QED
    BY <2>2 DEF Summed
<1>2. ASSUME NEW n \in Nat, n \in I
      PROVE  n + 1 \in I
  <2> SUFFICES ASSUME n + 1 <= Len(text)
               PROVE  \E g : Summed(text, 1 .. n + 1, g)
    OBVIOUS
  <2>1. PICK g : Summed(text, 1 .. n, g)
    BY <1>2, n <= Len(text)
  <2> DEFINE h == [p \in SUBSET (1 .. n + 1) |->
                    IF n + 1 \in p THEN g[p \ {n + 1}] + text[n + 1] ELSE g[p]]
  <2>2. ASSUME NEW p \in SUBSET (1 .. n + 1)
        PROVE  h[p] = IF p = {} THEN 0
                      ELSE h[p \ {Max(p)}] + text[Max(p)]
    <3>1. CASE n + 1 \in p
      <4>1. Max(p) = n + 1
        BY <3>1, LastIsMax
      <4>2. p \ {n + 1} \in SUBSET (1 .. n + 1) /\ n + 1 \notin p \ {n + 1}
        OBVIOUS
      <4>3. h[p \ {n + 1}] = g[p \ {n + 1}]
        BY <4>2
      <4> QED
        BY <3>1, <4>1, <4>3
    <3>2. CASE n + 1 \notin p
      <4>1. p \in SUBSET (1 .. n) /\ h[p] = g[p]
        BY <3>2
      <4>2. g[p] = IF p = {} THEN 0 ELSE g[p \ {Max(p)}] + text[Max(p)]
        BY <2>1, <4>1 DEF Summed
      <4>3. h[p \ {Max(p)}] = g[p \ {Max(p)}]
        BY <3>2
      <4> QED
        BY <4>1, <4>2, <4>3
    <3> QED
      BY <3>1, <3>2
  <2>3. h = [p \in SUBSET (1 .. n + 1) |-> h[p]]
    OBVIOUS
  <2> HIDE DEF h
  <2>4. Summed(text, 1 .. n + 1, h)
    BY <2>2, <2>3 DEF Summed
  <2> QED
    BY <2>4
<1> HIDE DEF I
<1>3. Len(text) \in I
  BY <1>1, <1>2, NatsIn, LenProperties
<1> QED
  BY <1>3 DEF I

\* The sum up to the n-th character, for every n at once.
Sums(text, P) ==
  /\ P \in [0 .. Len(text) -> Nat] /\ P[0] = 0
  /\ \A n \in 0 .. Len(text) - 1 : P[n + 1] = P[n] + text[n + 1]

LEMMA BytesAre ==
  ASSUME NEW text \in Seq(Nat)
  PROVE  \E P : Sums(text, P) /\ Bytes(text) = P[Len(text)]
<1> DEFINE D == DOMAIN text
           iter == CHOOSE g : Summed(text, D, g)
<1>1. Bytes(text) = iter[D]
  BY DEF Bytes, FoldLeft, MapThenFoldSet, Summed
<1>2. Summed(text, D, iter) /\ D = 1 .. Len(text) /\ Len(text) \in Nat
  BY SumsAre, LenProperties
<1> HIDE DEF iter, D
<1>3. iter[1 .. 0] = 0
  <2>1. 1 .. 0 = {}
    OBVIOUS
  <2> QED
    BY <1>2, <2>1 DEF Summed
<1>4. ASSUME NEW n \in 0 .. Len(text) - 1
      PROVE  iter[1 .. n + 1] = iter[1 .. n] + text[n + 1]
  <2>1. 1 .. n + 1 \in SUBSET D /\ n + 1 \in 1 .. n + 1
    BY <1>2
  <2>2. Max(1 .. n + 1) = n + 1
    <3>1. 1 .. n + 1 \in SUBSET Nat /\ \A m \in 1 .. n + 1 : n + 1 >= m
      OBVIOUS
    <3> QED
      BY <2>1, <3>1, LastIsMax
  <2>3. (1 .. n + 1) \ {n + 1} = 1 .. n
    OBVIOUS
  <2> QED
    BY <1>2, <2>1, <2>2, <2>3 DEF Summed
<1> DEFINE I == {n \in Nat : n <= Len(text) => iter[1 .. n] \in Nat}
<1>5. ASSUME NEW n \in Nat, n \in I
      PROVE  n + 1 \in I
  <2> SUFFICES ASSUME n + 1 <= Len(text) PROVE iter[1 .. n + 1] \in Nat
    OBVIOUS
  <2>1. n \in 0 .. Len(text) - 1 /\ n <= Len(text)
    BY <1>2
  <2>2. iter[1 .. n] \in Nat /\ text[n + 1] \in Nat
    BY <1>5, <2>1, ElementOfSeq, <1>2
  <2> QED
    BY <1>4, <2>1, <2>2
<1>6. 0 \in I
  BY <1>3
<1> HIDE DEF I
<1>7. Nat \subseteq I
  BY <1>5, <1>6, NatsIn
<1> DEFINE P == [n \in 0 .. Len(text) |-> iter[1 .. n]]
<1>8. \A n \in 0 .. Len(text) : iter[1 .. n] \in Nat
  BY <1>2, <1>7 DEF I
<1>9. P \in [0 .. Len(text) -> Nat] /\ P[0] = 0 /\ P[Len(text)] = iter[D]
  BY <1>2, <1>3, <1>8
<1>10. \A n \in 0 .. Len(text) - 1 : P[n + 1] = P[n] + text[n + 1]
  BY <1>2, <1>4
<1> HIDE DEF P
<1> QED
  BY <1>1, <1>9, <1>10 DEF Sums

\* There is only one such P.
LEMMA SumsAgree ==
  ASSUME NEW text \in Seq(Nat), NEW other \in Seq(Nat),
         NEW P, NEW Q, Sums(text, P), Sums(other, Q),
         NEW n \in 0 .. Len(text), n <= Len(other),
         \A i \in 1 .. n : text[i] = other[i]
  PROVE  P[n] = Q[n]
<1> DEFINE I == {m \in Nat : m <= n => P[m] = Q[m]}
<1>1. Len(text) \in Nat /\ Len(other) \in Nat
  BY LenProperties
<1>2. 0 \in I
  BY DEF Sums
<1>3. ASSUME NEW m \in Nat, m \in I
      PROVE  m + 1 \in I
  <2> SUFFICES ASSUME m + 1 <= n PROVE P[m + 1] = Q[m + 1]
    OBVIOUS
  <2>1. /\ m \in 0 .. Len(text) - 1 /\ m \in 0 .. Len(other) - 1
        /\ m <= n /\ m + 1 \in 1 .. n
    BY <1>1
  <2> QED
    BY <1>3, <2>1 DEF Sums
<1> HIDE DEF I
<1>4. Nat \subseteq I
  BY <1>2, <1>3, NatsIn
<1> QED
  BY <1>1, <1>4 DEF I

\* The width of a beginning is the sum up to its end.
LEMMA BytesOfPrefix ==
  ASSUME NEW text \in Seq(Nat), NEW P, Sums(text, P),
         NEW n \in 0 .. Len(text)
  PROVE  Bytes(SubSeq(text, 1, n)) = P[n]
<1>1. Len(text) \in Nat
  BY LenProperties
<1> DEFINE front == SubSeq(text, 1, n)
<1>2. /\ front \in Seq(Nat) /\ Len(front) = n
      /\ \A i \in 1 .. n : front[i] = text[i]
  BY <1>1, SubSeqProperties
<1> HIDE DEF front
<1>3. PICK Q : Sums(front, Q) /\ Bytes(front) = Q[n]
  BY <1>2, BytesAre
<1>4. P[n] = Q[n]
  <2>1. n <= Len(front) /\ \A i \in 1 .. n : text[i] = front[i]
    BY <1>1, <1>2
  <2>2. front \in Seq(Nat) /\ Sums(front, Q)
    BY <1>2, <1>3
  <2> QED
    BY <2>1, <2>2, SumsAgree
<1> QED
  BY <1>3, <1>4 DEF front

\* Widths add up.
LEMMA BytesOfConcat ==
  ASSUME NEW a \in Seq(Nat), NEW b \in Seq(Nat)
  PROVE  /\ Bytes(a) \in Nat /\ Bytes(b) \in Nat
         /\ Bytes(a \o b) = Bytes(a) + Bytes(b)
<1> DEFINE c == a \o b
<1>1. /\ Len(a) \in Nat /\ Len(b) \in Nat /\ c \in Seq(Nat)
      /\ Len(c) = Len(a) + Len(b)
      /\ \A i \in 1 .. Len(a) : c[i] = a[i]
      /\ \A i \in 1 .. Len(b) : c[Len(a) + i] = b[i]
  BY LenProperties, ConcatProperties
<1> HIDE DEF c
<1>2. PICK P : Sums(a, P) /\ Bytes(a) = P[Len(a)]
  BY BytesAre
<1>3. PICK Q : Sums(b, Q) /\ Bytes(b) = Q[Len(b)]
  BY BytesAre
<1>4. PICK R : Sums(c, R) /\ Bytes(c) = R[Len(c)]
  BY <1>1, BytesAre
<1>5. /\ \A n \in 0 .. Len(a) : P[n] \in Nat
      /\ \A n \in 0 .. Len(b) : Q[n] \in Nat
  BY <1>2, <1>3 DEF Sums
<1>6. R[Len(a)] = P[Len(a)]
  <2>1. /\ Len(a) \in 0 .. Len(a) /\ Len(a) <= Len(c)
        /\ \A i \in 1 .. Len(a) : a[i] = c[i]
    BY <1>1
  <2>2. Sums(a, P) /\ Sums(c, R)
    BY <1>2, <1>4
  <2>3. c \in Seq(Nat)
    BY <1>1
  <2>4. P[Len(a)] = R[Len(a)]
    BY <2>1, <2>2, <2>3, SumsAgree
  <2> QED
    BY <2>4
<1> DEFINE I == {m \in Nat : m <= Len(b) =>
                   R[Len(a) + m] = P[Len(a)] + Q[m]}
<1>7. 0 \in I
  BY <1>1, <1>3, <1>5, <1>6 DEF Sums
<1>8. ASSUME NEW m \in Nat, m \in I
      PROVE  m + 1 \in I
  <2> SUFFICES ASSUME m + 1 <= Len(b)
               PROVE  R[Len(a) + (m + 1)] = P[Len(a)] + Q[m + 1]
    OBVIOUS
  <2>0. Len(a) \in Nat /\ Len(b) \in Nat /\ Len(c) = Len(a) + Len(b)
    BY <1>1
  <2>1. /\ m \in 0 .. Len(b) - 1 /\ m <= Len(b) /\ m + 1 \in 1 .. Len(b)
        /\ Len(a) + m \in 0 .. Len(c) - 1
        /\ Len(a) + (m + 1) = (Len(a) + m) + 1
    BY <2>0
  <2>2. R[(Len(a) + m) + 1] = R[Len(a) + m] + c[(Len(a) + m) + 1]
    BY <1>4, <2>1 DEF Sums
  <2>3. Q[m + 1] = Q[m] + b[m + 1]
    BY <1>3, <2>1 DEF Sums
  <2>4. c[(Len(a) + m) + 1] = b[m + 1] /\ b[m + 1] \in Nat
    <3>1. b[m + 1] \in Nat
      BY <2>1, ElementOfSeq
    <3>2. c[Len(a) + (m + 1)] = b[m + 1]
      BY <1>1, <2>1
    <3> QED
      BY <2>1, <3>1, <3>2
  <2>5. R[Len(a) + m] = P[Len(a)] + Q[m]
    BY <1>8, <2>1
  <2>6. m \in 0 .. Len(b) /\ Len(a) \in 0 .. Len(a)
    BY <1>1, <2>1
  <2>7. Q[m] \in Nat /\ P[Len(a)] \in Nat
    BY <1>5, <2>6
  <2>8. R[Len(a) + (m + 1)] = (P[Len(a)] + Q[m]) + b[m + 1]
    BY <2>1, <2>2, <2>4, <2>5
  <2> QED
    BY <2>3, <2>4, <2>7, <2>8
<1> HIDE DEF I
<1>9. Len(b) \in I
  BY <1>1, <1>7, <1>8, NatsIn
<1>10. R[Len(c)] = P[Len(a)] + Q[Len(b)]
  BY <1>1, <1>9 DEF I
<1>11. P[Len(a)] \in Nat /\ Q[Len(b)] \in Nat
  <2>1. Len(a) \in 0 .. Len(a) /\ Len(b) \in 0 .. Len(b)
    BY <1>1
  <2> QED
    BY <1>5, <2>1
<1> QED
  BY <1>2, <1>3, <1>4, <1>11, <1>10 DEF c

-----------------------------------------------------------------------------
(* Cutting.                                                                *)

\* A text is a beginning and the rest.
LEMMA FrontAndRest ==
  ASSUME NEW text \in Seq(Nat), NEW n \in 0 .. Len(text)
  PROVE  /\ SubSeq(text, 1, n) \in Seq(Nat) /\ From(text, n + 1) \in Seq(Nat)
         /\ Len(From(text, n + 1)) = Len(text) - n
         /\ text = SubSeq(text, 1, n) \o From(text, n + 1)
         /\ Bytes(text) = Bytes(SubSeq(text, 1, n)) + Bytes(From(text, n + 1))
<1>1. Len(text) \in Nat
  BY LenProperties
<1> DEFINE a == SubSeq(text, 1, n)
           b == SubSeq(text, n + 1, Len(text))
<1>2. /\ a \in Seq(Nat) /\ Len(a) = n
      /\ \A i \in 1 .. n : a[i] = text[i]
  BY <1>1, SubSeqProperties
<1>3. /\ b \in Seq(Nat) /\ Len(b) = Len(text) - n
      /\ \A i \in 1 .. Len(text) - n : b[i] = text[n + i]
  <2>1. n + 1 \in Int /\ Len(text) \in Int
    BY <1>1
  <2>2. \A i \in n + 1 .. Len(text) : text[i] \in Nat
    BY <1>1, ElementOfSeq
  <2>3. /\ b \in Seq(Nat)
        /\ Len(b) = IF n + 1 <= Len(text) THEN Len(text) - (n + 1) + 1 ELSE 0
        /\ \A i \in 1 .. Len(text) - (n + 1) + 1 : b[i] = text[(n + 1) + i - 1]
    BY <2>1, <2>2, SubSeqProperties
  <2>4. Len(b) = Len(text) - n /\ Len(text) - (n + 1) + 1 = Len(text) - n
    BY <1>1, <2>3
  <2> HIDE DEF b
  <2>5. ASSUME NEW i \in 1 .. Len(text) - n
        PROVE  b[i] = text[n + i]
    <3>1. (n + 1) + i - 1 = n + i
      BY <1>1
    <3> QED
      BY <2>3, <2>4, <3>1
  <2> QED
    BY <2>3, <2>4, <2>5
<1> HIDE DEF a, b
<1>4. /\ a \o b \in Seq(Nat) /\ Len(a \o b) = Len(text)
      /\ \A i \in 1 .. Len(text) : (a \o b)[i] = text[i]
  <2>1. /\ a \o b \in Seq(Nat) /\ Len(a \o b) = n + (Len(text) - n)
        /\ \A i \in 1 .. n + (Len(text) - n) :
             (a \o b)[i] = IF i <= n THEN a[i] ELSE b[i - n]
    <3>1. a \in Seq(Nat) /\ b \in Seq(Nat) /\ Len(a) = n
      BY <1>2, <1>3
    <3>2. Len(b) = Len(text) - n
      BY <1>3
    <3>3. /\ a \o b \in Seq(Nat) /\ Len(a \o b) = Len(a) + Len(b)
          /\ \A i \in 1 .. Len(a) + Len(b) :
               (a \o b)[i] = IF i <= Len(a) THEN a[i] ELSE b[i - Len(a)]
      BY <3>1, ConcatProperties
    <3> QED
      BY <3>1, <3>2, <3>3
  <2>2. n + (Len(text) - n) = Len(text)
    BY <1>1
  <2>3. ASSUME NEW i \in 1 .. Len(text)
        PROVE  (a \o b)[i] = text[i]
    <3>1. CASE i <= n
      BY <1>2, <2>1, <2>2, <3>1
    <3>2. CASE ~(i <= n)
      <4>1. i - n \in 1 .. Len(text) - n /\ n + (i - n) = i
        BY <1>1, <3>2
      <4>2. b[i - n] = text[i]
        BY <1>3, <4>1
      <4> QED
        BY <2>1, <2>2, <3>2, <4>2
    <3> QED
      BY <3>1, <3>2
  <2> QED
    BY <2>1, <2>2, <2>3
<1>5. text = a \o b
  BY <1>4, SeqEqual
<1>6. Bytes(text) = Bytes(a) + Bytes(b)
  BY <1>2, <1>3, <1>5, BytesOfConcat
<1> QED
  BY <1>2, <1>3, <1>5, <1>6 DEF a, b, From

LEMMA FromIs ==
  ASSUME NEW text \in Seq(Nat), NEW n \in 1 .. Len(text) + 1
  PROVE  /\ From(text, n) \in Seq(Nat)
         /\ Len(From(text, n)) = Len(text) - n + 1
         /\ \A i \in 1 .. Len(text) - n + 1 : From(text, n)[i] = text[n + i - 1]
<1>1. Len(text) \in Nat
  BY LenProperties
<1>2. \A i \in n .. Len(text) : text[i] \in Nat
  BY <1>1, ElementOfSeq
<1> QED
  BY <1>1, <1>2, SubSeqProperties DEF From

\* An end of an end is an end.
LEMMA FromFrom ==
  ASSUME NEW text \in Seq(Nat), NEW n \in 1 .. Len(text) + 1,
         NEW m \in 1 .. Len(From(text, n)) + 1
  PROVE  /\ From(From(text, n), m) = From(text, n + m - 1)
         /\ n + m - 1 \in n .. Len(text) + 1
<1> DEFINE a == From(text, n)
<1>1. /\ a \in Seq(Nat) /\ Len(a) = Len(text) - n + 1 /\ Len(text) \in Nat
      /\ \A i \in 1 .. Len(text) - n + 1 : a[i] = text[n + i - 1]
  BY FromIs, LenProperties
<1> HIDE DEF a
<1>2. m \in 1 .. Len(a) + 1
  BY DEF a
<1>3. n + m - 1 \in n .. Len(text) + 1 /\ n + m - 1 \in 1 .. Len(text) + 1
  BY <1>1, <1>2
<1> DEFINE b == From(a, m)  c == From(text, n + m - 1)
<1>4. /\ b \in Seq(Nat) /\ Len(b) = Len(a) - m + 1
      /\ \A i \in 1 .. Len(a) - m + 1 : b[i] = a[m + i - 1]
  BY <1>1, <1>2, FromIs
<1>5. /\ c \in Seq(Nat) /\ Len(c) = Len(text) - (n + m - 1) + 1
      /\ \A i \in 1 .. Len(text) - (n + m - 1) + 1 :
           c[i] = text[(n + m - 1) + i - 1]
  BY <1>3, FromIs
<1> HIDE DEF b, c
<1>6. Len(b) = Len(c) /\ Len(b) \in Nat
  <2>1. /\ Len(b) = (Len(text) - n + 1) - m + 1
        /\ Len(c) = Len(text) - (n + m - 1) + 1
    BY <1>1, <1>4, <1>5
  <2>2. Len(text) \in Nat /\ m \in 1 .. (Len(text) - n + 1) + 1
    BY <1>1, <1>2
  <2> QED
    BY <2>1, <2>2
<1>7. ASSUME NEW i \in 1 .. Len(b)
      PROVE  b[i] = c[i]
  <2>1. /\ m + i - 1 \in 1 .. Len(text) - n + 1
        /\ n + (m + i - 1) - 1 = (n + m - 1) + i - 1
    BY <1>1, <1>2, <1>4
  <2>2. b[i] = a[m + i - 1] /\ c[i] = text[(n + m - 1) + i - 1]
    BY <1>4, <1>5, <1>6
  <2>3. a[m + i - 1] = text[n + (m + i - 1) - 1]
    BY <1>1, <2>1
  <2> QED
    BY <2>1, <2>2, <2>3
<1>8. b = c
  BY <1>4, <1>5, <1>6, <1>7, SeqEqual
<1> QED
  BY <1>3, <1>8 DEF a, b, c

\* What is printed goes to the end of every end.
LEMMA FromConcat ==
  ASSUME NEW text \in Seq(Nat), NEW more \in Seq(Nat),
         NEW n \in 1 .. Len(text) + 1
  PROVE  /\ From(text, n) \o more = From(text \o more, n)
         /\ n \in 1 .. Len(text \o more) + 1
<1> DEFINE a == From(text, n)  all == text \o more
           b == a \o more  c == From(all, n)
<1>1. /\ a \in Seq(Nat) /\ Len(a) = Len(text) - n + 1 /\ Len(text) \in Nat
      /\ \A i \in 1 .. Len(text) - n + 1 : a[i] = text[n + i - 1]
  BY FromIs, LenProperties
<1>2. /\ all \in Seq(Nat) /\ Len(all) = Len(text) + Len(more)
      /\ \A i \in 1 .. Len(text) + Len(more) :
           all[i] = IF i <= Len(text) THEN text[i] ELSE more[i - Len(text)]
  BY ConcatProperties
<1> HIDE DEF a, all
<1>3. /\ b \in Seq(Nat) /\ Len(b) = Len(a) + Len(more)
      /\ \A i \in 1 .. Len(a) + Len(more) :
           b[i] = IF i <= Len(a) THEN a[i] ELSE more[i - Len(a)]
  BY <1>1, ConcatProperties
<1>4. Len(more) \in Nat /\ n \in 1 .. Len(all) + 1
  BY <1>1, <1>2, LenProperties
<1>5. /\ c \in Seq(Nat) /\ Len(c) = Len(all) - n + 1
      /\ \A i \in 1 .. Len(all) - n + 1 : c[i] = all[n + i - 1]
  BY <1>2, <1>4, FromIs
<1> HIDE DEF b, c
<1>6. Len(b) = Len(c) /\ Len(b) \in Nat
  BY <1>1, <1>2, <1>3, <1>4, <1>5
<1>7. ASSUME NEW i \in 1 .. Len(b)
      PROVE  b[i] = c[i]
  <2>1. c[i] = all[n + i - 1] /\ n + i - 1 \in 1 .. Len(text) + Len(more)
    BY <1>1, <1>2, <1>4, <1>5, <1>6
  <2>2. b[i] = IF i <= Len(a) THEN a[i] ELSE more[i - Len(a)]
    BY <1>3
  <2>3. CASE i <= Len(a)
    <3>1. i \in 1 .. Len(text) - n + 1 /\ n + i - 1 <= Len(text)
      BY <1>1, <2>3
    <3>2. a[i] = text[n + i - 1]
      BY <1>1, <3>1
    <3> QED
      BY <1>2, <2>1, <2>2, <2>3, <3>1, <3>2
  <2>4. CASE ~(i <= Len(a))
    <3>1. ~(n + i - 1 <= Len(text)) /\ (n + i - 1) - Len(text) = i - Len(a)
      BY <1>1, <2>4
    <3> QED
      BY <1>2, <2>1, <2>2, <2>4, <3>1
  <2> QED
    BY <2>3, <2>4
<1>8. b = c
  BY <1>3, <1>5, <1>6, <1>7, SeqEqual
<1> QED
  BY <1>4, <1>8 DEF a, all, b, c

\* A set of natural numbers that is not empty has a least.
LEMMA LeastOf ==
  ASSUME NEW S \in SUBSET Nat, S # {}
  PROVE  \E n \in S : \A m \in S : n <= m
<1> DEFINE I == {n \in Nat : \A m \in S : n <= m}
<1>1. 0 \in I
  OBVIOUS
<1>2. CASE \A n \in Nat : n \in I => n + 1 \in I
  <2> HIDE DEF I
  <2>1. Nat \subseteq I
    BY <1>1, <1>2, NatsIn
  <2>2. PICK m \in S : TRUE
    OBVIOUS
  <2>3. m + 1 \in I
    BY <2>1
  <2> QED
    BY <2>3 DEF I
<1>3. CASE \E n \in Nat : n \in I /\ n + 1 \notin I
  <2>1. PICK n \in Nat : n \in I /\ n + 1 \notin I
    BY <1>3
  <2>2. PICK m \in S : ~(n + 1 <= m)
    BY <2>1
  <2>3. m = n
    BY <2>1, <2>2
  <2> QED
    BY <2>1, <2>2, <2>3
<1> QED
  BY <1>2, <1>3

\* A text that is too wide is cut to its longest end that fits.
LEMMA TruncateCuts ==
  ASSUME NEW text \in Seq(Nat), ByteLimit \in Nat, Bytes(text) > ByteLimit
  PROVE  \E c \in 1 .. Len(text) :
           /\ Truncate(text) = From(text, c + 1)
           /\ Bytes(From(text, c + 1)) <= ByteLimit
           /\ Bytes(From(text, c)) > ByteLimit
<1> DEFINE excess == Bytes(text) - ByteLimit
           Width(n) == Bytes(SubSeq(text, 1, n))
           Cut(n) == /\ Width(n) >= excess
                     /\ \A m \in 0 .. n - 1 : Width(m) < excess
           c == CHOOSE n \in 0 .. Len(text) : Cut(n)
<1>1. Len(text) \in Nat
  BY LenProperties
<1>2. \A n \in 0 .. Len(text) :
        /\ Width(n) \in Nat /\ Bytes(From(text, n + 1)) \in Nat
        /\ Bytes(text) = Width(n) + Bytes(From(text, n + 1))
  BY FrontAndRest, BytesOfConcat
<1>3. Bytes(text) \in Nat /\ excess \in Nat \ {0}
  <2>1. Len(text) \in 0 .. Len(text)
    BY <1>1
  <2> QED
    BY <1>2, <2>1
<1>4. Width(0) = 0
  <2>1. PICK P : Sums(text, P)
    BY BytesAre
  <2>2. 0 \in 0 .. Len(text)
    BY <1>1
  <2> QED
    BY <2>1, <2>2, BytesOfPrefix DEF Sums
<1>5. Width(Len(text)) = Bytes(text)
  <2>1. SubSeq(text, 1, Len(text)) = text
    BY SubSeqFull
  <2> QED
    BY <2>1
<1> HIDE DEF Width
<1>6. \E n \in 0 .. Len(text) : Cut(n)
  <2> DEFINE S == {n \in 0 .. Len(text) : Width(n) >= excess}
  <2>1. Len(text) \in S /\ S \in SUBSET Nat
    BY <1>1, <1>3, <1>5
  <2> HIDE DEF S
  <2>2. PICK n \in S : \A m \in S : n <= m
    BY <2>1, LeastOf
  <2>3. n \in 0 .. Len(text) /\ Width(n) >= excess
    BY <2>2 DEF S
  <2>4. ASSUME NEW m \in 0 .. n - 1
        PROVE  Width(m) < excess
    <3>1. m \in 0 .. Len(text) /\ m \notin S
      BY <1>1, <2>2, <2>3
    <3>2. ~(Width(m) >= excess)
      BY <3>1 DEF S
    <3>3. Width(m) \in Nat
      BY <1>2, <3>1
    <3> QED
      BY <1>3, <3>2, <3>3
  <2> QED
    BY <2>3, <2>4
<1>7. c \in 0 .. Len(text) /\ Cut(c)
  BY <1>6
<1>8. Truncate(text) = From(text, c + 1)
  BY DEF Truncate, Width
<1> HIDE DEF c
<1>9. c # 0
  BY <1>3, <1>4, <1>7
<1>10. Bytes(From(text, c + 1)) <= ByteLimit
  BY <1>2, <1>3, <1>7
<1>11. Bytes(From(text, c)) > ByteLimit
  <2>1. c - 1 \in 0 .. c - 1 /\ c - 1 \in 0 .. Len(text) /\ (c - 1) + 1 = c
    BY <1>1, <1>7, <1>9
  <2>2. Width(c - 1) < excess
    BY <1>7, <2>1
  <2>3. /\ Width(c - 1) \in Nat /\ Bytes(From(text, c)) \in Nat
        /\ Bytes(text) = Width(c - 1) + Bytes(From(text, c))
    BY <1>2, <2>1
  <2> QED
    BY <1>3, <2>2, <2>3
<1> QED
  BY <1>1, <1>7, <1>8, <1>9, <1>10, <1>11

-----------------------------------------------------------------------------
(* The output.                                                             *)

\* The output of t is what was printed from the n-th character on.
KeptFrom(t, n) ==
  /\ output[t] = From(printed[t], n)
  /\ Bytes(output[t]) <= ByteLimit
  /\ n > 1 => Bytes(From(printed[t], n - 1)) > ByteLimit
  /\ truncated[t] <=> n > 1

OInv ==
  /\ truncated \in [Terminals -> BOOLEAN]
  /\ printed \in [Terminals -> Seq(1 .. 4)]
  /\ output \in [Terminals -> Seq(1 .. 4)]
  /\ \A t \in Terminals : \E n \in 1 .. Len(printed[t]) + 1 : KeptFrom(t, n)

LEMMA WidthsAreNumbers == Seq(1 .. 4) \subseteq Seq(Nat)
<1>1. 1 .. 4 \subseteq Nat
  OBVIOUS
<1> QED
  BY <1>1, SeqMonotonic

\* The first character of what is kept is the first of all exactly if nothing
\* is missing.
LEMMA WholeOrCut ==
  ASSUME NEW text \in Seq(Nat), NEW n \in 1 .. Len(text) + 1
  PROVE  n > 1 <=> From(text, n) # text
<1>1. Len(text) \in Nat /\ Len(From(text, n)) = Len(text) - n + 1
  BY FromIs, LenProperties
<1>2. CASE n > 1
  BY <1>1, <1>2
<1>3. CASE n = 1
  BY <1>3, SubSeqFull DEF From
<1> QED
  BY <1>2, <1>3

LEMMA InitOInv == Init => OInv
<1> SUFFICES ASSUME Init, NEW t \in Terminals
             PROVE  /\ 1 \in 1 .. Len(printed[t]) + 1 /\ KeptFrom(t, 1)
                    /\ output[t] \in Seq(1 .. 4)
  BY DEF Init, OInv
<1>1. printed[t] = <<>> /\ output[t] = <<>> /\ ~truncated[t]
  BY DEF Init
<1>2. From(<<>>, 1) = <<>>
  BY DEF From
<1>3. Bytes(<<>>) = 0
  <2>1. <<>> \in Seq(Nat)
    OBVIOUS
  <2>2. PICK P : Sums(<<>>, P) /\ Bytes(<<>>) = P[0]
    BY <2>1, BytesAre
  <2> QED
    BY <2>2 DEF Sums
<1>4. ByteLimit \in Nat
  BY TerminalsAssumption
<1> QED
  BY <1>1, <1>2, <1>3, <1>4 DEF KeptFrom

\* A chunk that does not fill the output beyond the limit goes to its end; one
\* that does cuts the output and all that came before it from where the cut is.
LEMMA PrintsOInv ==
  ASSUME OInv, NEW t \in Terminals, NEW chunk \in Chunks, Prints(t, chunk)
  PROVE  OInv'
<1> DEFINE text == output[t] \o chunk
           all == printed[t] \o chunk
<1>1. chunk \in Seq(1 .. 4) /\ ByteLimit \in Nat
  BY TerminalsAssumption
<1>2. /\ printed[t] \in Seq(Nat) /\ chunk \in Seq(Nat) /\ output[t] \in Seq(Nat)
      /\ printed[t] \in Seq(1 .. 4) /\ output[t] \in Seq(1 .. 4)
  BY <1>1, WidthsAreNumbers DEF OInv
<1>3. text \in Seq(1 .. 4) /\ all \in Seq(1 .. 4)
  BY <1>1, <1>2, ConcatProperties
<1>4. PICK n \in 1 .. Len(printed[t]) + 1 : KeptFrom(t, n)
  BY DEF OInv
<1>5. text = From(all, n) /\ n \in 1 .. Len(all) + 1
  <2>1. From(printed[t], n) \o chunk = From(printed[t] \o chunk, n)
    BY <1>2, FromConcat
  <2>2. n \in 1 .. Len(printed[t] \o chunk) + 1
    BY <1>2, FromConcat
  <2>3. output[t] = From(printed[t], n)
    BY <1>4 DEF KeptFrom
  <2> QED
    BY <2>1, <2>2, <2>3
<1>6. /\ output' = [output EXCEPT ![t] =
            IF Bytes(text) > ByteLimit THEN Truncate(text) ELSE text]
      /\ truncated' = [truncated EXCEPT ![t] =
            @ \/ Bytes(text) > ByteLimit]
      /\ printed' = [printed EXCEPT ![t] = all]
  BY DEF Prints
<1>7. text \in Seq(Nat) /\ all \in Seq(Nat)
  BY <1>3, WidthsAreNumbers
<1> HIDE DEF text, all
<1>8. truncated' \in [Terminals -> BOOLEAN]
  BY <1>6, Zenon DEF OInv
<1>9. printed' \in [Terminals -> Seq(1 .. 4)] /\ printed'[t] = all
  BY <1>3, <1>6 DEF OInv
<1>10. \E m \in 1 .. Len(all) + 1 :
         /\ output'[t] = From(all, m) /\ output'[t] \in Seq(1 .. 4)
         /\ Bytes(output'[t]) <= ByteLimit
         /\ m > 1 => Bytes(From(all, m - 1)) > ByteLimit
         /\ truncated'[t] <=> m > 1
  <2>1. CASE Bytes(text) > ByteLimit
    <3>1. PICK c \in 1 .. Len(text) :
            /\ Truncate(text) = From(text, c + 1)
            /\ Bytes(From(text, c + 1)) <= ByteLimit
            /\ Bytes(From(text, c)) > ByteLimit
      BY <1>1, <1>7, <2>1, TruncateCuts
    <3>2. Len(text) \in Nat /\ Len(all) \in Nat
      BY <1>7, LenProperties
    <3>3. /\ c + 1 \in 1 .. Len(From(all, n)) + 1
          /\ c \in 1 .. Len(From(all, n)) + 1
      BY <1>5, <3>2
    <3>4. /\ From(text, c + 1) = From(all, n + (c + 1) - 1)
          /\ n + (c + 1) - 1 \in n .. Len(all) + 1
      BY <1>5, <1>7, <3>3, FromFrom
    <3>5. From(text, c) = From(all, n + c - 1)
      BY <1>5, <1>7, <3>3, FromFrom
    <3>6. /\ n + (c + 1) - 1 = n + c /\ n + c > 1
          /\ n + c \in 1 .. Len(all) + 1
      BY <1>5, <3>2, <3>4
    <3>7. output'[t] = From(text, c + 1) /\ truncated'[t]
      BY <1>6, <2>1, <3>1 DEF OInv
    <3>8. output'[t] \in Seq(1 .. 4)
      <4>1. \A i \in c + 1 .. Len(text) : text[i] \in 1 .. 4
        BY <1>3, <3>2, ElementOfSeq
      <4> QED
        BY <3>2, <3>7, <4>1, SubSeqProperties DEF From
    <3> QED
      BY <3>1, <3>4, <3>5, <3>6, <3>7, <3>8
  <2>2. CASE ~(Bytes(text) > ByteLimit)
    <3>1. output'[t] = text /\ (truncated'[t] <=> truncated[t])
      BY <1>6, <2>2 DEF OInv
    <3>2. Bytes(text) <= ByteLimit
      <4>1. Bytes(text) \in Nat
        BY <1>7, BytesOfConcat
      <4> QED
        BY <1>1, <2>2, <4>1
    <3>3. ASSUME n > 1
          PROVE  Bytes(From(all, n - 1)) > ByteLimit
      <4>1. n - 1 \in 1 .. Len(printed[t]) + 1
        BY <1>2, <3>3, LenProperties
      <4>2. From(printed[t], n - 1) \in Seq(Nat)
        BY <1>2, <4>1, FromIs
      <4>3. From(all, n - 1) = From(printed[t], n - 1) \o chunk
        BY <1>2, <4>1, FromConcat DEF all
      <4>4. /\ Bytes(From(printed[t], n - 1)) \in Nat /\ Bytes(chunk) \in Nat
            /\ Bytes(From(all, n - 1)) =
                 Bytes(From(printed[t], n - 1)) + Bytes(chunk)
        BY <1>2, <4>2, <4>3, BytesOfConcat
      <4> QED
        BY <1>1, <1>4, <3>3, <4>4 DEF KeptFrom
    <3> QED
      BY <1>3, <1>4, <1>5, <3>1, <3>2, <3>3 DEF KeptFrom
  <2> QED
    BY <2>1, <2>2
<1>11. output' \in [Terminals -> Seq(1 .. 4)]
  BY <1>6, <1>10 DEF OInv
<1>12. ASSUME NEW u \in Terminals
       PROVE  \E m \in 1 .. Len(printed'[u]) + 1 : KeptFrom(u, m)'
  <2>1. CASE u = t
    BY <1>9, <1>10, <2>1 DEF KeptFrom
  <2>2. CASE u # t
    <3>1. /\ output'[u] = output[u] /\ printed'[u] = printed[u]
          /\ truncated'[u] = truncated[u]
      BY <1>6, <2>2 DEF OInv
    <3> QED
      BY <3>1 DEF OInv, KeptFrom
  <2> QED
    BY <2>1, <2>2
<1> QED
  BY <1>8, <1>9, <1>11, <1>12 DEF OInv

LEMMA StepOInv == OInv /\ [Next]_vars => OInv'
<1> SUFFICES ASSUME OInv, [Next]_vars PROVE OInv'
  OBVIOUS
<1>1. ASSUME NEW t \in Terminals, NEW chunk \in Chunks, Prints(t, chunk)
      PROVE  OInv'
  BY <1>1, PrintsOInv
<1>2. ASSUME UNCHANGED outputs
      PROVE  OInv'
  BY <1>2 DEF OInv, KeptFrom, outputs
<1>3. ASSUME NEW t \in Terminals,
             \/ Create(t) \/ Step(t) \/ Timer(t) \/ Exits(t)
             \/ Kill(t) \/ ReleaseTerminal(t)
      PROVE  UNCHANGED outputs
  BY <1>3 DEF Create, Step, Spawn, Closes, Errors, Timer, LifetimeOver,
              GraceOver, Exits, Kill, ReleaseTerminal
<1>4. ASSUME NEW w \in Waiters, NEW t \in Terminals, WaitForExit(w, t)
      PROVE  UNCHANGED outputs
  BY <1>4 DEF WaitForExit
<1>5. RestartAgent \/ CloseAgent \/ UNCHANGED vars => UNCHANGED outputs
  BY DEF RestartAgent, CloseAgent, vars
<1> QED
  BY <1>1, <1>2, <1>3, <1>4, <1>5 DEF Next

\* Whatever chunks a process prints and whatever the limit, the output kept is
\* the longest end of all it printed that fits, cut at a character's boundary,
\* and marked exactly when something is missing: cutting again and again loses
\* nothing that a single cut of everything would keep.
THEOREM KeepsTheTail == Spec => []OutputIsTheTail
<1>1. OInv => OutputIsTheTail
  <2> SUFFICES ASSUME OInv, NEW t \in Terminals
               PROVE  \E n \in 1 .. Len(printed[t]) + 1 :
                        /\ output[t] = From(printed[t], n)
                        /\ Bytes(output[t]) <= ByteLimit
                        /\ n > 1 => Bytes(From(printed[t], n - 1)) > ByteLimit
                        /\ truncated[t] <=> output[t] # printed[t]
    BY DEF OutputIsTheTail
  <2>1. PICK n \in 1 .. Len(printed[t]) + 1 : KeptFrom(t, n)
    BY DEF OInv
  <2>2. printed[t] \in Seq(Nat)
    BY WidthsAreNumbers DEF OInv
  <2>3. n > 1 <=> From(printed[t], n) # printed[t]
    BY <2>2, WholeOrCut
  <2> QED
    BY <2>1, <2>3 DEF KeptFrom
<1> QED
  BY <1>1, InitOInv, StepOInv, PTL DEF Spec
===============================================================================
