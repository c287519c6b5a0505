--------------------------- MODULE ServiceRuntime ---------------------------
(***************************************************************************)
(* The service runtime of the main process,                                *)
(* packages/init/src/main/runtime.ts: services are registered under a key  *)
(* with the keys they depend on, and a single drain loop re-evaluates what *)
(* a change affects, level by topological level, while modules are hot     *)
(* reloaded and pruned.                                                    *)
(*                                                                         *)
(* A step is the code between two awaits.  The one stretch of code that is *)
(* long and reads its own writes, reconcileKey called for each key of a    *)
(* level, is one step per key, and nothing else runs before its last one.  *)
(* A class is its registration: the number of the call of register(), the  *)
(* keys it needs and the keys it would like (optional()).  That number is  *)
(* the registration token too, for the two maps are written together.      *)
(*                                                                         *)
(* Left out: workspaces (scoped keys), tracing, and the RPC router built   *)
(* from the instances.  Cleanups and evaluations are the services' own     *)
(* code: they end when they like, and an evaluation may throw.             *)
(***************************************************************************)
EXTENDS Naturals, Sequences, FiniteSets

CONSTANTS
  Services,         \* the keys
  Shapes,           \* Shapes[k]: the <<needs, likes>> a class of k may have
  Overlap,          \* may a prune meet work under way on its own key?
  MaxChanges,       \* bound: calls of register() and reloadAll()
  MaxPrunes,        \* bound: prune callbacks called
  MaxFailures       \* bound: evaluations that throw

ASSUME RuntimeAssumption ==
  /\ IsFiniteSet(Services) /\ Overlap \in BOOLEAN
  /\ Shapes \in [Services -> SUBSET ((SUBSET Services) \X (SUBSET Services))]
  /\ MaxChanges \in Nat /\ MaxPrunes \in Nat /\ MaxFailures \in Nat

VARIABLES
  defs,      \* definitions: the class registered under each key
  prunes,    \* the hot.prune callbacks handed out and not yet called
  slots,     \* slots: the slot object, its instance and its status
  made,      \* how many slots and how many instances were made
  dirty,     \* dirtyKeys
  batch,     \* draining: the batch under way, its levels, the level it is at
  jobs,      \* what the level under way is doing for each key
  tears,     \* the calls of unregister() that await a cleanup
  live,      \* the instances whose setups are in force
  wired,     \* the ctx of each instance: the instances it was given
  ran,       \* the class each instance was last evaluated with
  drainError,\* a batch threw
  stop,      \* shutdown(): "no", "going" or "over"
  count      \* registrations, reloads, prunes and failures so far

regVars == <<defs, prunes>>
drainVars == <<dirty, batch, jobs>>
instVars == <<live, wired, ran>>
vars == <<regVars, slots, made, drainVars, tears, instVars, drainError, stop,
          count>>

NoClass == [version |-> 0, needs |-> {}, likes |-> {}]
NoSlot == [id |-> 0, inst |-> 0, status |-> "blocked"]
NoJob == [stage |-> "none", inst |-> 0, slot |-> 0, class |-> NoClass]
NoBatch == [phase |-> "none", levels |-> <<>>, at |-> 0]
NoCtx == [k \in Services |-> 0]
NoJobs == [k \in Services |-> NoJob]

Init ==
  /\ defs = [k \in Services |-> NoClass]
  /\ prunes = {}
  /\ slots = [k \in Services |-> NoSlot]
  /\ made = [slots |-> 0, insts |-> 0]
  /\ dirty = {} /\ batch = NoBatch /\ jobs = NoJobs
  /\ tears = {}
  /\ live = {} /\ wired = <<>> /\ ran = <<>>
  /\ drainError = FALSE
  /\ stop = "no"
  /\ count = [registers |-> 0, reloads |-> 0, prunes |-> 0, failures |-> 0]

-----------------------------------------------------------------------------
(* The graph.  `df' and `sl' are definitions and slots, as they are or as  *)
(* the step at hand makes them.                                            *)

Defined(df) == {k \in Services : df[k].version > 0}
DepsOf(class) == class.needs \cup class.likes
Ready(sl, k) == sl[k].id > 0 /\ sl[k].status = "ready" /\ sl[k].inst > 0

\* rebuildDependentsIndex: those whose class names one of the keys.
Dependents(df, keys) == {k \in Defined(df) : DepsOf(df[k]) \cap keys # {}}

\* Mutation: the dependents of a dependent are left out.
Affected_DirectOnly(df, keys) ==
  (keys \cup Dependents(df, keys)) \cap Defined(df)

\* getAffectedKeys: the keys and all that depends on them, if still defined.
Affected(df, keys) ==
  LET reach[n \in 0 .. Cardinality(Services)] ==
        IF n = 0 THEN keys
        ELSE LET before == reach[n - 1] IN before \cup Dependents(df, before)
  IN  reach[Cardinality(Services)] \cap Defined(df)

Placed(levels) == UNION {levels[n] : n \in DOMAIN levels}

\* Mutation: optional dependencies do not order the levels.
Levels_NeedsOnly(df, keys) ==
  LET upTo[n \in 0 .. Cardinality(keys)] ==
        IF n = 0 THEN <<>>
        ELSE LET below == upTo[n - 1]
                 next == {k \in keys \ Placed(below) :
                            df[k].needs \cap keys \subseteq Placed(below)}
             IN  IF next = {} THEN below ELSE Append(below, next)
  IN  upTo[Cardinality(keys)]

\* topologicalLevels: level after level, the keys that depend on nothing here
\* but on lower levels; the keys of a cycle are in none.
Levels(df, keys) ==
  LET upTo[n \in 0 .. Cardinality(keys)] ==
        IF n = 0 THEN <<>>
        ELSE LET below == upTo[n - 1]
                 next == {k \in keys \ Placed(below) :
                            DepsOf(df[k]) \cap keys \subseteq Placed(below)}
             IN  IF next = {} THEN below ELSE Append(below, next)
  IN  upTo[Cardinality(keys)]

-----------------------------------------------------------------------------
(* scheduleReconcile and the drain loop                                    *)

\* Phase 1 at one level: the instances there are cleaned up, all at once.
CleanJobs(sl, level) ==
  [k \in Services |->
     IF k \in level /\ sl[k].inst > 0
       THEN [NoJob EXCEPT !.stage = "cleaning", !.inst = sl[k].inst]
       ELSE NoJob]

\* Phase 2 at one level: reconcileKey is called for each key.
ReconcileJobs(level) ==
  [k \in Services |-> IF k \in level THEN [NoJob EXCEPT !.stage = "queued"]
                                     ELSE NoJob]

\* The head of reconcileBatch, down to its first await.  Entered with
\* nothing dirty the loop would end before `draining' is assigned, and a
\* settled promise would be left there.
StartBatch(df, sl, keys) ==
  \E affected \in {Affected(df, keys)} : \E levels \in {Levels(df, affected)} :
    LET phase == IF keys = {} THEN "settled"
                 ELSE IF affected = {} THEN "empty"
                 ELSE IF Placed(levels) # affected THEN "thrown"
                 ELSE "cleaning"
    IN  /\ dirty' = {}
        /\ IF phase = "cleaning"
             THEN /\ batch' = [phase |-> phase, levels |-> levels,
                               at |-> Len(levels)]
                  /\ jobs' = CleanJobs(sl, levels[Len(levels)])
             ELSE /\ batch' = [NoBatch EXCEPT !.phase = phase]
                  /\ jobs' = NoJobs

Draining == batch.phase # "none"

ScheduleReconcile(df, sl, keys) ==
  IF Draining
    THEN dirty' = dirty \cup keys /\ UNCHANGED <<batch, jobs>>
    ELSE StartBatch(df, sl, dirty \cup keys)

LevelIdle == \A k \in Services : jobs[k].stage = "none"

\* A cleanup of phase 1 returns.
Cleaned(k) ==
  /\ jobs[k].stage = "cleaning"
  /\ live' = live \ {jobs[k].inst}
  /\ jobs' = [jobs EXCEPT ![k] = NoJob]
  /\ UNCHANGED <<regVars, slots, made, dirty, batch, tears, wired, ran,
                 drainError, stop, count>>

\* The level is cleaned: the one below it is next, or phase 2 from the bottom.
LevelCleaned ==
  /\ batch.phase = "cleaning" /\ LevelIdle
  /\ IF batch.at > 1
       THEN /\ batch' = [batch EXCEPT !.at = @ - 1]
            /\ jobs' = CleanJobs(slots, batch.levels[batch.at - 1])
       ELSE /\ batch' = [batch EXCEPT !.phase = "evaluating"]
            /\ jobs' = ReconcileJobs(batch.levels[1])
  /\ UNCHANGED <<regVars, slots, made, dirty, tears, instVars, drainError,
                 stop, count>>

\* reconcileKey down to its first await.
Missing(k) == {d \in defs[k].needs : ~Ready(slots, d)}

Skip(k) ==     \* the definition went away meanwhile
  /\ jobs[k].stage = "queued" /\ defs[k].version = 0
  /\ jobs' = [jobs EXCEPT ![k] = NoJob]
  /\ UNCHANGED <<regVars, slots, made, dirty, batch, tears, instVars,
                 drainError, stop, count>>

\* ensureSlot: the slot of k, made if there is none.
Ensured(k) ==
  IF slots[k].id > 0 THEN slots[k] ELSE [NoSlot EXCEPT !.id = made.slots + 1]
SlotsMade(k) == IF slots[k].id > 0 THEN made.slots ELSE made.slots + 1

Block(k) ==    \* a dependency is not ready: teardownService, the slot stays
  /\ jobs[k].stage = "queued" /\ defs[k].version > 0 /\ Missing(k) # {}
  /\ slots' = [slots EXCEPT ![k] = [Ensured(k) EXCEPT !.inst = 0,
                                                     !.status = "blocked"]]
  /\ made' = [made EXCEPT !.slots = SlotsMade(k)]
  /\ jobs' = [jobs EXCEPT ![k] =
       IF slots[k].inst > 0
         THEN [NoJob EXCEPT !.stage = "tearing", !.inst = slots[k].inst]
         ELSE NoJob]
  /\ UNCHANGED <<regVars, dirty, batch, tears, instVars, drainError, stop,
                 count>>

Prepare(k) ==  \* an instance, made or given the new prototype, and its cleanup
  LET inst == IF slots[k].inst > 0 THEN slots[k].inst ELSE made.insts + 1 IN
  /\ jobs[k].stage = "queued" /\ defs[k].version > 0 /\ Missing(k) = {}
  /\ slots' = [slots EXCEPT ![k] = [Ensured(k) EXCEPT !.inst = inst,
                                                     !.status = "evaluating"]]
  /\ made' = [slots |-> SlotsMade(k),
              insts |-> IF slots[k].inst > 0 THEN made.insts ELSE inst]
  /\ IF slots[k].inst > 0
       THEN UNCHANGED <<wired, ran>>
       ELSE wired' = Append(wired, NoCtx) /\ ran' = Append(ran, 0)
  /\ jobs' = [jobs EXCEPT ![k] = [stage |-> "recleaning", inst |-> inst,
                                  slot |-> Ensured(k).id, class |-> defs[k]]]
  /\ UNCHANGED <<regVars, dirty, batch, tears, live, drainError, stop, count>>

ReconcileKey(k) == Skip(k) \/ Block(k) \/ Prepare(k)

\* The cleanup of a blocked service returns.
TornDown(k) ==
  /\ jobs[k].stage = "tearing"
  /\ live' = live \ {jobs[k].inst}
  /\ jobs' = [jobs EXCEPT ![k] = NoJob]
  /\ UNCHANGED <<regVars, slots, made, dirty, batch, tears, wired, ran,
                 drainError, stop, count>>

\* The status of the slot object the job holds, if it still is the key's slot.
WithStatus(k, status) ==
  IF slots[k].id = jobs[k].slot
    THEN [slots EXCEPT ![k].status = status] ELSE slots

\* injectCtx: the instance of each dependency, none for an optional one.
Ctx(class) == [d \in Services |-> IF d \in DepsOf(class) /\ Ready(slots, d)
                                    THEN slots[d].inst ELSE 0]

\* The cleanup returned: injectCtx, and evaluate runs its setups.
Evaluate(k) ==
  LET inst == jobs[k].inst  class == jobs[k].class IN
  /\ jobs[k].stage = "recleaning"
  /\ IF \A d \in class.needs : Ready(slots, d)
       THEN /\ wired' = [wired EXCEPT ![inst] = Ctx(class)]
            /\ ran' = [ran EXCEPT ![inst] = class.version]
            /\ live' = live \cup {inst}
            /\ jobs' = [jobs EXCEPT ![k].stage = "evaluating"]
            /\ UNCHANGED slots
       ELSE /\ live' = live \ {inst}
            /\ slots' = WithStatus(k, "failed")
            /\ jobs' = [jobs EXCEPT ![k] = NoJob]
            /\ UNCHANGED <<wired, ran>>
  /\ UNCHANGED <<regVars, made, dirty, batch, tears, drainError, stop, count>>

Evaluated(k) ==
  /\ jobs[k].stage = "evaluating"
  /\ slots' = WithStatus(k, "ready")
  /\ jobs' = [jobs EXCEPT ![k] = NoJob]
  /\ UNCHANGED <<regVars, made, dirty, batch, tears, instVars, drainError,
                 stop, count>>

EvaluateThrows(k) ==
  /\ jobs[k].stage = "evaluating" /\ count.failures < MaxFailures
  /\ slots' = WithStatus(k, "failed")
  /\ jobs' = [jobs EXCEPT ![k] = NoJob]
  /\ count' = [count EXCEPT !.failures = @ + 1]
  /\ UNCHANGED <<regVars, made, dirty, batch, tears, instVars, drainError,
                 stop>>

LevelEvaluated ==
  /\ batch.phase = "evaluating" /\ LevelIdle /\ batch.at < Len(batch.levels)
  /\ batch' = [batch EXCEPT !.at = @ + 1]
  /\ jobs' = ReconcileJobs(batch.levels[batch.at + 1])
  /\ UNCHANGED <<regVars, slots, made, dirty, tears, instVars, drainError,
                 stop, count>>

\* Mutation: `draining' is not cleared.
BatchDone_KeepsDraining ==
  /\ \/ batch.phase = "evaluating" /\ LevelIdle /\ batch.at = Len(batch.levels)
     \/ batch.phase = "empty"
  /\ IF dirty # {} THEN StartBatch(defs, slots, dirty) ELSE UNCHANGED drainVars
  /\ UNCHANGED <<regVars, slots, made, tears, instVars, drainError, stop,
                 count>>

\* The batch is over: the loop goes on while keys are dirty, and `draining'
\* is cleared when it ends.
BatchDone ==
  /\ \/ batch.phase = "evaluating" /\ LevelIdle /\ batch.at = Len(batch.levels)
     \/ batch.phase = "empty"
  /\ IF dirty # {} THEN StartBatch(defs, slots, dirty)
                   ELSE batch' = NoBatch /\ UNCHANGED <<dirty, jobs>>
  /\ UNCHANGED <<regVars, slots, made, tears, instVars, drainError, stop,
                 count>>

\* The batch threw (a cycle): its keys are forgotten, and the finally starts
\* a drain of its own for what became dirty since.
BatchThrew ==
  /\ batch.phase = "thrown"
  /\ drainError' = TRUE
  /\ IF dirty # {} THEN StartBatch(defs, slots, dirty)
                   ELSE batch' = NoBatch /\ UNCHANGED <<dirty, jobs>>
  /\ UNCHANGED <<regVars, slots, made, tears, instVars, stop, count>>

-----------------------------------------------------------------------------
(* register, unregister, reloadAll, shutdown                               *)

MayChange == stop = "no" /\ count.registers + count.reloads < MaxChanges

\* No call of unregister() for the key awaits its cleanup.
Untorn(k) == \A t \in tears : t.key # k

Register(k) ==
  LET version == count.registers + 1 IN
  /\ MayChange /\ (Overlap \/ Untorn(k))
  /\ \E shape \in Shapes[k] :
       LET df == [defs EXCEPT ![k] = [version |-> version,
                                      needs |-> shape[1], likes |-> shape[2]]]
           sl == [slots EXCEPT ![k] = Ensured(k)]
       IN  /\ defs' = df /\ slots' = sl
           /\ ScheduleReconcile(df, sl, {k})
  /\ made' = [made EXCEPT !.slots = SlotsMade(k)]
  /\ prunes' = prunes \cup {<<k, version>>}
  /\ count' = [count EXCEPT !.registers = @ + 1]
  /\ UNCHANGED <<tears, instVars, drainError, stop>>

\* The callback given to hot.prune runs: teardownService down to its await.
\* A callback of an earlier registration finds another token and returns.
Unregister(k, version) ==
  /\ <<k, version>> \in prunes
  /\ stop = "no" /\ count.prunes < MaxPrunes
  /\ Overlap \/ (Untorn(k) /\ jobs[k].stage = "none")
  /\ prunes' = prunes \ {<<k, version>>}
  /\ IF defs[k].version # version
       THEN UNCHANGED <<defs, slots, tears>>
       ELSE /\ defs' = [defs EXCEPT ![k] = NoClass]
            /\ slots' = [slots EXCEPT ![k] =
                 IF @.inst > 0 THEN [@ EXCEPT !.inst = 0, !.status = "blocked"]
                               ELSE NoSlot]
            /\ tears' = tears \cup {[key |-> k, inst |-> slots[k].inst,
                                     of |-> version]}
  /\ count' = [count EXCEPT !.prunes = @ + 1]
  /\ UNCHANGED <<made, drainVars, instVars, drainError, stop>>

\* Mutation: the slot goes without the cleanup of its instance.
Unregistered_NoCleanup(t) ==
  LET sl == IF t.inst > 0 THEN [slots EXCEPT ![t.key] = NoSlot] ELSE slots IN
  /\ t \in tears
  /\ tears' = tears \ {t}
  /\ slots' = sl
  /\ ScheduleReconcile(defs, sl, {t.key})
  /\ UNCHANGED <<regVars, made, instVars, drainError, stop, count>>

\* The cleanup returned: the slot under the key goes, whichever it is now.
Unregistered(t) ==
  LET sl == IF t.inst > 0 THEN [slots EXCEPT ![t.key] = NoSlot] ELSE slots IN
  /\ t \in tears
  /\ tears' = tears \ {t}
  /\ live' = live \ {t.inst}
  /\ slots' = sl
  /\ ScheduleReconcile(defs, sl, {t.key})
  /\ UNCHANGED <<regVars, made, wired, ran, drainError, stop, count>>

ReloadAll ==
  LET keys == {k \in Services : slots[k].id > 0} IN
  /\ MayChange /\ keys # {}
  /\ ScheduleReconcile(defs, slots, keys)
  /\ count' = [count EXCEPT !.reloads = @ + 1]
  /\ UNCHANGED <<regVars, slots, made, tears, instVars, drainError, stop>>

\* shutdown() once the runtime is idle; whenIdle took the drain's error.
Shutdown ==
  /\ stop = "no" /\ ~Draining /\ (Overlap \/ tears = {})
  /\ stop' = "going" /\ drainError' = FALSE
  /\ UNCHANGED <<regVars, slots, made, drainVars, tears, instVars, count>>

\* teardownService of one slot after the other (here in any order), its
\* cleanup awaited before the next.
ShutdownKey(k) ==
  /\ stop = "going" /\ slots[k].id > 0
  /\ live' = live \ {slots[k].inst}
  /\ slots' = [slots EXCEPT ![k] = NoSlot]
  /\ UNCHANGED <<regVars, made, drainVars, tears, wired, ran, drainError,
                 stop, count>>

ShutdownEnds ==
  /\ stop = "going" /\ \A k \in Services : slots[k].id = 0
  /\ defs' = [k \in Services |-> NoClass]
  /\ dirty' = {}
  /\ stop' = "over"
  /\ UNCHANGED <<prunes, slots, made, batch, jobs, tears, instVars,
                 drainError, count>>

-----------------------------------------------------------------------------
\* reconcileKey is called for all the keys of a level before anything else.
Yielded == \A k \in Services : jobs[k].stage # "queued"

Works(k) == Cleaned(k) \/ TornDown(k) \/ Evaluate(k) \/ Evaluated(k)
Loop == LevelCleaned \/ LevelEvaluated \/ BatchDone \/ BatchThrew
Stopping == (\E k \in Services : ShutdownKey(k)) \/ ShutdownEnds

\* What the runtime does by itself, the services' code ending included.
Proceed ==
  \/ \E k \in Services : ReconcileKey(k)
  \/ /\ Yielded
     /\ \/ \E k \in Services : Works(k)
        \/ Loop
        \/ \E t \in tears : Unregistered(t)
        \/ Stopping

\* What the program, the user or a failing service does to it.
Disturb ==
  /\ Yielded
  /\ \/ \E k \in Services : EvaluateThrows(k) \/ Register(k)
     \/ \E p \in prunes : Unregister(p[1], p[2])
     \/ ReloadAll
     \/ Shutdown

Next == Proceed \/ Disturb
Spec == Init /\ [][Next]_vars

(* The event loop runs what is due, and the services' cleanups and          *)
(* evaluations end: the runtime awaits them without a timeout.              *)
Fairness == WF_vars(Proceed)
FairSpec == Spec /\ Fairness

-----------------------------------------------------------------------------
(* Properties                                                              *)

Stages == {"none", "cleaning", "queued", "tearing", "recleaning", "evaluating"}
Phases == {"none", "empty", "thrown", "settled", "cleaning", "evaluating"}
Class == [version : Nat, needs : SUBSET Services, likes : SUBSET Services]
Slot == [id : Nat, inst : Nat,
         status : {"blocked", "evaluating", "ready", "failed"}]
Job == [stage : Stages, inst : Nat, slot : Nat, class : Class]

\* The types of the runtime's maps and of its loop.
TypeOK ==
  /\ defs \in [Services -> Class]
  /\ prunes \subseteq Services \X Nat
  /\ slots \in [Services -> Slot]
  /\ made \in [slots : Nat, insts : Nat]
  /\ dirty \subseteq Services
  /\ batch \in [phase : Phases, levels : Seq(SUBSET Services), at : Nat]
  /\ jobs \in [Services -> Job]
  /\ tears \subseteq [key : Services, inst : Nat, of : Nat]
  /\ live \subseteq Nat
  /\ wired \in Seq([Services -> Nat]) /\ Len(wired) = made.insts
  /\ ran \in Seq(Nat) /\ Len(ran) = made.insts
  /\ drainError \in BOOLEAN /\ stop \in {"no", "going", "over"}
  /\ count \in [registers : Nat, reloads : Nat, prunes : Nat, failures : Nat]

\* `draining' never holds a promise that is already settled, on which every
\* whenIdle() would spin and every later change would wait in vain; and when
\* no drain runs, nothing is dirty and no key is being worked on.
DrainEnds == /\ batch.phase # "settled"
             /\ ~Draining => dirty = {} /\ LevelIdle

Idle == ~Draining /\ tears = {} /\ stop = "no"

\* When the runtime is idle and no batch was lost to a cycle, exactly the
\* services whose needs are ready were evaluated, and the others are blocked
\* without an instance.
SettledRight ==
  Idle /\ ~drainError => \A k \in Defined(defs) :
    IF Missing(k) = {} THEN slots[k].status \in {"ready", "failed"}
                       ELSE slots[k].status = "blocked" /\ slots[k].inst = 0

\* ... and each ready service was evaluated last with the class registered
\* last, and holds in its ctx the very instances that are ready now: none that
\* was replaced, and every optional one there is.
UpToDate ==
  Idle /\ ~drainError => \A k \in Defined(defs) : Ready(slots, k) =>
    /\ ran[slots[k].inst] = defs[k].version
    /\ wired[slots[k].inst] = Ctx(defs[k])

\* Whatever was registered, replaced, pruned or thrown while batches awaited
\* their services, an idle runtime has nothing left to do and is as its newest
\* classes say.
IdleIsSettled == DrainEnds /\ SettledRight /\ UpToDate

\* When a prune does not meet work on its own key, no setup outlives its instance:
\* at rest every setup in force belongs to the instance of some slot, and none
\* is left after a shutdown.
NoOrphans ==
  ~Overlap =>
    /\ Idle => live \subseteq {slots[k].inst : k \in Services}
    /\ stop = "over" => live = {}

\* A hot reload cleans up a service only after every service that was given
\* its instance, and is still registered as it was then.
DependentsCleanedFirst ==
  [][\A k \in Services :
       jobs[k].stage = "cleaning" /\ jobs'[k].stage = "none" =>
         \A d \in Services :
           LET inst == slots[d].inst IN
           inst \in live' /\ ran[inst] = defs[d].version
             => wired[inst][k] # jobs[k].inst]_vars

\* A drain ends, and with it whenIdle(), as long as services' code does.
WhenIdleReturns == Draining ~> ~Draining
=============================================================================
