---------------------------- MODULE AgentService ----------------------------
(***************************************************************************)
(* The agent service of the main process,                                  *)
(* packages/init/src/main/services/agent.ts: the table of running agents,  *)
(* the calls that use it, and what becomes of the agents when the service  *)
(* is hot reloaded, loses a dependency or is shut down.                    *)
(*                                                                         *)
(* Of an Agent (packages/agent/src/agent.ts) the state its send(), its     *)
(* initialisation and its close() go by is kept here, with its queue, its  *)
(* latch and whether its process runs (AgentSession has the rest); of the  *)
(* ServiceRuntime the order in which it treats this service: its cleanup,  *)
(* and then either evaluate() of the same instance or, when a dependency   *)
(* is not ready, the loss of the instance and a new one later.  A step is  *)
(* the code between two awaits.                                            *)
(*                                                                         *)
(* Left out: changes of an agent's directory or command (restarts of       *)
(* AgentSession), titles, images, and the appends to the event log.        *)
(***************************************************************************)
EXTENDS Naturals, Sequences, FiniteSets

CONSTANTS
  Agents,      \* the agents' records
  Sends,       \* the calls of send()
  Reloads,     \* the calls of reload()
  Target,      \* Target[f]: the agent a call is for
  Overlap,     \* may two parties be changing the table entry of one agent?
  MaxCalls,    \* bound: how many of those calls are made
  MaxHots,     \* bound: hot reloads
  MaxFailures, \* bound: processes that cannot be started, and requests that
               \* a running one rejects
  MaxLates     \* bound: what comes in after its process was killed

\* The auto-continue of an agent after a hot reload is a fiber too.
Continues == Agents \X (1 .. MaxHots)
Fibers == Sends \cup Reloads \cup Continues
Instances == 1 .. MaxHots + 1
Of(f) == IF f \in Continues THEN f[1] ELSE Target[f]

ASSUME ServiceAssumption ==
  /\ IsFiniteSet(Agents)
  /\ Target \in [Sends \cup Reloads -> Agents] /\ Sends \cap Reloads = {}
  /\ (Sends \cup Reloads) \cap Continues = {}
  /\ Overlap \in BOOLEAN /\ MaxCalls \in Nat /\ MaxHots \in Nat
  /\ MaxFailures \in Nat /\ MaxLates \in Nat

VARIABLES
  instance,   \* which instance of the service there is
  phase,      \* "up", "cleaning", "down", "blocked", "stopping" or "over"
  processes,  \* each instance's table: the agent object, 0 if there is none
  pendingContinues,
  todo,       \* the entries the cleanup has still to close
  closing,    \* the entry whose close() it awaits
  objects,    \* the Agent objects made: whose, their state, does the process
              \* run, the queue, how far _initSession is, and, history: was it
              \* made after the shutdown had begun?
  reloadMode, \* the mode in each agent's record
  pc,         \* where each fiber stands
  held,       \* the object a fiber goes on with, and its instance
  outcome,    \* how each auto-continue ended
  cut,        \* history: <<agent, hot reload>> that a cleanup closed while
              \* its state was "prompting"
  count       \* hot reloads, failures and late answers so far

svcVars == <<instance, phase, processes, pendingContinues>>
cleanVars == <<todo, closing, cut>>
vars == <<svcVars, cleanVars, objects, reloadMode, pc, held, outcome, count>>

Init ==
  /\ instance = 1 /\ phase = "up"
  /\ processes = [i \in Instances |-> [a \in Agents |-> 0]]
  /\ pendingContinues = {}
  /\ todo = {} /\ closing = {} /\ cut = {}
  /\ objects = <<>>
  /\ reloadMode = [a \in Agents |-> "keep-alive"]
  /\ pc = [f \in Fibers |-> "idle"]
  /\ held = [f \in Fibers |-> [obj |-> 0, inst |-> 1]]
  /\ outcome = [c \in Continues |-> "none"]
  /\ count = [hots |-> 0, failures |-> 0, lates |-> 0]

Table(f) == processes[held[f].inst]
Live(o) == objects[o].alive
Entries(i) == {<<a, processes[i][a]>> : a \in {b \in Agents : processes[i][b] > 0}}

\* Somebody is about to write the table entry of a.
Busy(a) == \/ \E f \in Fibers : Of(f) = a /\ pc[f] \in {"creating", "closing"}
           \/ \E e \in todo \cup closing : e[1] = a

Goes(f, where) == pc' = [pc EXCEPT ![f] = where]
Ends(f, how) == /\ pc' = [pc EXCEPT ![f] = "done"]
                /\ outcome' = [c \in Continues |->
                                 IF c = f THEN how ELSE outcome[c]]

-----------------------------------------------------------------------------
(* ensureProcess: the table is looked up before Agent.create is awaited,   *)
(* and written after.                                                      *)

EnsureProcess(f) ==
  /\ pc[f] = "ensuring"
  /\ \/ /\ Table(f)[Of(f)] > 0
        /\ held' = [held EXCEPT ![f].obj = Table(f)[Of(f)]]
        /\ Goes(f, "ensured")
     \/ /\ Table(f)[Of(f)] = 0 /\ (Overlap \/ ~Busy(Of(f)))
        /\ Goes(f, "creating")
        /\ UNCHANGED held
  /\ UNCHANGED <<svcVars, cleanVars, objects, reloadMode, outcome, count>>

Created(f) ==
  LET o == Len(objects) + 1 IN
  /\ pc[f] = "creating"
  /\ objects' = Append(objects, [of |-> Of(f), kind |-> "initializing",
                                 alive |-> TRUE, queue |-> 0, init |-> "starting",
                                 late |-> phase \in {"stopping", "over"}])
  /\ processes' = [processes EXCEPT ![held[f].inst][Of(f)] = o]
  /\ held' = [held EXCEPT ![f].obj = o]
  /\ Goes(f, "ensured")
  /\ UNCHANGED <<instance, phase, pendingContinues, cleanVars, reloadMode,
                 outcome, count>>

CreateFails(f) ==
  /\ pc[f] = "creating" /\ count.failures < MaxFailures
  /\ count' = [count EXCEPT !.failures = @ + 1]
  /\ Ends(f, "threw")
  /\ UNCHANGED <<svcVars, cleanVars, objects, reloadMode, held>>

-----------------------------------------------------------------------------
(* send() and the auto-continue                                            *)

Modes == {"continue", "keep-alive"}
Serving == phase \in {"up", "cleaning", "down"}
Called == {f \in Sends \cup Reloads : pc[f] # "idle"}
Callable == Serving /\ Cardinality(Called) < MaxCalls

Send(s) ==
  /\ pc[s] = "idle" /\ Callable
  /\ Goes(s, "ensuring")
  /\ held' = [held EXCEPT ![s].inst = instance]
  /\ UNCHANGED <<svcVars, cleanVars, objects, reloadMode, outcome, count>>

Becomes(o, x) == objects' = [objects EXCEPT ![o] = x]
SetKind(o, k) == Becomes(o, [objects[o] EXCEPT !.kind = k])
Close(o) == Becomes(o, [objects[o] EXCEPT !.kind = "closed", !.alive = FALSE])
TakeQueue(o) == Becomes(o, [objects[o] EXCEPT !.kind = "prompting", !.queue = 0])
Flushable(o) == objects[o].kind = "ready" /\ objects[o].queue > 0

\* agent.send: refused, latched, queued, or a turn of its own.
AgentSend(f) ==
  LET o == held[f].obj IN
  /\ f \notin Reloads /\ pc[f] = "ensured"
  /\ \/ /\ objects[o].kind \in {"closed", "error"} /\ Ends(f, "threw")
        /\ UNCHANGED objects
     \/ /\ objects[o].kind = "initializing" /\ Goes(f, "latched")
        /\ UNCHANGED <<objects, outcome>>
     \/ /\ objects[o].kind = "prompting" /\ Ends(f, "queued")
        /\ Becomes(o, [objects[o] EXCEPT !.queue = @ + 1])
     \/ /\ objects[o].kind = "ready" /\ Goes(f, "turn")
        /\ SetKind(o, "prompting")
        /\ UNCHANGED outcome
  /\ UNCHANGED <<svcVars, cleanVars, reloadMode, held, count>>

\* The latch: the first to find the agent ready prompts, and does not flush
\* the queue after it; the others return.  close() resolves it too.
LatchOver(f) ==
  LET o == held[f].obj IN
  /\ pc[f] = "latched" /\ (objects[o].init = "over" \/ ~Live(o))
  /\ \/ /\ objects[o].kind \in {"closed", "error"} /\ Ends(f, "threw")
        /\ UNCHANGED objects
     \/ /\ objects[o].kind = "prompting" /\ Ends(f, "dropped")
        /\ UNCHANGED objects
     \/ /\ objects[o].kind = "ready" /\ Goes(f, "lastTurn")
        /\ SetKind(o, "prompting")
        /\ UNCHANGED outcome
  /\ UNCHANGED <<svcVars, cleanVars, reloadMode, held, count>>

\* What a process answers, or rejects.  Something of one that was killed may
\* still come in, a rejection among it, or nothing ever.
Late == /\ count.lates < MaxLates
        /\ count' = [count EXCEPT !.lates = @ + 1]
Answers(o) ==
  \/ Live(o) /\ UNCHANGED count
  \/ ~Live(o) /\ Late
Rejects(o) ==
  \/ /\ Live(o) /\ count.failures < MaxFailures
     /\ count' = [count EXCEPT !.failures = @ + 1]
  \/ ~Live(o) /\ Late

\* The prompt is answered: the agent is ready, closed or not, and a turn that
\* found it ready is to flush the queue once.
InTurn(f) == pc[f] \in {"turn", "lastTurn"}

TurnEnds(f) ==
  /\ InTurn(f) /\ Answers(held[f].obj)
  /\ SetKind(held[f].obj, "ready")
  /\ IF pc[f] = "turn" THEN Goes(f, "ended") /\ UNCHANGED outcome
                      ELSE Ends(f, "sent")
  /\ UNCHANGED <<svcVars, cleanVars, reloadMode, held>>

\* It is rejected: send() throws, and the state stays as it is.
TurnFails(f) ==
  /\ InTurn(f) /\ Rejects(held[f].obj)
  /\ Ends(f, "threw")
  /\ UNCHANGED <<svcVars, cleanVars, objects, reloadMode, held>>

FlushQueue(f) ==
  LET o == held[f].obj IN
  /\ pc[f] = "ended"
  /\ \/ /\ Flushable(o) /\ TakeQueue(o)
        /\ Goes(f, "lastTurn") /\ UNCHANGED outcome
     \/ ~Flushable(o) /\ Ends(f, "sent") /\ UNCHANGED objects
  /\ UNCHANGED <<svcVars, cleanVars, reloadMode, held, count>>

-----------------------------------------------------------------------------
(* _initSession, which create() does not wait for                          *)

InitMoves(o, from, to, kind) ==
  /\ objects[o].init = from
  /\ Becomes(o, [objects[o] EXCEPT !.init = to, !.kind = kind])
  /\ UNCHANGED <<svcVars, cleanVars, reloadMode, pc, held, outcome>>

\* The process has opened a session and its id is stored: the agent is ready,
\* whether it was closed meanwhile or not.
Initialized(o) == InitMoves(o, "starting", "readied", "ready") /\ Answers(o)

\* What was queued behind a turn that came in between is flushed.
InitFlushes(o) ==
  /\ objects[o].init = "readied" /\ Flushable(o)
  /\ Becomes(o, [objects[o] EXCEPT !.init = "turn", !.kind = "prompting",
                                   !.queue = 0])
  /\ UNCHANGED <<svcVars, cleanVars, reloadMode, pc, held, outcome, count>>

\* It is over, which resolves the latch: nothing was queued, that turn has
\* ended, or a request was rejected.
InitOver(o) ==
  \/ /\ ~Flushable(o) /\ UNCHANGED count
     /\ InitMoves(o, "readied", "over", objects[o].kind)
  \/ InitMoves(o, "turn", "over", "ready") /\ Answers(o)

InitFails(o) ==
  /\ \E from \in {"starting", "turn"} :
       InitMoves(o, from, "over",
                 IF objects[o].kind = "closed" THEN "closed" ELSE "error")
  /\ Rejects(o)

InitStep(o) == Initialized(o) \/ InitFlushes(o) \/ InitOver(o)

-----------------------------------------------------------------------------
(* reload(): close, forget, and start again                                *)

Reload(r) ==
  LET o == processes[instance][Target[r]] IN
  /\ pc[r] = "idle" /\ Callable /\ (Overlap \/ ~Busy(Target[r]))
  /\ held' = [held EXCEPT ![r].inst = instance]
  /\ IF o > 0 THEN Close(o) /\ Goes(r, "closing")
              ELSE Goes(r, "ensuring") /\ UNCHANGED objects
  /\ UNCHANGED <<svcVars, cleanVars, reloadMode, outcome, count>>

ReloadClosed(r) ==
  /\ pc[r] = "closing"
  /\ processes' = [processes EXCEPT ![held[r].inst][Of(r)] = 0]
  /\ Goes(r, "ensuring")
  /\ UNCHANGED <<instance, phase, pendingContinues, cleanVars, objects,
                 reloadMode, held, outcome, count>>

ReloadEnds(r) ==
  /\ r \in Reloads /\ pc[r] = "ensured"
  /\ Ends(r, "sent")
  /\ UNCHANGED <<svcVars, cleanVars, objects, reloadMode, held, count>>

\* (A mode set after the last hot reload there is would be read by none.)
SetReloadMode(a, mode) ==
  /\ Serving /\ count.hots < MaxHots
  /\ reloadMode' = [reloadMode EXCEPT ![a] = mode]
  /\ UNCHANGED <<svcVars, cleanVars, objects, pc, held, outcome, count>>

-----------------------------------------------------------------------------
(* The cleanup "agent-cleanup" and evaluate(), as the runtime calls them.  *)

AtEase == \A a \in Agents : ~Busy(a)

\* Mutation: every table entry goes with a hot reload, kept alive or not.
HotReload_EmptiesTable ==
  /\ phase = "up" /\ count.hots < MaxHots /\ (Overlap \/ AtEase)
  /\ phase' = "cleaning"
  /\ todo' = {e \in Entries(instance) : reloadMode[e[1]] = "continue"}
  /\ processes' = [processes EXCEPT ![instance] = [a \in Agents |-> 0]]
  /\ count' = [count EXCEPT !.hots = @ + 1]
  /\ UNCHANGED <<instance, pendingContinues, closing, cut, objects,
                 reloadMode, pc, held, outcome>>

\* For "reload": the records are read once, agents to keep alive are skipped.
HotReload ==
  /\ phase = "up" /\ count.hots < MaxHots /\ (Overlap \/ AtEase)
  /\ phase' = "cleaning"
  /\ todo' = {e \in Entries(instance) : reloadMode[e[1]] = "continue"}
  /\ count' = [count EXCEPT !.hots = @ + 1]
  /\ UNCHANGED <<instance, processes, pendingContinues, closing, cut, objects,
                 reloadMode, pc, held, outcome>>

\* Mutation: the state is looked at only when the process has been closed.
CloseNext_LooksTooLate ==
  /\ phase = "cleaning" /\ closing = {}
  /\ \E e \in todo :
       /\ todo' = todo \ {e} /\ closing' = {e}
       /\ cut' = IF objects[e[2]].kind = "prompting"
                   THEN cut \cup {<<e[1], count.hots>>} ELSE cut
       /\ Close(e[2])
  /\ UNCHANGED <<instance, phase, pendingContinues, processes, reloadMode, pc,
                 held, outcome, count>>

\* One entry: marked if it was prompting, and closed.
CloseNext ==
  /\ phase = "cleaning" /\ closing = {}
  /\ \E e \in todo :
       /\ todo' = todo \ {e} /\ closing' = {e}
       /\ LET prompting == objects[e[2]].kind = "prompting" IN
          /\ pendingContinues' =
               IF prompting THEN pendingContinues \cup {e[1]}
                            ELSE pendingContinues
          /\ cut' = IF prompting THEN cut \cup {<<e[1], count.hots>>} ELSE cut
       /\ Close(e[2])
  /\ UNCHANGED <<instance, phase, processes, reloadMode, pc, held, outcome,
                 count>>

\* close() returned: the entry goes, whichever object it holds by now.
EntryClosed ==
  /\ phase = "cleaning"
  /\ \E e \in closing :
       processes' = [processes EXCEPT ![instance][e[1]] = 0]
  /\ closing' = {}
  /\ UNCHANGED <<instance, phase, pendingContinues, todo, cut, objects,
                 reloadMode, pc, held, outcome, count>>

CleanupEnds ==
  /\ phase = "cleaning" /\ todo = {} /\ closing = {}
  /\ phase' = "down"
  /\ UNCHANGED <<instance, processes, pendingContinues, cleanVars, objects,
                 reloadMode, pc, held, outcome, count>>

\* Mutation: the marks are cleared before they are read.
Evaluate_ClearsFirst ==
  /\ phase \in {"down", "blocked"}
  /\ phase' = "up"
  /\ pendingContinues' = {}
  /\ UNCHANGED <<instance, processes, cleanVars, objects, reloadMode, pc, held,
                 outcome, count>>

\* evaluate(): every marked agent is sent "continue".
Evaluate ==
  /\ phase \in {"down", "blocked"}
  /\ phase' = "up"
  /\ pc' = [f \in Fibers |->
       IF f \in pendingContinues \X {count.hots} THEN "ensuring" ELSE pc[f]]
  /\ held' = [f \in Fibers |->
       IF f \in pendingContinues \X {count.hots}
         THEN [held[f] EXCEPT !.inst = instance] ELSE held[f]]
  /\ pendingContinues' = {}
  /\ UNCHANGED <<instance, processes, cleanVars, objects, reloadMode, outcome,
                 count>>

\* A dependency is not ready: the instance goes, its table and marks with it.
\* Its setups were cleaned up already, so nothing else is closed.
Block ==
  /\ phase = "down"
  /\ phase' = "blocked"
  /\ instance' = instance + 1
  /\ pendingContinues' = {}
  /\ UNCHANGED <<processes, cleanVars, objects, reloadMode, pc, held, outcome,
                 count>>

\* For "shutdown": all agents are closed, one after the other.
Shutdown ==
  /\ phase = "up"
  /\ phase' = "stopping"
  /\ UNCHANGED <<instance, processes, pendingContinues, cleanVars, objects,
                 reloadMode, pc, held, outcome, count>>

\* The iteration goes over the table as it is, and meets entries made since
\* (the second of two creations for one agent, with Overlap, it may miss).
StopNext ==
  /\ phase = "stopping"
  /\ \E e \in Entries(instance) : Live(e[2]) /\ Close(e[2])
  /\ UNCHANGED <<svcVars, cleanVars, reloadMode, pc, held, outcome, count>>

Stopped ==
  /\ phase = "stopping" /\ \A e \in Entries(instance) : ~Live(e[2])
  /\ phase' = "over"
  /\ processes' = [processes EXCEPT ![instance] = [a \in Agents |-> 0]]
  /\ UNCHANGED <<instance, pendingContinues, cleanVars, objects, reloadMode,
                 pc, held, outcome, count>>

-----------------------------------------------------------------------------
Call(f) == EnsureProcess(f) \/ Created(f) \/ AgentSend(f) \/ LatchOver(f)
             \/ FlushQueue(f) \/ ReloadClosed(f) \/ ReloadEnds(f)
Cleanup == CloseNext \/ EntryClosed \/ CleanupEnds \/ StopNext \/ Stopped

Next ==
  \/ \E f \in Fibers : Call(f) \/ TurnEnds(f) \/ CreateFails(f) \/ TurnFails(f)
  \/ \E o \in DOMAIN objects : InitStep(o) \/ InitFails(o)
  \/ \E s \in Sends : Send(s)
  \/ \E r \in Reloads : Reload(r)
  \/ \E a \in Agents : \E mode \in Modes : SetReloadMode(a, mode)
  \/ HotReload \/ Cleanup \/ Evaluate \/ Block \/ Shutdown

Spec == Init /\ [][Next]_vars

(* The event loop runs what is due, a process that runs answers, and the    *)
(* runtime evaluates a service it has cleaned up.  A killed process owes    *)
(* no answer: close() of the client only kills it.                          *)
Fairness ==
  /\ \A f \in Fibers : WF_vars(Call(f))
  /\ \A f \in Fibers : WF_vars(TurnEnds(f) /\ Live(held[f].obj))
  /\ WF_vars(\E o \in DOMAIN objects : Live(o) /\ InitStep(o))
  /\ WF_vars(Cleanup) /\ WF_vars(Evaluate)
FairSpec == Spec /\ Fairness

-----------------------------------------------------------------------------
(* Properties                                                              *)

Outcomes == {"none", "threw", "queued", "dropped", "sent"}
Points == {"idle", "ensuring", "creating", "ensured", "latched", "turn",
           "ended", "lastTurn", "closing", "done"}
Kinds == {"initializing", "ready", "prompting", "error", "closed"}
Stages == {"starting", "readied", "turn", "over"}
Objects == [of : Agents, kind : Kinds, alive : BOOLEAN, queue : Nat,
            init : Stages, late : BOOLEAN]

Counts == [hots : 0 .. MaxHots, failures : 0 .. MaxFailures, lates : 0 .. MaxLates]

\* The types of the service's fields and of the calls.
TypeOK ==
  /\ instance \in Instances
  /\ phase \in {"up", "cleaning", "down", "blocked", "stopping", "over"}
  /\ processes \in [Instances -> [Agents -> 0 .. Len(objects)]]
  /\ pendingContinues \subseteq Agents
  /\ todo \subseteq Agents \X (1 .. Len(objects))
  /\ closing \subseteq Agents \X (1 .. Len(objects))
  /\ cut \subseteq Continues
  /\ objects \in Seq(Objects)
  /\ reloadMode \in [Agents -> Modes]
  /\ pc \in [Fibers -> Points]
  /\ held \in [Fibers -> [obj : 0 .. Len(objects), inst : 1 .. instance]]
  /\ outcome \in [Continues -> Outcomes]
  /\ count \in Counts

\* While the instance of the service lasts, and no two parties change one
\* agent's entry at a time: an agent has at most one live process, and every
\* live process can be found by its agent.  A hot reload that meets sends on
\* their way, turns and auto-continues leaves none behind.
OneProcess ==
  ~Overlap /\ instance = 1 =>
    \A o \in DOMAIN objects :
      Live(o) => processes[1][objects[o].of] = o

\* When the service has shut down, every process made before the shutdown
\* began is closed, those a call had just replaced included.  (A send or a
\* reload that was waiting for its process can still bring one up.)
NoneAfterShutdown ==
  ~Overlap /\ instance = 1 /\ phase = "over" =>
    \A o \in DOMAIN objects : Live(o) => objects[o].late

\* No live process is out of the service's reach.
NoStrayProcess == OneProcess /\ NoneAfterShutdown

\* A turn that a hot reload cut off is marked until evaluate() continues it.
\* What counts as a turn is what the service goes by, the state "prompting":
\* an agent stays in it when a prompt is rejected, and is continued then too.
CutTurnsMarked ==
  instance = 1 => \A c \in cut :
    \/ c[1] \in pendingContinues
    \/ pc[c] # "idle"

\* Only a turn that was cut off is continued, and once for each hot reload.
OnlyCutTurnsContinue == \A c \in Continues : pc[c] # "idle" => c \in cut

\* Exactly the turns that were cut off are to be continued.
CutTurnsKept == CutTurnsMarked /\ OnlyCutTurnsContinue

\* The process a call's prompt went to was killed: it may never answer.
Killed(f) == InTurn(f) /\ ~Live(held[f].obj)

\* Another call has the same agent object.
Beside(f) == \E g \in Fibers \ {f} : held[g].obj = held[f].obj

\* A turn that was cut off goes on: "continue" reaches the agent's new process
\* and its turn ends.  Beside another call it may be queued behind that call's
\* turn (a queue that is flushed once, after a turn that did not come through
\* the latch, so that it may stay there) or be dropped at the latch.  It
\* throws only if a process could not be started, rejected a request or was
\* killed again; and it is given up if the service lost its instance or was
\* shut down.
CutTurnsContinue ==
  ~Overlap => \A c \in Continues :
    c \in cut ~> \/ outcome[c] = "sent"
                 \/ outcome[c] \in {"queued", "dropped"} /\ Beside(c)
                 \/ outcome[c] = "threw" /\ (count.failures > 0 \/ ~Live(held[c].obj))
                 \/ Killed(c)
                 \/ instance > 1 \/ phase \in {"stopping", "over"}

\* A send() returns or throws, unless its prompt went to a process that was
\* killed.
SendsReturn ==
  ~Overlap => \A s \in Sends : pc[s] = "ensuring" ~> pc[s] = "done" \/ Killed(s)

\* Nothing that was begun or cut off is left hanging.
WorkGoesOn == CutTurnsContinue /\ SendsReturn
=============================================================================
