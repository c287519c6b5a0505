---------------------------- MODULE AgentSession ----------------------------
(***************************************************************************)
(* One agent of packages/agent/src/agent.ts: the state machine between     *)
(* the callers of send() and the ACP process it drives.                    *)
(*                                                                         *)
(* Every async function is a fiber with a program counter; a step of the   *)
(* model is the code between two awaits.  A fiber is a call of send(), the *)
(* session initialisation of one process, a call of _restart() or the call *)
(* of close().  The processes are numbered in the order they are spawned,  *)
(* and the session a process opens or resumes goes by its number: the two  *)
(* ids are told apart only to see whether a prompt meets the process its   *)
(* session lives in.  `await this.client.close()' has nothing to wait for  *)
(* (client.ts kills the process and returns), so it is taken as no await.  *)
(*                                                                         *)
(* Left out: what the content of a prompt is prefixed with other than the  *)
(* one-shot preamble (initial context, handoff), the reconciliation of the *)
(* process's options with the database, and interrupt() and                *)
(* setSessionConfigOption(), which change nothing kept here.               *)
(***************************************************************************)
EXTENDS Naturals, Sequences, FiniteSets

CONSTANTS
  Sends,     \* the calls of send(), each with its own content
  Restarts,  \* the calls of changeCwd() / changeStartCommand()
  Closer,    \* the call of close()
  Overlap,   \* may a restart or a close begin while a fiber is between awaits?
  Late,      \* may a killed process still answer a call it had received?
  MaxFails   \* bound: rejected calls and failed spawns of live processes

ASSUME SessionAssumption ==
  /\ Overlap \in BOOLEAN /\ Late \in BOOLEAN /\ MaxFails \in Nat
  /\ IsFiniteSet(Restarts)
  /\ Closer \notin Restarts
  /\ Sends \cap (Restarts \cup {Closer}) = {}
  /\ (Sends \cup Restarts \cup {Closer}) \cap Nat = {}

Procs == 0 .. Cardinality(Restarts)   \* the processes there can ever be
Fibers == Sends \cup Procs            \* the fibers that can run a turn
Kinds == {"initializing", "ready", "prompting", "error", "closed"}
Outcomes == {"none", "sent", "queued", "dropped", "threw"}

VARIABLES
  kind, session,    \* this.state: its kind, and the session it carries
  latch, resolved,  \* this.initLatch by number, and the latches resolved
  queue,            \* this.queue, one entry per prompt
  client, alive,    \* this.client's process, and the processes that live
  spawned,          \* how many processes there have been
  subscribed,       \* this._unsubEventLog is set: responses are listened for
  pc,               \* where each fiber stands
  turn,             \* what a fiber running _sendPrompt carries
  waits,            \* the latch a latched send awaits
  outcome,          \* how each send() ended
  preambleFired,    \* firstPromptSentAt is set
  pending,          \* the processes with a permission request unanswered
  delivered,        \* history: the prompts handed to processes, in order
  fails             \* how many failures of live processes there were

stateVars == <<kind, session>>
latchVars == <<latch, resolved>>
procVars == <<client, alive, spawned, subscribed>>
vars == <<stateVars, latchVars, queue, procVars, pc, turn, waits, outcome,
          preambleFired, pending, delivered, fails>>

NoTurn == [prompts |-> <<>>, session |-> 0, to |-> 0, heard |-> FALSE,
           preamble |-> FALSE, flush |-> FALSE]

Init ==
  /\ kind = "initializing" /\ session = 0
  /\ latch = 0 /\ resolved = {}
  /\ queue = <<>>
  /\ client = 0 /\ alive = {0} /\ spawned = 1 /\ subscribed = TRUE
  /\ pc = [f \in Fibers \cup Restarts \cup {Closer} |->
             IF f = 0 THEN "handshaking" ELSE "idle"]
  /\ turn = [f \in Fibers |-> NoTurn]
  /\ waits = [s \in Sends |-> 0]
  /\ outcome = [s \in Sends |-> "none"]
  /\ preambleFired = FALSE
  /\ pending = {}
  /\ delivered = <<>>
  /\ fails = 0

-----------------------------------------------------------------------------
(* _sendPrompt: prompting, then the preamble once, then the turn.          *)

\* The head of _sendPrompt: the state is set, and the database told (await).
SendPrompt(f, prompts, sess, flush) ==
  /\ kind' = "prompting" /\ session' = sess
  /\ turn' = [turn EXCEPT ![f] = [NoTurn EXCEPT !.prompts = prompts,
                                                !.session = sess,
                                                !.flush = flush]]

\* _computePreamble finds the first prompt not yet sent and asks the provider.
AskPreamble(f) ==
  /\ pc[f] = "preparing" /\ ~preambleFired
  /\ pc' = [pc EXCEPT ![f] = "composing"]
  /\ UNCHANGED <<stateVars, latchVars, queue, procVars, turn, waits, outcome,
                 preambleFired, pending, delivered, fails>>

\* The provider answered or threw; either way the prompt counts as fired.
MarkPreamble(f) ==
  /\ pc[f] = "composing"
  /\ pc' = [pc EXCEPT ![f] = "composed"]
  /\ preambleFired' = TRUE
  /\ \E blocks \in BOOLEAN : turn' = [turn EXCEPT ![f].preamble = blocks]
  /\ UNCHANGED <<stateVars, latchVars, queue, procVars, waits, outcome,
                 pending, delivered, fails>>

\* client.prompt on whatever process this.client is by now.
HandOver(f) ==
  /\ \/ pc[f] = "preparing" /\ preambleFired
     \/ pc[f] = "composed"
  /\ pc' = [pc EXCEPT ![f] = "turn"]
  /\ turn' = [turn EXCEPT ![f].to = client, ![f].heard = client \in alive]
  /\ delivered' = Append(delivered,
                         [prompts |-> turn[f].prompts, to |-> client,
                          session |-> turn[f].session,
                          preamble |-> turn[f].preamble])
  /\ UNCHANGED <<stateVars, latchVars, queue, procVars, waits, outcome,
                 preambleFired, pending, fails>>

\* May process p, which got a call, still answer it?
MayAnswer(p) == p \in alive \/ Late

\* The turn ends: ready again, with the session the turn was started with.
TurnEnds(f) ==
  /\ pc[f] = "turn" /\ turn[f].heard
  /\ MayAnswer(turn[f].to) /\ turn[f].to \notin pending
  /\ pc' = [pc EXCEPT ![f] = "ended"]
  /\ kind' = "ready" /\ session' = turn[f].session
  /\ UNCHANGED <<latchVars, queue, procVars, turn, waits, outcome,
                 preambleFired, pending, delivered, fails>>

\* client.prompt rejects: nothing is set, the state stays what it was.
TurnFails(f) ==
  /\ pc[f] = "turn"
  /\ \/ turn[f].to \in alive /\ fails < MaxFails /\ fails' = fails + 1
     \/ turn[f].to \notin alive /\ UNCHANGED fails
  /\ IF f \in Sends
       THEN /\ pc' = [pc EXCEPT ![f] = "done"]
            /\ outcome' = [outcome EXCEPT ![f] = "threw"]
       ELSE /\ pc' = [pc EXCEPT ![f] = "failing"]
            /\ UNCHANGED outcome
  /\ UNCHANGED <<stateVars, latchVars, queue, procVars, turn, waits,
                 preambleFired, pending, delivered>>

\* Mutation: the queue is not emptied.
FlushQueue_KeepsQueue(f) ==
  /\ queue # <<>> /\ kind = "ready"
  /\ UNCHANGED queue
  /\ SendPrompt(f, queue, session, FALSE)
  /\ pc' = [pc EXCEPT ![f] = "preparing"]

\* _flushQueue: what was queued is one turn more, if the agent is ready.
FlushQueue(f) ==
  /\ queue # <<>> /\ kind = "ready"
  /\ queue' = <<>>
  /\ SendPrompt(f, queue, session, FALSE)
  /\ pc' = [pc EXCEPT ![f] = "preparing"]

Return(f, how) ==
  /\ pc' = [pc EXCEPT ![f] = "done"]
  /\ outcome' = [outcome EXCEPT ![f] = how]

\* A send whose turn has ended flushes the queue, or returns.
AfterTurn(s) ==
  /\ pc[s] = "ended"
  /\ \/ /\ turn[s].flush
        /\ FlushQueue(s)
        /\ UNCHANGED <<latchVars, procVars, waits, outcome, preambleFired,
                       pending, delivered, fails>>
     \/ /\ turn[s].flush => (queue = <<>> \/ kind # "ready")
        /\ Return(s, "sent")
        /\ UNCHANGED <<stateVars, latchVars, queue, procVars, turn, waits,
                       preambleFired, pending, delivered, fails>>

-----------------------------------------------------------------------------
(* send()                                                                  *)

SendRefused(s) ==
  /\ pc[s] = "idle" /\ kind \in {"closed", "error"}
  /\ Return(s, "threw")
  /\ UNCHANGED <<stateVars, latchVars, queue, procVars, turn, waits,
                 preambleFired, pending, delivered, fails>>

SendLatched(s) ==
  /\ pc[s] = "idle" /\ kind = "initializing"
  /\ pc' = [pc EXCEPT ![s] = "latched"]
  /\ waits' = [waits EXCEPT ![s] = latch]
  /\ UNCHANGED <<stateVars, latchVars, queue, procVars, turn, outcome,
                 preambleFired, pending, delivered, fails>>

SendQueued(s) ==
  /\ pc[s] = "idle" /\ kind = "prompting"
  /\ queue' = Append(queue, s)
  /\ Return(s, "queued")
  /\ UNCHANGED <<stateVars, latchVars, procVars, turn, waits,
                 preambleFired, pending, delivered, fails>>

SendDirect(s) ==
  /\ pc[s] = "idle" /\ kind = "ready"
  /\ SendPrompt(s, <<s>>, session, TRUE)
  /\ pc' = [pc EXCEPT ![s] = "preparing"]
  /\ UNCHANGED <<latchVars, queue, procVars, waits, outcome,
                 preambleFired, pending, delivered, fails>>

\* The latch is resolved and the state read afresh: only ready sends, with
\* no flush after; any state but error and closed returns without a word.
SendResumes(s) ==
  /\ pc[s] = "latched" /\ waits[s] \in resolved
  /\ \/ /\ kind = "ready"
        /\ SendPrompt(s, <<s>>, session, FALSE)
        /\ pc' = [pc EXCEPT ![s] = "preparing"]
        /\ UNCHANGED outcome
     \/ /\ kind \in {"error", "closed"}
        /\ Return(s, "threw")
        /\ UNCHANGED <<stateVars, turn>>
     \/ /\ kind \in {"initializing", "prompting"}
        /\ Return(s, "dropped")
        /\ UNCHANGED <<stateVars, turn>>
  /\ UNCHANGED <<latchVars, queue, procVars, waits, preambleFired, pending,
                 delivered, fails>>

-----------------------------------------------------------------------------
(* _initSession of process p: initialize, resume or open a session, store  *)
(* it and reconcile, ready, flush, and resolve whatever latch is current.  *)
(* Each call goes to this.client as it is when the call is made; turn[p]   *)
(* holds the process called and the session obtained.                      *)

Initialized(p) ==
  /\ pc[p] = "handshaking" /\ MayAnswer(turn[p].to)
  /\ pc' = [pc EXCEPT ![p] = "opening"]
  /\ turn' = [turn EXCEPT ![p].to = client]
  /\ UNCHANGED <<stateVars, latchVars, queue, procVars, waits, outcome,
                 preambleFired, pending, delivered, fails>>

\* Mutation: the session the state carries is taken for the new process.
SessionOpened_KeepsOld(p) ==
  /\ pc[p] = "opening" /\ MayAnswer(turn[p].to)
  /\ pc' = [pc EXCEPT ![p] = "storing"]
  /\ turn' = [turn EXCEPT ![p].session = session]
  /\ UNCHANGED <<stateVars, latchVars, queue, procVars, waits, outcome,
                 preambleFired, pending, delivered, fails>>

SessionOpened(p) ==
  /\ pc[p] = "opening" /\ MayAnswer(turn[p].to)
  /\ pc' = [pc EXCEPT ![p] = "storing"]
  /\ turn' = [turn EXCEPT ![p].session = turn[p].to]
  /\ UNCHANGED <<stateVars, latchVars, queue, procVars, waits, outcome,
                 preambleFired, pending, delivered, fails>>

SessionStored(p) ==
  /\ pc[p] = "storing"
  /\ kind' = "ready" /\ session' = turn[p].session
  /\ pc' = [pc EXCEPT ![p] = "readied"]
  /\ UNCHANGED <<latchVars, queue, procVars, turn, waits, outcome,
                 preambleFired, pending, delivered, fails>>

InitFlushes(p) ==
  /\ pc[p] = "readied"
  /\ FlushQueue(p)
  /\ UNCHANGED <<latchVars, procVars, waits, outcome, preambleFired, pending,
                 delivered, fails>>

\* Mutation: without the finally.
InitReturns_LatchLeft(p) ==
  /\ \/ pc[p] = "readied" /\ (queue = <<>> \/ kind # "ready")
     \/ pc[p] \in {"ended", "errored"}
     \/ pc[p] = "failing" /\ kind = "closed"
  /\ pc' = [pc EXCEPT ![p] = "done"]
  /\ UNCHANGED <<stateVars, latchVars, queue, procVars, turn, waits, outcome,
                 preambleFired, pending, delivered, fails>>

\* The finally: this.initLatch, which a restart may have replaced.
InitReturns(p) ==
  /\ \/ pc[p] = "readied" /\ (queue = <<>> \/ kind # "ready")
     \/ pc[p] \in {"ended", "errored"}
     \/ pc[p] = "failing" /\ kind = "closed"
  /\ pc' = [pc EXCEPT ![p] = "done"]
  /\ resolved' = resolved \cup {latch}
  /\ UNCHANGED <<stateVars, latch, queue, procVars, turn, waits, outcome,
                 preambleFired, pending, delivered, fails>>

InitFails(p) ==
  /\ pc[p] \in {"handshaking", "opening"}
  /\ \/ turn[p].to \in alive /\ fails < MaxFails /\ fails' = fails + 1
     \/ turn[p].to \notin alive /\ UNCHANGED fails
  /\ pc' = [pc EXCEPT ![p] = "failing"]
  /\ UNCHANGED <<stateVars, latchVars, queue, procVars, turn, waits, outcome,
                 preambleFired, pending, delivered>>

\* Mutation: an agent that was closed meanwhile is set to error.
InitErrs_Always(p) ==
  /\ pc[p] = "failing"
  /\ kind' = "error" /\ UNCHANGED session
  /\ pc' = [pc EXCEPT ![p] = "errored"]
  /\ UNCHANGED <<latchVars, queue, procVars, turn, waits, outcome,
                 preambleFired, pending, delivered, fails>>

InitErrs(p) ==
  /\ pc[p] = "failing" /\ kind # "closed"
  /\ kind' = "error" /\ UNCHANGED session
  /\ pc' = [pc EXCEPT ![p] = "errored"]
  /\ UNCHANGED <<latchVars, queue, procVars, turn, waits, outcome,
                 preambleFired, pending, delivered, fails>>

-----------------------------------------------------------------------------
(* _restart() and close()                                                  *)

\* No fiber stands between two awaits of its own: a lifecycle call that
\* begins now meets at most turns that wait for their process.
AtRest == \A f \in DOMAIN pc : pc[f] \in {"idle", "turn", "done"}

\* Mutation: the queue starts empty for the new process.
Restart_ClearsQueue(r) ==
  /\ pc[r] = "idle" /\ (Overlap \/ AtRest)
  /\ alive' = alive \ {client}
  /\ latch' = latch + 1
  /\ kind' = "initializing" /\ UNCHANGED session
  /\ queue' = <<>>
  /\ pc' = [pc EXCEPT ![r] = "spawning"]
  /\ UNCHANGED <<resolved, client, spawned, subscribed, turn, waits, outcome,
                 preambleFired, pending, delivered, fails>>

\* Mutation: the old process is not closed.
Restart_LeavesProcess(r) ==
  /\ pc[r] = "idle" /\ (Overlap \/ AtRest)
  /\ latch' = latch + 1
  /\ kind' = "initializing" /\ UNCHANGED session
  /\ pc' = [pc EXCEPT ![r] = "spawning"]
  /\ UNCHANGED <<resolved, queue, procVars, turn, waits, outcome,
                 preambleFired, pending, delivered, fails>>

\* Mutation: the state is left as it is.
Restart_KeepsState(r) ==
  /\ pc[r] = "idle" /\ (Overlap \/ AtRest)
  /\ alive' = alive \ {client}
  /\ latch' = latch + 1
  /\ pc' = [pc EXCEPT ![r] = "spawning"]
  /\ UNCHANGED <<stateVars, resolved, queue, client, spawned, subscribed, turn,
                 waits, outcome, preambleFired, pending, delivered, fails>>

\* The process killed, a new latch, initializing: also when it was closed.
Restart(r) ==
  /\ pc[r] = "idle" /\ (Overlap \/ AtRest)
  /\ alive' = alive \ {client}
  /\ latch' = latch + 1
  /\ kind' = "initializing" /\ UNCHANGED session
  /\ pc' = [pc EXCEPT ![r] = "spawning"]
  /\ UNCHANGED <<resolved, queue, client, spawned, subscribed, turn, waits,
                 outcome, preambleFired, pending, delivered, fails>>

\* AcpClient.create returned: the client is replaced, the event log listened
\* to again, and the session begun.  What the state is by now is not looked at.
Spawned(r) ==
  /\ pc[r] = "spawning"
  /\ client' = spawned /\ spawned' = spawned + 1
  /\ alive' = alive \cup {spawned} /\ subscribed' = TRUE
  /\ pc' = [pc EXCEPT ![r] = "done", ![spawned] = "handshaking"]
  /\ turn' = [turn EXCEPT ![spawned].to = spawned]
  /\ UNCHANGED <<stateVars, latchVars, queue, waits, outcome, preambleFired,
                 pending, delivered, fails>>

SpawnFails(r) ==
  /\ pc[r] = "spawning" /\ fails < MaxFails
  /\ fails' = fails + 1
  /\ kind' = "error" /\ UNCHANGED session
  /\ pc' = [pc EXCEPT ![r] = "errored"]
  /\ UNCHANGED <<latchVars, queue, procVars, turn, waits, outcome,
                 preambleFired, pending, delivered>>

RestartGivesUp(r) ==
  /\ pc[r] = "errored"
  /\ resolved' = resolved \cup {latch}
  /\ pc' = [pc EXCEPT ![r] = "done"]
  /\ UNCHANGED <<stateVars, latch, queue, procVars, turn, waits, outcome,
                 preambleFired, pending, delivered, fails>>

\* Mutation: pending permission requests are left to themselves.
Close_LeavesPending ==
  /\ pc[Closer] = "idle" /\ (Overlap \/ AtRest)
  /\ subscribed' = FALSE
  /\ alive' = alive \ {client}
  /\ kind' = "closed" /\ UNCHANGED session
  /\ pc' = [pc EXCEPT ![Closer] = "closing"]
  /\ UNCHANGED <<latchVars, queue, client, spawned, turn, waits, outcome,
                 preambleFired, pending, delivered, fails>>

\* The subscription ends, pending permissions are cancelled, the process is
\* killed, the state closed.
Close ==
  /\ pc[Closer] = "idle" /\ (Overlap \/ AtRest)
  /\ subscribed' = FALSE
  /\ pending' = {}
  /\ alive' = alive \ {client}
  /\ kind' = "closed" /\ UNCHANGED session
  /\ pc' = [pc EXCEPT ![Closer] = "closing"]
  /\ UNCHANGED <<latchVars, queue, client, spawned, turn, waits, outcome,
                 preambleFired, delivered, fails>>

\* The database knows; the latch, and the socket and listeners left out here.
Closed ==
  /\ pc[Closer] = "closing"
  /\ resolved' = resolved \cup {latch}
  /\ pc' = [pc EXCEPT ![Closer] = "done"]
  /\ UNCHANGED <<stateVars, latch, queue, procVars, turn, waits, outcome,
                 preambleFired, pending, delivered, fails>>

-----------------------------------------------------------------------------
(* _handleRequestPermission and the response read from the event log.      *)

PermissionAsked(p) ==
  /\ p \notin pending
  /\ \E f \in Fibers : pc[f] = "turn" /\ turn[f].heard /\ turn[f].to = p
  /\ MayAnswer(p)
  /\ pending' = pending \cup {p}
  /\ UNCHANGED <<stateVars, latchVars, queue, procVars, pc, turn, waits,
                 outcome, preambleFired, delivered, fails>>

\* Only while the subscription is on.
PermissionAnswered(p) ==
  /\ p \in pending /\ subscribed
  /\ pending' = pending \ {p}
  /\ UNCHANGED <<stateVars, latchVars, queue, procVars, pc, turn, waits,
                 outcome, preambleFired, delivered, fails>>

-----------------------------------------------------------------------------
TurnStep(f) == AskPreamble(f) \/ MarkPreamble(f) \/ HandOver(f)
SendStep(s) == SendResumes(s) \/ AfterTurn(s)
InitStep(p) == SessionStored(p) \/ InitFlushes(p) \/ InitReturns(p)
                 \/ InitErrs(p)
Send(s) == SendRefused(s) \/ SendLatched(s) \/ SendQueued(s) \/ SendDirect(s)

Next ==
  \/ \E s \in Sends : Send(s) \/ SendStep(s)
  \/ \E f \in Fibers : TurnStep(f) \/ TurnEnds(f) \/ TurnFails(f)
  \/ \E p \in Procs : Initialized(p) \/ SessionOpened(p) \/ InitStep(p)
                        \/ InitFails(p)
  \/ \E r \in Restarts : Restart(r) \/ Spawned(r) \/ SpawnFails(r)
                           \/ RestartGivesUp(r)
  \/ Close \/ Closed
  \/ \E p \in Procs : PermissionAsked(p) \/ PermissionAnswered(p)

Spec == Init /\ [][Next]_vars

(* The event loop runs every continuation whose await is over, the database *)
(* acknowledges, and a process that lives and waits for nothing answers.    *)
(* Nothing is assumed of the callers, of the user, or of a killed process.  *)
Answers(f) == /\ turn[f].to \in alive
              /\ TurnEnds(f) \/ (f \in Procs /\ (Initialized(f) \/ SessionOpened(f)))
Fairness ==
  /\ \A s \in Sends : WF_vars(SendStep(s))
  /\ \A f \in Fibers : WF_vars(TurnStep(f)) /\ WF_vars(Answers(f))
  /\ \A p \in Procs : WF_vars(InitStep(p))
  /\ \A r \in Restarts : WF_vars(Spawned(r) \/ RestartGivesUp(r))
  /\ WF_vars(Closed)
FairSpec == Spec /\ Fairness

-----------------------------------------------------------------------------
(* Properties                                                              *)

Points == {"idle", "latched", "preparing", "composing", "composed", "turn",
           "ended", "handshaking", "opening", "storing", "readied", "failing",
           "errored", "spawning", "closing", "done"}
Turns == [prompts : Seq(Sends), session : Procs, to : Procs,
          heard : BOOLEAN, preamble : BOOLEAN, flush : BOOLEAN]
Deliveries == [prompts : Seq(Sends), to : Procs, session : Procs,
               preamble : BOOLEAN]

\* The types of the agent's fields and of the fibers.
TypeOK ==
  /\ kind \in Kinds /\ session \in Procs
  /\ latch \in Nat /\ resolved \subseteq 0 .. latch
  /\ queue \in Seq(Sends)
  /\ client \in Procs /\ alive \subseteq Procs
  /\ spawned \in 1 .. Cardinality(Procs) /\ subscribed \in BOOLEAN
  /\ pc \in [Fibers \cup Restarts \cup {Closer} -> Points]
  /\ turn \in [Fibers -> Turns]
  /\ waits \in [Sends -> Nat] /\ outcome \in [Sends -> Outcomes]
  /\ preambleFired \in BOOLEAN
  /\ pending \subseteq Procs
  /\ delivered \in Seq(Deliveries)
  /\ fails \in 0 .. MaxFails

\* Where prompts are: in the queue, in a turn that is being prepared, or in
\* what was handed to a process.
Carriers == {f \in Fibers : pc[f] \in {"preparing", "composing", "composed"}}
Holders == {<<"queue", 0>>} \cup {<<"turn", f>> : f \in Carriers}
             \cup {<<"process", i>> : i \in DOMAIN delivered}
PromptsAt(h) == IF h[1] = "queue" THEN queue
                ELSE IF h[1] = "turn" THEN turn[h[2]].prompts
                ELSE delivered[h[2]].prompts

\* What a caller sends reaches a process at most once, whatever restarts and
\* closes happen meanwhile: it is in one place at a time, and there once.
AtMostOnce ==
  \A g, h \in Holders :
    \A k \in DOMAIN PromptsAt(g), l \in DOMAIN PromptsAt(h) :
      PromptsAt(g)[k] = PromptsAt(h)[l] => g = h /\ k = l

\* A send() that returned without throwing, other than one that was latched
\* and found the agent busy, has its prompt in a process, in a turn or in the
\* queue: a restart, a failed turn or a close drops nothing that was accepted.
NothingLost ==
  \A s \in Sends : outcome[s] \in {"sent", "queued"} =>
    \E h \in Holders : \E k \in DOMAIN PromptsAt(h) : PromptsAt(h)[k] = s

\* While lifecycle calls find the agent at rest and killed processes are
\* silent, a live process never has two turns of this agent running.  (The
\* late answer of a killed process makes the agent ready while it is starting
\* another, and two sends can then reach that one.)
OneTurnAtATime ==
  ~Overlap /\ ~Late =>
    \A p \in alive :
      Cardinality({f \in Fibers : /\ pc[f] = "turn"
                                  /\ turn[f].heard /\ turn[f].to = p}) <= 1

\* The preamble that firstPromptSentAt guards goes out once, while lifecycle
\* calls find the agent at rest; late answers do not matter to it.
PreambleOnce ==
  ~Overlap =>
    Cardinality({i \in DOMAIN delivered : delivered[i].preamble}) <= 1

\* While lifecycle calls find the agent at rest and killed processes are
\* silent, every prompt goes to the process its session lives in, and the
\* agent is ready or prompting only with the session of its live process.
SessionOfItsProcess ==
  ~Overlap /\ ~Late =>
    /\ \A i \in DOMAIN delivered : delivered[i].session = delivered[i].to
    /\ kind = "ready" => session = client /\ client \in alive

\* Turns that restarts, failures and other sends interleave with stay whole.
TurnsStayWhole == OneTurnAtATime /\ PreambleOnce /\ SessionOfItsProcess

\* While lifecycle calls find the agent at rest, no process is left behind:
\* only this.client can be alive, and nothing is once the agent was closed.
NoProcessLeftBehind ==
  ~Overlap => alive \subseteq {client} /\ (kind = "closed" => alive = {})

\* Once closed, an agent stays closed.
ClosedIsFinal == [][kind = "closed" => kind' = "closed"]_vars

\* While lifecycle calls find the agent at rest and killed processes are
\* silent, nothing but a restart ends closed: no turn or initialisation of the
\* killed process that still fails or ends sets another state.  (_restart does
\* not look at the state, agent.ts:746, so changeCwd() brings a closed agent
\* back.)
ClosedUntilRestarted ==
  [][~Overlap /\ ~Late /\ kind = "closed" /\ kind' # "closed" =>
       \E r \in Restarts : pc[r] = "idle" /\ pc'[r] = "spawning"]_vars

\* While lifecycle calls find the agent at rest and killed processes are
\* silent, a permission request never outlives the agent it was made of, and
\* one that is pending can be answered: its response is listened for, also
\* when the agent was closed and restarted before it was made.
PermissionsUnwind ==
  ~Overlap /\ ~Late => (pending # {} => subscribed /\ kind # "closed")

\* While lifecycle calls find the agent at rest and killed processes are
\* silent, an agent that says it is prompting has a turn under way, with the
\* process that lives: what is queued meanwhile waits for the end of that turn.
\* (A prompt that a live process rejects leaves it prompting for nothing,
\* agent.ts:895.)
PromptingHasTurn ==
  ~Overlap /\ ~Late /\ fails = 0 /\ kind = "prompting" =>
    \E f \in Fibers :
      \/ pc[f] \in {"preparing", "composing", "composed"}
      \/ pc[f] = "turn" /\ turn[f].to \in alive

\* With lifecycle calls at rest, a send() returns or throws, unless its turn
\* waits for the user's permission or for a process that was killed.
Held(s) == pc[s] = "turn" /\ (turn[s].to \notin alive \/ turn[s].to \in pending)
SendsReturn ==
  ~Overlap => \A s \in Sends :
    pc[s] # "idle" ~> (pc[s] = "done" \/ Held(s) \/ \E f \in Fibers : 
                        pc[f] = "turn" /\ turn[f].to \in pending)
=============================================================================
