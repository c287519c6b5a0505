--------------------------- MODULE AgentTerminals ---------------------------
(***************************************************************************)
(* The terminals an agent's process asks for: TerminalManager and          *)
(* ManagedTerminal of packages/agent/src/terminal.ts, as the agent         *)
(* (packages/agent/src/agent.ts) drives them.                              *)
(*                                                                         *)
(* A terminal is a child process, the two timers that are to end it, its   *)
(* exit status and the tail of its output.  The timers run in any order:   *)
(* that a grace of 5 s is shorter than a lifetime of 5 min is not used.    *)
(* A timer that was replaced by another runs on, without a handle by which *)
(* it could be cleared: a stray.                                           *)
(*                                                                         *)
(* Output is a sequence of characters, each given by its width in UTF-8,   *)
(* in chunks that end where a character ends.  Left out: environment and   *)
(* arguments, the callers of onOutput and onExit, and grandchildren that   *)
(* hold the pipes of a process that is gone.                               *)
(***************************************************************************)
EXTENDS Naturals, Sequences, FiniteSets, SequencesExt

CONSTANTS
  Terminals,     \* the terminal/create requests
  Stubborn,      \* those whose process ignores SIGTERM
  Printers,      \* those whose process prints
  Waiters,       \* the calls of terminal/wait_for_exit
  Chunks,        \* what a process may print at once
  ByteLimit,     \* outputByteLimit
  MaxKills,      \* bound: terminal/kill calls
  MaxPrints,     \* bound: chunks printed
  MaxRestarts    \* bound: restarts of the agent

ASSUME TerminalsAssumption ==
  /\ Stubborn \subseteq Terminals /\ Printers \subseteq Terminals
  /\ Chunks \subseteq Seq(1 .. 4)
  /\ {ByteLimit, MaxKills, MaxPrints, MaxRestarts} \subseteq Nat

VARIABLES
  stage,      \* a create: "none", "awaiting" the user's PATH, "done"
  terminals,  \* TerminalManager.terminals
  proc,       \* the process: "none", "failing", "running", "gone", "reaped"
  signals,    \* the signals the process was sent
  exitStatus, \* _exitStatus: "none", "error" (no code) or "close"
  lifetime,   \* lifetimeTimer is armed
  killer,     \* killTimer is armed
  strays,     \* kill timers armed and replaced
  waiting,    \* the terminal each waiter awaits, and what it was answered
  output,     \* outputBuffer
  truncated,  \* _truncated
  printed,    \* history: all the process has printed
  agent,      \* "up" or "closed"
  count       \* kills, chunks and restarts so far

timers == <<lifetime, killer, strays>>
outputs == <<output, truncated, printed>>
vars == <<stage, terminals, proc, signals, exitStatus, timers, waiting,
          outputs, agent, count>>

NoWait == [on |-> {}, told |-> "none"]

Init ==
  /\ stage = [t \in Terminals |-> "none"]
  /\ terminals = {}
  /\ proc = [t \in Terminals |-> "none"]
  /\ signals = [t \in Terminals |-> {}]
  /\ exitStatus = [t \in Terminals |-> "none"]
  /\ lifetime = [t \in Terminals |-> FALSE]
  /\ killer = [t \in Terminals |-> FALSE]
  /\ strays = [t \in Terminals |-> 0]
  /\ waiting = [w \in Waiters |-> NoWait]
  /\ output = [t \in Terminals |-> <<>>]
  /\ truncated = [t \in Terminals |-> FALSE]
  /\ printed = [t \in Terminals |-> <<>>]
  /\ agent = "up"
  /\ count = [kills |-> 0, prints |-> 0, restarts |-> 0]

-----------------------------------------------------------------------------
(* TerminalManager.create: the user's PATH is awaited, then the process is *)
(* spawned and registered, whatever has become of the agent.               *)

Create(t) ==
  /\ stage[t] = "none" /\ agent = "up"
  /\ stage' = [stage EXCEPT ![t] = "awaiting"]
  /\ UNCHANGED <<terminals, proc, signals, exitStatus, timers, waiting,
                 outputs, agent, count>>

Spawn(t) ==
  /\ stage[t] = "awaiting"
  /\ stage' = [stage EXCEPT ![t] = "done"]
  /\ \E how \in {"running", "failing"} : proc' = [proc EXCEPT ![t] = how]
  /\ lifetime' = [lifetime EXCEPT ![t] = TRUE]
  /\ terminals' = terminals \cup {t}
  /\ UNCHANGED <<signals, exitStatus, killer, strays, waiting, outputs, agent,
                 count>>

-----------------------------------------------------------------------------
(* What the process and the timers do.                                     *)

Dying(t) == "SIGKILL" \in signals[t] \/ (signals[t] # {} /\ t \notin Stubborn)

\* The process ends, of itself or of a signal.
Exits(t) ==
  /\ proc[t] = "running"
  /\ proc' = [proc EXCEPT ![t] = "gone"]
  /\ UNCHANGED <<stage, terminals, signals, exitStatus, timers, waiting,
                 outputs, agent, count>>

ClearTimers(t) ==
  /\ lifetime' = [lifetime EXCEPT ![t] = FALSE]
  /\ killer' = [killer EXCEPT ![t] = FALSE]

\* Mutation: the waiters of a released terminal are not answered.
Resolve_ListedOnly(t, status) ==
  waiting' = [w \in Waiters |->
    IF waiting[w].on = {t} \cap terminals /\ waiting[w].told = "none"
      THEN [waiting[w] EXCEPT !.told = status] ELSE waiting[w]]

\* exitPromise is resolved; a promise keeps what it was resolved with first.
Resolve(t, status) ==
  waiting' = [w \in Waiters |->
    IF waiting[w].on = {t} /\ waiting[w].told = "none"
      THEN [waiting[w] EXCEPT !.told = status] ELSE waiting[w]]

\* The "close" event.  After a spawn that failed it follows the "error" event.
Closes(t) ==
  /\ \/ proc[t] = "gone"
     \/ proc[t] = "failing" /\ exitStatus[t] = "error"
  /\ proc' = [proc EXCEPT ![t] = "reaped"]
  /\ exitStatus' = [exitStatus EXCEPT ![t] = "close"]
  /\ ClearTimers(t)
  /\ Resolve(t, "close")
  /\ UNCHANGED <<stage, terminals, signals, strays, outputs, agent, count>>

\* The "error" event: the process could not be spawned.
Errors(t) ==
  /\ proc[t] = "failing" /\ exitStatus[t] = "none"
  /\ exitStatus' = [exitStatus EXCEPT ![t] = "error"]
  /\ ClearTimers(t)
  /\ Resolve(t, "error")
  /\ UNCHANGED <<stage, terminals, proc, signals, strays, outputs, agent,
                 count>>

\* The processes of ts are sent SIGTERM, if no exit is known, and the timer
\* for SIGKILL is armed; the one there was is replaced and not cleared.
Killed(ts) == {t \in ts : exitStatus[t] = "none"}
Terminate(ts) ==
  /\ signals' = [t \in Terminals |->
       IF t \in Killed(ts) /\ proc[t] = "running"
         THEN signals[t] \cup {"SIGTERM"} ELSE signals[t]]
  /\ strays' = [t \in Terminals |->
       IF t \in Killed(ts) /\ killer[t] THEN strays[t] + 1 ELSE strays[t]]

\* Mutation: no SIGKILL follows.
KillProcess_NoGrace(t) == Terminate({t}) /\ UNCHANGED killer

KillProcess(t) ==
  /\ Terminate({t})
  /\ killer' = [killer EXCEPT ![t] = @ \/ exitStatus[t] = "none"]

LifetimeOver(t) ==
  /\ lifetime[t]
  /\ lifetime' = [lifetime EXCEPT ![t] = FALSE]
  /\ KillProcess(t)
  /\ UNCHANGED <<stage, terminals, proc, exitStatus, waiting, outputs, agent,
                 count>>

\* A kill timer fires, the one there is a handle of or a stray.
GraceOver(t) ==
  /\ \/ killer[t] /\ killer' = [killer EXCEPT ![t] = FALSE] /\ UNCHANGED strays
     \/ /\ strays[t] > 0 /\ strays' = [strays EXCEPT ![t] = @ - 1]
        /\ UNCHANGED killer
  /\ signals' = [signals EXCEPT ![t] =
       IF exitStatus[t] = "none" /\ proc[t] = "running"
         THEN @ \cup {"SIGKILL"} ELSE @]
  /\ UNCHANGED <<stage, terminals, proc, exitStatus, lifetime, waiting,
                 outputs, agent, count>>

-----------------------------------------------------------------------------
(* appendOutput and truncateOutput                                         *)

Bytes(text) == FoldLeft(LAMBDA sum, width : sum + width, 0, text)
From(text, n) == SubSeq(text, n, Len(text))

\* Mutation: cut at the last character that begins at or before the excess.
Truncate_Before(text) ==
  LET excess == Bytes(text) - ByteLimit
      cut == CHOOSE n \in 0 .. Len(text) :
               /\ Bytes(SubSeq(text, 1, n)) <= excess
               /\ \A m \in n + 1 .. Len(text) :
                    Bytes(SubSeq(text, 1, m)) > excess
  IN  From(text, cut + 1)

\* Cut at the first character that begins at or after the excess.
Truncate(text) ==
  LET excess == Bytes(text) - ByteLimit
      cut == CHOOSE n \in 0 .. Len(text) :
               /\ Bytes(SubSeq(text, 1, n)) >= excess
               /\ \A m \in 0 .. n - 1 : Bytes(SubSeq(text, 1, m)) < excess
  IN  From(text, cut + 1)

Prints(t, chunk) ==
  LET text == output[t] \o chunk  over == Bytes(text) > ByteLimit IN
  /\ t \in Printers /\ proc[t] = "running" /\ count.prints < MaxPrints
  /\ output' = [output EXCEPT ![t] = IF over THEN Truncate(text) ELSE text]
  /\ truncated' = [truncated EXCEPT ![t] = @ \/ over]
  /\ printed' = [printed EXCEPT ![t] = @ \o chunk]
  /\ count' = [count EXCEPT !.prints = @ + 1]
  /\ UNCHANGED <<stage, terminals, proc, signals, exitStatus, timers, waiting,
                 agent>>

-----------------------------------------------------------------------------
(* terminal/kill, terminal/wait_for_exit, terminal/release, and releaseAll *)
(* at a restart or the close of the agent.                                 *)

Kill(t) ==
  /\ t \in terminals /\ count.kills < MaxKills
  /\ count' = [count EXCEPT !.kills = @ + 1]
  /\ KillProcess(t)
  /\ UNCHANGED <<stage, terminals, proc, exitStatus, lifetime, waiting,
                 outputs, agent>>

WaitForExit(w, t) ==
  /\ waiting[w] = NoWait /\ t \in terminals
  /\ waiting' = [waiting EXCEPT ![w] = [on |-> {t}, told |-> exitStatus[t]]]
  /\ UNCHANGED <<stage, terminals, proc, signals, exitStatus, timers, outputs,
                 agent, count>>

\* ManagedTerminal.release of each of ts: killed, and its timers cleared, the
\* one that was to escalate among them.
Release(ts) ==
  /\ Terminate(ts)
  /\ lifetime' = [t \in Terminals |-> lifetime[t] /\ t \notin ts]
  /\ killer' = [t \in Terminals |-> killer[t] /\ t \notin ts]
  /\ terminals' = terminals \ ts

ReleaseTerminal(t) ==
  /\ t \in terminals
  /\ Release({t})
  /\ UNCHANGED <<stage, proc, exitStatus, waiting, outputs, agent, count>>

RestartAgent ==
  /\ agent = "up" /\ count.restarts < MaxRestarts
  /\ Release(terminals)
  /\ count' = [count EXCEPT !.restarts = @ + 1]
  /\ UNCHANGED <<stage, proc, exitStatus, waiting, outputs, agent>>

CloseAgent ==
  /\ agent = "up"
  /\ Release(terminals)
  /\ agent' = "closed"
  /\ UNCHANGED <<stage, proc, exitStatus, waiting, outputs, count>>

-----------------------------------------------------------------------------
Step(t) == Spawn(t) \/ Closes(t) \/ Errors(t)
Timer(t) == LifetimeOver(t) \/ GraceOver(t)

Next ==
  \/ \E t \in Terminals : \/ Create(t) \/ Step(t) \/ Timer(t) \/ Exits(t)
                          \/ Kill(t) \/ ReleaseTerminal(t)
  \/ \E t \in Terminals, chunk \in Chunks : Prints(t, chunk)
  \/ \E w \in Waiters, t \in Terminals : WaitForExit(w, t)
  \/ RestartAgent \/ CloseAgent

Spec == Init /\ [][Next]_vars

(* The PATH is resolved, events are emitted, timers fire, and a signal that *)
(* ends a process does so.  No process need end of itself.                  *)
Fairness == \A t \in Terminals : /\ WF_vars(Step(t)) /\ WF_vars(Timer(t))
                                 /\ WF_vars(Dying(t) /\ Exits(t))
FairSpec == Spec /\ Fairness

-----------------------------------------------------------------------------
(* Properties                                                              *)

Statuses == {"none", "error", "close"}

\* The types of the manager's table and of the terminals.
TypeOK ==
  /\ stage \in [Terminals -> {"none", "awaiting", "done"}]
  /\ terminals \subseteq Terminals
  /\ proc \in [Terminals -> {"none", "failing", "running", "gone", "reaped"}]
  /\ signals \in [Terminals -> SUBSET {"SIGTERM", "SIGKILL"}]
  /\ exitStatus \in [Terminals -> Statuses]
  /\ lifetime \in [Terminals -> BOOLEAN] /\ killer \in [Terminals -> BOOLEAN]
  /\ strays \in [Terminals -> Nat]
  /\ waiting \in [Waiters -> [on : SUBSET Terminals, told : Statuses]]
  /\ truncated \in [Terminals -> BOOLEAN]
  /\ agent \in {"up", "closed"}

\* A process in the table, of which no exit is known, has something that will
\* end it: its lifetime, a kill timer, or a SIGKILL already sent.  The kill
\* timers replaced by repeated kills count, the lifetime alone is not enough:
\* it fires once.
SomethingWillEndIt ==
  \A t \in terminals : exitStatus[t] = "none" /\ proc[t] = "running" =>
    lifetime[t] \/ killer[t] \/ strays[t] > 0 \/ "SIGKILL" \in signals[t]

\* A process that runs on without being in the table was told to end when it
\* was taken from it: a release never just forgets.
ForgottenOnlyIfTold ==
  \A t \in Terminals \ terminals :
    proc[t] = "running" => "SIGTERM" \in signals[t]

\* No timer that has a handle outlives the exit or the release.
TimersCleared ==
  \A t \in Terminals :
    exitStatus[t] # "none" \/ t \notin terminals => ~lifetime[t] /\ ~killer[t]

\* The output is the longest end of all that was printed that fits the limit
\* at a character boundary, however the chunks came, and it is marked as
\* truncated exactly when something is missing.
OutputIsTheTail ==
  \A t \in Terminals :
    /\ \E n \in 1 .. Len(printed[t]) + 1 :
         /\ output[t] = From(printed[t], n)
         /\ Bytes(output[t]) <= ByteLimit
         /\ n > 1 => Bytes(From(printed[t], n - 1)) > ByteLimit
    /\ truncated[t] <=> output[t] # printed[t]

\* A waiter is told the status that getOutput goes on to show, unless the
\* process could not be spawned: then "close" overwrites what "error" told.
WaitersToldTheStatus ==
  \A w \in Waiters, t \in Terminals : waiting[w].on = {t} =>
    waiting[w].told \in {exitStatus[t], "error"}

\* Whatever is spawned ends, also when the request was under way while the
\* agent closed; except a process that ignores SIGTERM and was released, whose
\* SIGKILL the release cancelled.
EverythingEnds ==
  \A t \in Terminals : proc[t] = "running" ~>
    (proc[t] # "running" \/ (t \in Stubborn /\ t \notin terminals))

\* A wait_for_exit is answered, also if the terminal is released meanwhile,
\* with the same exception.
WaitersAnswered ==
  \A w \in Waiters, t \in Terminals : waiting[w].on = {t} ~>
    (waiting[w].told # "none" \/ (t \in Stubborn /\ t \notin terminals))
=============================================================================
