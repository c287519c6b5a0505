---------------------------- MODULE KyjuRootCache ----------------------------
(***************************************************************************)
(* packages/kyju/src/v2/db/root-cache.ts: the in-memory copy of the root   *)
(* document and the coalescing flusher that writes it to disk.             *)
(*                                                                         *)
(* Writers (db/handlers/write.ts, root.set) hold rootMutex around          *)
(* read + setAtPath + set.  set() marks the cache pending and arms one     *)
(* setImmediate; the timer, or an explicit flush(), starts the runner, an  *)
(* async loop that writes the document until nothing is pending.  The      *)
(* write itself takes rootMutex, stages a temporary file and renames it    *)
(* over the root file (db/helpers.ts, writeJsonFile).                      *)
(*                                                                         *)
(* A document is abstracted to the number of the write that produced it.   *)
(* doFlush evaluates its argument `cached` when it is called, before it    *)
(* has the mutex, and JSON.stringify runs once it has it: `cap` says       *)
(* whether the captured object is still the cached one, because a write    *)
(* at a non-empty path mutates that object in place and a write at the     *)
(* empty path replaces it.                                                 *)
(***************************************************************************)
EXTENDS Naturals, FiniteSets

CONSTANTS Flushers,     \* fibers that call flush()
          MaxSets,      \* bound: root writes over the whole run
          MaxFailures,  \* bound: disk writes that fail
          MaxCrashes    \* bound: process deaths

ASSUME BoundsAssumption == /\ MaxSets \in Nat
                           /\ MaxFailures \in Nat
                           /\ MaxCrashes \in Nat

VARIABLES issued,    \* writes accepted so far, over all processes
          mem,       \* the write whose result `cached` holds
          disk,      \* content of root.json: a write number, or Torn
          pending,   \* `pending`
          timer,     \* scheduledTimer # null
          runner,    \* where the `runner` loop is; "none" is null
          cap,       \* the object doFlush captured: [live, ver]
          staged,    \* the document the temporary file is written from
          mutex,     \* holder of rootMutex
          flusher,   \* per flush() caller: idle, awaiting the runner, returned
          failed,    \* history: this process's last disk write failed
          failures,  \* disk writes that have failed
          crashes    \* process deaths

vars == <<issued, mem, disk, pending, timer, runner, cap, staged, mutex,
          flusher, failed, failures, crashes>>

Torn == MaxSets + 1          \* a partly written document

RunnerStates == {"none", "lock", "write", "rename", "check", "settled"}
Idle == [st |-> "idle", need |-> 0]

TypeOK ==
  /\ issued \in 0 .. MaxSets
  /\ mem \in 0 .. MaxSets
  /\ disk \in 0 .. Torn
  /\ pending \in BOOLEAN
  /\ timer \in BOOLEAN
  /\ runner \in RunnerStates
  /\ cap \in [live : BOOLEAN, ver : 0 .. MaxSets]
  /\ staged \in 0 .. MaxSets
  /\ mutex \in {"free", "writer", "flush"}
  /\ flusher \in [Flushers -> [st : {"idle", "awaiting", "returned"},
                               need : 0 .. MaxSets]]
  /\ failed \in BOOLEAN
  /\ failures \in 0 .. MaxFailures
  /\ crashes \in 0 .. MaxCrashes

Init ==
  /\ issued = 0
  /\ mem = 0
  /\ disk = 0
  /\ pending = FALSE
  /\ timer = FALSE
  /\ runner = "none"
  /\ cap = [live |-> FALSE, ver |-> 0]
  /\ staged = 0
  /\ mutex = "free"
  /\ flusher = [f \in Flushers |-> Idle]
  /\ failed = FALSE
  /\ failures = 0
  /\ crashes = 0

------------------------------------------------------------------------------
(* Writers *)

\* rootMutex.withPermits(1) in the root.set handler is granted.
WriterTake ==
  /\ mutex = "free"
  /\ issued < MaxSets
  /\ mutex' = "writer"
  /\ UNCHANGED <<issued, mem, disk, pending, timer, runner, cap, staged,
                 flusher, failed, failures, crashes>>

\* Mutation: a write that finds a runner leaves `pending` alone.
WriterSet_TrustsRunner(emptyPath) ==
  /\ mutex = "writer"
  /\ issued' = issued + 1
  /\ mem' = issued + 1
  /\ cap' = IF emptyPath /\ cap.live THEN [live |-> FALSE, ver |-> mem] ELSE cap
  /\ pending' = (pending \/ runner = "none")
  /\ timer' = (timer \/ runner = "none")
  /\ mutex' = "free"
  /\ UNCHANGED <<disk, runner, staged, flusher, failed, failures, crashes>>

\* Mutation: the document is marked pending, and no immediate is armed.
WriterSet_ArmsNothing(emptyPath) ==
  /\ mutex = "writer"
  /\ issued' = issued + 1
  /\ mem' = issued + 1
  /\ cap' = IF emptyPath /\ cap.live THEN [live |-> FALSE, ver |-> mem] ELSE cap
  /\ pending' = TRUE
  /\ mutex' = "free"
  /\ UNCHANGED <<disk, timer, runner, staged, flusher, failed, failures,
                 crashes>>

\* setAtPath and rootCache.set run to completion and the permit is returned.
\* An empty path replaces the cached object, any other mutates it.
WriterSet(emptyPath) ==
  /\ mutex = "writer"
  /\ issued' = issued + 1
  /\ mem' = issued + 1
  /\ cap' = IF emptyPath /\ cap.live THEN [live |-> FALSE, ver |-> mem] ELSE cap
  /\ pending' = TRUE
  /\ timer' = (timer \/ runner = "none")
  /\ mutex' = "free"
  /\ UNCHANGED <<disk, runner, staged, flusher, failed, failures, crashes>>

------------------------------------------------------------------------------
(* The runner *)

\* One iteration's head: pending = false, then doFlush() captures `cached`.
BeginFlush ==
  /\ pending' = FALSE
  /\ runner' = "lock"
  /\ cap' = [live |-> TRUE, ver |-> mem]

\* startRunner, called from the timer or from flush().  Entered with nothing
\* pending its loop would end before the assignment to `runner` happens, and
\* the settled promise would stay there.
StartRunner ==
  /\ timer' = FALSE
  /\ IF runner = "none" /\ pending
     THEN BeginFlush
     ELSE /\ runner' = IF runner = "none" THEN "settled" ELSE runner
          /\ UNCHANGED <<pending, cap>>

\* The setImmediate callback.
TimerFires ==
  /\ timer
  /\ StartRunner
  /\ UNCHANGED <<issued, mem, disk, staged, mutex, flusher, failed, failures,
                 crashes>>

\* doFlush gets rootMutex; JSON.stringify runs before anything else can.
FlushTake ==
  /\ runner = "lock"
  /\ mutex = "free"
  /\ mutex' = "flush"
  /\ staged' = IF cap.live THEN mem ELSE cap.ver
  /\ runner' = "write"
  /\ UNCHANGED <<issued, mem, disk, pending, timer, cap, flusher, failed,
                 failures, crashes>>

\* Mutation: the document is written over root.json itself.
StageTmp_InPlace ==
  /\ runner = "write"
  /\ runner' = "rename"
  /\ disk' = Torn
  /\ UNCHANGED <<issued, mem, pending, timer, cap, staged, mutex, flusher,
                 failed, failures, crashes>>

\* fs.writeFileString(tmpPath, json) completes.
StageTmp ==
  /\ runner = "write"
  /\ runner' = "rename"
  /\ UNCHANGED <<issued, mem, disk, pending, timer, cap, staged, mutex,
                 flusher, failed, failures, crashes>>

\* Mutation: pending is cleared once the write is done, not before it.
Rename_ClearsPending ==
  /\ runner = "rename"
  /\ disk' = staged /\ failed' = FALSE
  /\ pending' = FALSE
  /\ mutex' = "free"
  /\ runner' = "check"
  /\ UNCHANGED <<issued, mem, timer, cap, staged, flusher, failures, crashes>>

\* fs.rename(tmpPath, root.json) completes and the permit is returned.
Rename ==
  /\ runner = "rename"
  /\ disk' = staged /\ failed' = FALSE
  /\ mutex' = "free"
  /\ runner' = "check"
  /\ UNCHANGED <<issued, mem, pending, timer, cap, staged, flusher, failures,
                 crashes>>

\* Either file operation fails: doFlush logs it and resolves all the same.
FlushFails ==
  /\ runner \in {"write", "rename"}
  /\ failures < MaxFailures
  /\ failures' = failures + 1 /\ failed' = TRUE
  /\ mutex' = "free"
  /\ runner' = "check"
  /\ UNCHANGED <<issued, mem, disk, pending, timer, cap, staged, flusher,
                 crashes>>

\* while (pending): another round ...
RunnerLoops ==
  /\ runner = "check"
  /\ pending
  /\ BeginFlush
  /\ UNCHANGED <<issued, mem, disk, timer, staged, mutex, flusher, failed,
                 failures, crashes>>

\* Mutation: one flush() caller is resumed, whoever else awaits is forgotten.
RunnerEnds_ResumesOne ==
  /\ runner = "check"
  /\ ~pending
  /\ runner' = "none"
  /\ LET waiting == {f \in Flushers : flusher[f].st = "awaiting"}
     IN  IF waiting = {} THEN UNCHANGED flusher
         ELSE flusher' = [flusher EXCEPT
                            ![CHOOSE f \in waiting : TRUE].st = "returned"]
  /\ UNCHANGED <<issued, mem, disk, pending, timer, cap, staged, mutex,
                 failed, failures, crashes>>

\* ... or runner = null, and whoever awaits that promise goes on.
RunnerEnds ==
  /\ runner = "check"
  /\ ~pending
  /\ runner' = "none"
  /\ flusher' = [f \in Flushers |->
                   IF flusher[f].st = "awaiting"
                   THEN [flusher[f] EXCEPT !.st = "returned"]
                   ELSE flusher[f]]
  /\ UNCHANGED <<issued, mem, disk, pending, timer, cap, staged, mutex,
                 failed, failures, crashes>>

------------------------------------------------------------------------------
(* flush() *)

\* Mutation: flush() starts the runner and does not await it.
FlushCall_NoAwait(f) ==
  /\ flusher[f].st # "awaiting"
  /\ IF timer \/ (pending /\ runner = "none")
     THEN StartRunner
     ELSE UNCHANGED <<pending, timer, runner, cap>>
  /\ flusher' = [flusher EXCEPT ![f] = [st |-> "returned", need |-> mem]]
  /\ UNCHANGED <<issued, mem, disk, staged, mutex, failed, failures, crashes>>

\* Replaces an armed timer by an immediate start, starts the runner when
\* something is pending and nobody drains it, then awaits the runner if there
\* is one (a settled one would answer at once).  `need` records what memory
\* held when flush() was called.
FlushCall(f) ==
  /\ flusher[f].st # "awaiting"
  /\ IF timer \/ (pending /\ runner = "none")
     THEN StartRunner
     ELSE UNCHANGED <<pending, timer, runner, cap>>
  /\ flusher' = [flusher EXCEPT ![f] =
                   [st   |-> IF runner' \in {"none", "settled"}
                             THEN "returned" ELSE "awaiting",
                    need |-> mem]]
  /\ UNCHANGED <<issued, mem, disk, staged, mutex, failed, failures, crashes>>

------------------------------------------------------------------------------
(* The process dies at any point; the next one reads root.json back. *)
Crash ==
  /\ crashes < MaxCrashes
  /\ crashes' = crashes + 1
  /\ mem' = disk
  /\ pending' = FALSE
  /\ timer' = FALSE
  /\ runner' = "none"
  /\ cap' = [live |-> FALSE, ver |-> 0]
  /\ staged' = 0
  /\ mutex' = "free"
  /\ flusher' = [f \in Flushers |-> Idle]
  /\ failed' = FALSE
  /\ UNCHANGED <<issued, disk, failures>>

------------------------------------------------------------------------------
RunnerStep == FlushTake \/ StageTmp \/ Rename \/ RunnerLoops \/ RunnerEnds

Next ==
  \/ WriterTake
  \/ \E emptyPath \in BOOLEAN : WriterSet(emptyPath)
  \/ TimerFires
  \/ RunnerStep
  \/ FlushFails
  \/ \E f \in Flushers : FlushCall(f)
  \/ Crash

Spec == Init /\ [][Next]_vars

\* The event loop runs armed immediates, an awaiting fiber is resumed, file
\* operations complete and a granted critical section runs to its end.
Fairness ==
  /\ WF_vars(TimerFires)
  /\ WF_vars(StageTmp)
  /\ WF_vars(Rename)
  /\ WF_vars(RunnerLoops)
  /\ WF_vars(RunnerEnds)
  /\ SF_vars(FlushTake)
  /\ WF_vars(\E emptyPath \in BOOLEAN : WriterSet(emptyPath))

FairSpec == Spec /\ Fairness

------------------------------------------------------------------------------
(* Properties *)

\* startRunner is never entered with nothing pending: a `runner` holding an
\* already settled promise would make every later set() believe somebody is
\* draining, and nothing would reach the disk again in this process.
RunnerNeverSettled == runner # "settled"

\* "At most one of {scheduledTimer, runner} is non-null at a time"
\* (root-cache.ts:69): an immediate left armed beside a live runner would
\* start a second one.
AtMostOneOwner == ~(timer /\ runner # "none")

\* Whatever the runner holds or will capture is the document in memory.
RunnerWillWrite(v) ==
  \/ runner = "lock" /\ v = (IF cap.live THEN mem ELSE cap.ver)
  \/ runner \in {"write", "rename"} /\ v = staged

\* Unless the last disk write failed, a document that differs from the file is
\* either still marked pending, with a timer or a runner to pick it up, or is
\* the very one the runner is about to write: no interleaving of writes,
\* timer, runner and flush() callers loses the mark, and the first write that
\* succeeds makes good what failed before it.
NothingForgotten ==
  ~failed /\ disk # mem =>
    \/ pending /\ (timer \/ runner # "none")
    \/ RunnerWillWrite(mem)

\* "The next successful flush will bring disk into sync" (root-cache.ts:80-82):
\* when the runner stops after a disk write that succeeded, the file holds
\* what memory holds, whatever failed before and whatever was set meanwhile.
SuccessfulFlushSyncs == [][RunnerEnds /\ ~failed => disk = mem]_vars

\* "flush() blocks until the cache's current state is on disk"
\* (root-cache.ts:36): when flush() has returned, and unless the last disk write
\* failed, the file holds at least what memory held when it was called.  (A
\* write that fails does break it, until the next one succeeds: doFlush logs
\* the error after `pending' was cleared, and flush() returns.)
FlushedMeansDurable ==
  ~failed => \A f \in Flushers :
    flusher[f].st = "returned" => flusher[f].need <= disk

\* The flusher implements a write-behind register: the file only moves
\* forward, through whole documents memory has held, and a process death loses
\* just the writes that had not reached it.
Abstract == INSTANCE WriteBehind WITH mem <- mem, disk <- disk
RefinesWriteBehind == Abstract!Spec

\* A document that is marked pending reaches the disk without anybody calling
\* flush(), also when disk writes failed before, unless one more fails or the
\* process dies.
EventuallyDurable ==
  \A v \in 1 .. MaxSets, n \in 0 .. MaxFailures :
    mem >= v /\ pending /\ failures = n
      ~> (disk >= v \/ failures > n \/ crashes > 0)

\* A fiber that awaits flush() is resumed once writers pause, also when the
\* disk write it awaits fails.
FlushReturns ==
  \A f \in Flushers :
    (flusher[f].st = "awaiting") ~> (flusher[f].st # "awaiting")
==============================================================================
