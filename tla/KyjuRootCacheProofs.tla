------------------------- MODULE KyjuRootCacheProofs -------------------------
(***************************************************************************)
(* Theorems about KyjuRootCache, for any number of callers of flush() and  *)
(* any bounds.                                                             *)
(***************************************************************************)
EXTENDS KyjuRootCache, TLAPS

\* Documents are ordered: file, then what the runner is writing, then memory.
Ordered ==
  /\ disk <= mem
  /\ mem <= issued
  /\ runner = "lock" /\ ~cap.live => disk <= cap.ver /\ cap.ver <= mem
  /\ runner \in {"write", "rename"} => disk <= staged /\ staged <= mem

\* A runner that holds something older than memory works beside a pending mark.
StaleIsPending ==
  /\ runner = "lock" /\ ~cap.live => pending
  /\ runner \in {"write", "rename"} => staged = mem \/ pending

\* Who is in charge: a timer only ever waits beside a pending mark and no
\* runner, a pending mark always has a timer or a runner, and the flush has
\* the mutex exactly while the runner is inside the file operations.
Ownership ==
  /\ timer => pending /\ runner = "none"
  /\ pending => timer \/ runner # "none"
  /\ runner # "settled"
  /\ mutex = "flush" <=> runner \in {"write", "rename"}
  /\ mutex = "writer" => issued < MaxSets

\* A caller of flush() only waits while there is a runner.  Once it has
\* returned, what it is owed is on disk, or the write failed and the runner
\* writes nothing older when it is started again.
FlushersServed ==
  \A f \in Flushers :
    /\ flusher[f].need <= mem
    /\ flusher[f].st = "awaiting" => runner # "none"
    /\ flusher[f].st = "returned" =>
         /\ ~failed => flusher[f].need <= disk
         /\ runner = "lock" /\ ~cap.live => flusher[f].need <= cap.ver
         /\ runner \in {"write", "rename"} => flusher[f].need <= staged

IInv == /\ TypeOK /\ Ordered /\ Ownership /\ StaleIsPending
        /\ NothingForgotten /\ FlushersServed

------------------------------------------------------------------------------
\* The type invariant is inductive on its own but for the two facts about who
\* may act, which is why everything is proved together.
LEMMA InitIInv == Init => IInv
<1> SUFFICES ASSUME Init PROVE IInv
  OBVIOUS
<1> USE BoundsAssumption DEF BoundsAssumption, Init, Idle
<1>1. flusher \in [Flushers -> [st : {"idle", "awaiting", "returned"},
                                need : 0 .. MaxSets]]
  OBVIOUS
<1>2. cap \in [live : BOOLEAN, ver : 0 .. MaxSets]
  OBVIOUS
<1>3. pending \in BOOLEAN /\ timer \in BOOLEAN /\ failed \in BOOLEAN
  BY Zenon
<1>4. /\ issued \in 0 .. MaxSets /\ mem \in 0 .. MaxSets
      /\ disk \in 0 .. Torn /\ staged \in 0 .. MaxSets
      /\ runner \in RunnerStates /\ mutex \in {"free", "writer", "flush"}
      /\ failures \in 0 .. MaxFailures /\ crashes \in 0 .. MaxCrashes
  BY DEF Torn, RunnerStates
<1>5. TypeOK
  BY <1>1, <1>2, <1>3, <1>4, Zenon DEF TypeOK
<1>6. Ordered /\ Ownership /\ StaleIsPending /\ NothingForgotten /\ FlushersServed
  BY DEF Ordered, Ownership, StaleIsPending, NothingForgotten, FlushersServed,
         RunnerWillWrite
<1> QED
  BY <1>5, <1>6 DEF IInv

\* startRunner keeps the types of the variables it assigns.
LEMMA StartRunnerTypes ==
  ASSUME TypeOK, StartRunner
  PROVE  /\ pending' \in BOOLEAN /\ timer' \in BOOLEAN
         /\ cap' \in [live : BOOLEAN, ver : 0 .. MaxSets]
         /\ runner' \in RunnerStates
<1>1. pending' \in BOOLEAN /\ timer' \in BOOLEAN
  BY Zenon DEF StartRunner, BeginFlush, TypeOK
<1>2. cap' = cap \/ cap' = [live |-> TRUE, ver |-> mem]
  BY DEF StartRunner, BeginFlush
<1>3. [live |-> TRUE, ver |-> mem] \in [live : BOOLEAN, ver : 0 .. MaxSets]
  BY DEF TypeOK
<1>4. cap' \in [live : BOOLEAN, ver : 0 .. MaxSets]
  BY <1>2, <1>3, Zenon DEF TypeOK
<1>5. runner' \in RunnerStates
  BY DEF StartRunner, BeginFlush, TypeOK, RunnerStates
<1> QED
  BY <1>1, <1>4, <1>5

\* Every step keeps the inductive invariant.
LEMMA StepIInv == IInv /\ [Next]_vars => IInv'
<1> SUFFICES ASSUME IInv, [Next]_vars
             PROVE  IInv'
  OBVIOUS
<1> USE BoundsAssumption
    DEF BoundsAssumption, IInv, TypeOK, Ordered, Ownership, StaleIsPending,
        NothingForgotten, FlushersServed,
        Torn, RunnerStates, RunnerWillWrite
<1>1. CASE WriterTake
  BY <1>1 DEF WriterTake
<1>2. ASSUME NEW emptyPath \in BOOLEAN, WriterSet(emptyPath)
      PROVE  IInv'
  <2>1. TypeOK'
    <3>1. pending' \in BOOLEAN /\ timer' \in BOOLEAN
      BY <1>2, Zenon DEF WriterSet
    <3>2. cap' \in [live : BOOLEAN, ver : 0 .. MaxSets]
      BY <1>2 DEF WriterSet
    <3>3. /\ issued' \in 0 .. MaxSets /\ mem' \in 0 .. MaxSets
          /\ mutex' \in {"free", "writer", "flush"}
          /\ UNCHANGED <<disk, runner, staged, flusher, failed, failures,
                         crashes>>
      BY <1>2 DEF WriterSet
    <3> QED
      BY <3>1, <3>2, <3>3, Zenon
  <2>2. Ordered'
    BY <1>2 DEF WriterSet
  <2>3. Ownership'
    BY <1>2 DEF WriterSet
  <2>4. StaleIsPending' /\ NothingForgotten'
    BY <1>2 DEF WriterSet
  <2>5. FlushersServed'
    BY <1>2 DEF WriterSet
  <2> QED
    BY <2>1, <2>2, <2>3, <2>4, <2>5
<1>3. CASE TimerFires
  <2>1. TypeOK'
    <3>1. UNCHANGED <<issued, mem, disk, staged, mutex, flusher, failed,
                      failures, crashes>>
      BY <1>3 DEF TimerFires
    <3>2. StartRunner
      BY <1>3 DEF TimerFires
    <3> QED
      BY <3>1, <3>2, StartRunnerTypes, Zenon
  <2>2. Ordered' /\ Ownership' /\ StaleIsPending' /\ NothingForgotten'
    BY <1>3 DEF TimerFires, StartRunner, BeginFlush
  <2>3. FlushersServed'
    BY <1>3 DEF TimerFires, StartRunner, BeginFlush
  <2> QED
    BY <2>1, <2>2, <2>3
<1>4. CASE FlushTake
  BY <1>4 DEF FlushTake
<1>5. CASE StageTmp
  BY <1>5 DEF StageTmp
<1>6. CASE Rename
  <2>1. TypeOK'
    <3>1. failed' \in BOOLEAN
      BY <1>6, Zenon DEF Rename
    <3> QED
      BY <1>6, <3>1 DEF Rename
  <2>2. Ordered' /\ Ownership' /\ StaleIsPending' /\ NothingForgotten'
    BY <1>6 DEF Rename
  <2>3. FlushersServed'
    BY <1>6 DEF Rename
  <2> QED
    BY <2>1, <2>2, <2>3
<1>7. CASE RunnerLoops
  BY <1>7 DEF RunnerLoops, BeginFlush
<1>8. CASE RunnerEnds
  <2>1. TypeOK'
    BY <1>8 DEF RunnerEnds
  <2>2. Ordered' /\ Ownership' /\ StaleIsPending' /\ NothingForgotten'
    BY <1>8 DEF RunnerEnds
  <2>3. FlushersServed'
    <3>1. ~failed => disk = mem
      BY <1>8 DEF RunnerEnds
    <3> QED
      BY <3>1, <1>8 DEF RunnerEnds
  <2> QED
    BY <2>1, <2>2, <2>3
<1>9. CASE FlushFails
  BY <1>9 DEF FlushFails
<1>10. ASSUME NEW f \in Flushers, FlushCall(f)
       PROVE  IInv'
  <2>1. TypeOK'
    <3>1. StartRunner \/ UNCHANGED <<pending, timer, runner, cap>>
      BY <1>10 DEF FlushCall
    <3>2. /\ pending' \in BOOLEAN /\ timer' \in BOOLEAN
          /\ cap' \in [live : BOOLEAN, ver : 0 .. MaxSets]
          /\ runner' \in RunnerStates
      BY <3>1, StartRunnerTypes, Zenon
    <3>4. flusher' \in [Flushers -> [st : {"idle", "awaiting", "returned"},
                                     need : 0 .. MaxSets]]
      BY <1>10 DEF FlushCall
    <3>5. UNCHANGED <<issued, mem, disk, staged, mutex, failed, failures,
                      crashes>>
      BY <1>10 DEF FlushCall
    <3> QED
      BY <3>2, <3>4, <3>5, Zenon
  <2>2. Ordered' /\ Ownership' /\ StaleIsPending' /\ NothingForgotten'
    BY <1>10 DEF FlushCall, StartRunner, BeginFlush
  <2>3. FlushersServed'
    <3>1. runner # "none" => runner' # "none"
      BY <1>10 DEF FlushCall, StartRunner, BeginFlush
    <3>2. runner' = "none" /\ ~failed => disk = mem
      BY <1>10 DEF FlushCall, StartRunner, BeginFlush
    <3>3. /\ failed' = failed /\ disk' = disk /\ mem' = mem
          /\ runner' # "settled" /\ staged' = staged
      BY <1>10, <2>2 DEF FlushCall
    <3>4. /\ runner' = "lock" /\ ~cap'.live => runner = "lock" /\ cap' = cap
          /\ runner' \in {"write", "rename"} => runner' = runner
      BY <1>10 DEF FlushCall, StartRunner, BeginFlush
    <3>5. /\ flusher'[f].need = mem
          /\ flusher'[f].st = "returned" => runner' = "none"
          /\ flusher'[f].st = "awaiting" => runner' # "none"
      BY <1>10, <3>3 DEF FlushCall
    <3>6. \A g \in Flushers : g # f => flusher'[g] = flusher[g]
      BY <1>10 DEF FlushCall
    <3>7. ASSUME NEW g \in Flushers, g # f
          PROVE  /\ flusher'[g].need <= mem'
                 /\ flusher'[g].st = "awaiting" => runner' # "none"
                 /\ flusher'[g].st = "returned" =>
                      /\ ~failed' => flusher'[g].need <= disk'
                      /\ runner' = "lock" /\ ~cap'.live =>
                           flusher'[g].need <= cap'.ver
                      /\ runner' \in {"write", "rename"} =>
                           flusher'[g].need <= staged'
      BY <3>1, <3>3, <3>4, <3>6, <3>7
    <3>8. /\ flusher'[f].need <= mem'
          /\ flusher'[f].st = "awaiting" => runner' # "none"
          /\ flusher'[f].st = "returned" =>
               /\ ~failed' => flusher'[f].need <= disk'
               /\ runner' = "lock" /\ ~cap'.live =>
                    flusher'[f].need <= cap'.ver
               /\ runner' \in {"write", "rename"} =>
                    flusher'[f].need <= staged'
      BY <3>2, <3>3, <3>5
    <3> QED
      BY <3>7, <3>8
  <2> QED
    BY <2>1, <2>2, <2>3
<1>11. CASE Crash
  <2>1. TypeOK'
    <3>1. pending' \in BOOLEAN /\ timer' \in BOOLEAN /\ failed' \in BOOLEAN
      BY <1>11, Zenon DEF Crash
    <3>2. cap' \in [live : BOOLEAN, ver : 0 .. MaxSets]
      BY <1>11 DEF Crash
    <3>3. flusher' \in [Flushers -> [st : {"idle", "awaiting", "returned"},
                                     need : 0 .. MaxSets]]
      BY <1>11 DEF Crash, Idle
    <3>4. /\ mem' \in 0 .. MaxSets /\ staged' \in 0 .. MaxSets
          /\ runner' \in RunnerStates /\ mutex' \in {"free", "writer", "flush"}
          /\ crashes' \in 0 .. MaxCrashes /\ UNCHANGED <<issued, disk, failures>>
      BY <1>11 DEF Crash
    <3> QED
      BY <3>1, <3>2, <3>3, <3>4, Zenon
  <2>2. Ordered' /\ Ownership' /\ StaleIsPending' /\ NothingForgotten' /\ FlushersServed'
    BY <1>11 DEF Crash, Idle
  <2> QED
    BY <2>1, <2>2
<1>12. CASE UNCHANGED vars
  BY <1>12 DEF vars
<1> QED
  BY <1>1, <1>2, <1>3, <1>4, <1>5, <1>6, <1>7, <1>8, <1>9, <1>10, <1>11, <1>12
  DEF Next, RunnerStep

\* It holds in every reachable state.
LEMMA InvariantIInv == Spec => []IInv
  BY InitIInv, StepIInv, PTL DEF Spec

------------------------------------------------------------------------------
\* Every variable of the flusher stays in its range.
THEOREM TypeCorrect == Spec => []TypeOK
  BY InvariantIInv, PTL DEF IInv

\* No interleaving of set(), the immediate, the runner and flush() ever enters
\* startRunner with nothing pending (root-cache.ts:101-111).
THEOREM NeverSettled == Spec => []RunnerNeverSettled
<1>1. IInv => RunnerNeverSettled
  BY DEF IInv, Ownership, RunnerNeverSettled
<1> QED
  BY <1>1, InvariantIInv, PTL

\* The comment at root-cache.ts:69 holds of the code.
THEOREM OneOwner == Spec => []AtMostOneOwner
<1>1. IInv => AtMostOneOwner
  BY DEF IInv, Ownership, AtMostOneOwner
<1> QED
  BY <1>1, InvariantIInv, PTL

\* Unless the last disk write failed, an unsaved document always has somebody
\* to save it, whatever failed before.
THEOREM NothingIsForgotten == Spec => []NothingForgotten
  BY InvariantIInv, PTL DEF IInv

\* Unless the last disk write failed, flush() has kept its contract
\* (root-cache.ts:36), also for those who returned from a write that failed.
THEOREM FlushContract == Spec => []FlushedMeansDurable
<1>1. IInv => FlushedMeansDurable
  BY DEF IInv, FlushersServed, FlushedMeansDurable
<1> QED
  BY <1>1, InvariantIInv, PTL

\* "The next successful flush will bring disk into sync" (root-cache.ts:80-82):
\* the runner stops after a write that succeeded only with the file level with
\* memory.
THEOREM SuccessSyncs == Spec => SuccessfulFlushSyncs
<1>1. IInv /\ [Next]_vars => [RunnerEnds /\ ~failed => disk = mem]_vars
  BY DEF IInv, NothingForgotten, RunnerWillWrite, RunnerEnds
<1> QED
  BY <1>1, InvariantIInv, PTL DEF Spec, SuccessfulFlushSyncs

------------------------------------------------------------------------------
\* Initial states and steps of the flusher are those of a write-behind
\* register, failures and process deaths included.
LEMMA StepRefines == IInv /\ [Next]_vars => [Abstract!Next]_(Abstract!wvars)
<1> SUFFICES ASSUME IInv, [Next]_vars
             PROVE  [Abstract!Next]_(Abstract!wvars)
  OBVIOUS
<1> USE BoundsAssumption DEF Abstract!Next, Abstract!wvars
<1>1. ASSUME NEW emptyPath \in BOOLEAN, WriterSet(emptyPath)
      PROVE  Abstract!Write
  BY <1>1 DEF WriterSet, Abstract!Write, IInv, TypeOK, Ownership
<1>2. CASE Rename
  BY <1>2 DEF Rename, Abstract!Persist, IInv, TypeOK, Ordered
<1>3. CASE Crash
  BY <1>3 DEF Crash, Abstract!Restart
<1>4. CASE WriterTake \/ TimerFires \/ FlushTake \/ StageTmp \/ RunnerLoops
           \/ RunnerEnds \/ FlushFails \/ UNCHANGED vars
  BY <1>4 DEF WriterTake, TimerFires, FlushTake, StageTmp, RunnerLoops,
              RunnerEnds, FlushFails, vars
<1>5. ASSUME NEW f \in Flushers, FlushCall(f)
      PROVE  UNCHANGED <<issued, mem, disk>>
  BY <1>5 DEF FlushCall
<1> QED
  BY <1>1, <1>2, <1>3, <1>4, <1>5 DEF Next, RunnerStep

\* The file only moves forward through whole documents memory has held, and a
\* process death loses just the writes that had not reached it.
THEOREM FlusherImplementsWriteBehind == Spec => RefinesWriteBehind
<1>1. Init => Abstract!Init
  BY DEF Init, Abstract!Init
<1> QED
  BY <1>1, StepRefines, InvariantIInv, PTL
  DEF Spec, RefinesWriteBehind, Abstract!Spec
==============================================================================
