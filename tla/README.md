# Zenbu in TLA+

A verification project for the [zenbu](../src) repository: TLA+ models of the
parts of it whose behaviour depends on who does what when, TLC runs over small
instances of them, and TLAPS proofs about them for every size.

Zenbu is an Electron application that drives coding agents. A main process
runs *services* (hot-reloadable, with dependencies), keeps all application
state in *kyju*, a replicated document database on files, and starts *agent*
processes that speak the agent client protocol. Renderer windows hold replicas
of the database behind a websocket.

## 1. Inventory

The state each part keeps, what changes it, what is hard about it, and what
has to hold. `K` is `src/packages/kyju/src/v2`.

| part | state | operations | hard | must hold |
|---|---|---|---|---|
| root cache and flusher (`K/db/root-cache.ts`, `writeJsonFile` in `K/db/helpers.ts`) | the root in memory, `pending`, an armed `setImmediate`, the `runner` promise, `root.json` | `set`, the immediate, the runner's loop, `flush` | a write between two disk writes; several callers of `flush`; a failing disk; process death | no write is forgotten; `flush` means on disk; the file is always a whole document |
| root replication (`K/db/handlers`, `K/replica`, `K/transport.ts`) | sessions, the replica's `ClientState`, awaited acks, messages on the wire, waiters of `rootMutex` | connect, disconnect, `root.set`, reconnect, a lost connection | optimistic writes crossing broadcasts; sessions changing while a write is queued | the ends agree on the session; readers and sole writers follow; requests are answered |
| collection replication (same files) | pages per collection, subscriptions, the replica's copies, waiters of `collectionMutex` | subscribe, unsubscribe, concat, read, delete | snapshot against broadcast; page boundaries decided twice; own calls overlapping | a subscriber shows every item, once, in order |
| collection files (`createCollection`, concat in `write.ts`) | an index and pages of lines, each in files of their own | create, append, new page | several files, no transaction, process death | acked items survive; the index never runs ahead of the pages |
| blobs | a file and an index per blob | create, set, read, delete | as collections, with one value | as collections |
| client proxies (`K/client`) | subscriber counts, subscribe promises | `subscribeData`, updates | counts over reconnects | one subscription per collection with subscribers |
| migrations (`K/core-plugins`) | a version per section in the root | run the missing steps at start | death half-way | each step's effect exactly once |
| db service (`init/src/main/services/db.ts`) | websocket listeners, the router's routes | client connects, hot reload | a reload with clients attached | one delivery per message |
| agent session (`agent/src/agent.ts`, `client.ts`) | `initializing/ready/prompting/error/closed`, `initLatch`, a queue of prompts, the process | send, interrupt, restart, change of directory, close | every call may arrive between two awaits of another | no prompt is lost or sent twice; no process leaks; nothing but a restart ends `closed` |
| agent terminals (`agent/src/terminal.ts`) | child processes, their output, lifetime and escalation timers | create, output, kill, wait_for_exit, release, releaseAll | create racing releaseAll; timers replaced by others; a child that ignores SIGTERM | every child has something that ends it; whoever waits is answered; the output kept is the tail |
| agent service (`services/agent.ts`) | table of agent processes, the turns to continue | ensureProcess, send, reload, cleanup and evaluate | the same agent started twice; a hot reload in the middle of a turn | one process per agent; a turn that was cut off goes on, once |
| service runtime (`init/src/main/runtime.ts`) | definitions, slots, dependents, the dirty set | register, unregister, reconcile, reloadAll, shutdown | changes during a reconcile's awaits; cycles; a failing service | a service runs only on running dependencies, with its newest class; teardown in reverse order; no setup without an instance |
| reloader (`services/reloader.ts`) | Vite servers | create, remove | create racing itself | one server per renderer |
| zenrpc | pending requests, event subscriptions | call, reply, disconnect | replies that never come | every call settles |
| windows, shortcuts, registry, installer, git updates, file scanner, insert, kernel updater | in the root, in files, in Electron | commands | partial failure | mostly sequential |
| dynohot, advice, codex and claude bridges | module graphs, wrappers, turns | hot update, translation | graph algorithms; cancellation | - |
| renderer, cli, lint, ui, diffs, git wrappers, zen tool, update server | - | - | none of their own | - |

The parts talk as follows. A client call goes through the replica, which
changes its own state, sends a message and awaits the ack; the database
handles a message as an Effect fiber that runs until its first real wait (a
semaphore or a file); the router hands its answers to the connection of the
replica. The root cache shares `rootMutex` with the handlers. The agent
service, the registry and the windows are clients of the database.

## 2. Plan

In this order, most important first.

1. `KyjuRootCache` with its abstract specification `WriteBehind` - done, proved.
2. `KyjuRoot` - done; type correctness and all its safety properties are
   proved: session agreement, the order of a sole writer's writes, what readers
   and the sole writer show.
3. `KyjuCollection` - done; type correctness and its safety properties are
   proved.
4. `KyjuCollectionStore` with its abstract specification `AppendLog` - done;
   type correctness, all its safety properties and the refinement are proved.
5. `AgentSession` - done; type correctness and all its safety properties are
   proved.
6. `AgentTerminals` - done; type correctness and all its safety properties are
   proved.
7. `ServiceRuntime` - done; type correctness and its safety properties are
   proved.
8. `AgentService`, which puts one agent's calls, the agent and the runtime's
   treatment of a service together - done; type correctness and its safety
   properties are proved.

Every safety property that a run checks is proved; liveness is model-checked.

Of the rest of the table, the wiring of the database service to its websockets
and the subscriber counts of the client proxies are what a further module would
be worth for.

## 3. Modules

### `KyjuRootCache` (`K/db/root-cache.ts`, `writeJsonFile`)

| variable | code |
|---|---|
| `mem`, `issued` | `cached`, abstracted to the number of the write that produced it; how many writes there were |
| `disk` | `root.json`: a write's number, or `Torn` |
| `pending`, `timer` | `pending`, `scheduledTimer` |
| `runner` | where the async loop of `startRunner` is: before the mutex, writing the temporary file, renaming it, about to test `pending` |
| `cap` | the object `doFlush` captured, and whether it still is the cached one: a write at a path mutates it in place, a write at the empty path replaces it |
| `staged` | what `JSON.stringify` produced once the mutex was held |
| `mutex` | `rootMutex` |
| `flusher` | fibers in `flush()`, with what memory held when they called |
| `failed` | history: the last disk write of this process failed |

`WriterTake` and `WriterSet` are the critical section of `root.set`;
`TimerFires` the `setImmediate`; `FlushTake`, `StageTmp`, `Rename`,
`FlushFails`, `RunnerLoops`, `RunnerEnds` the runner between two awaits;
`FlushCall` is `flush()`; `Crash` a process death and the next start.
`startRunner` is modelled with the assignment trap it could fall into: an
async loop that ends before its promise is assigned would leave a settled
promise in `runner`. `WriteBehind` is what the cache promises: memory moves
forward, the file lags behind it through whole documents and never goes back.

### `KyjuRoot` (`K/db/handlers`, `K/replica`, `K/transport.ts`)

| variable | code |
|---|---|
| `root`, `sessions` | what the root cache answers; `sessionsRef` |
| `locked`, `queue` | the flusher holds `rootMutex`; the validated writes waiting for it |
| `state` | each replica's `ClientState` |
| `awaiting`, `requests` | the awaiter's entries; the counter that names requests and sessions (nanoids in the code) |
| `up`, `down`, `open` | the two directions of each websocket, and whether it is open |

`Connect`, `Disconnect`, `Write` are `replica.postMessage` up to the first
await; `ReceiveAck`, `ReceiveReconnectAck`, `ReceiveReplicated`,
`ReceiveReconnect` what a delivered message sets off, including the rest of the
fiber its ack resolves; `DbConnect`, `DbDisconnect`, `DbWrite` are the
handlers, `DbGrant` a write that obtains the mutex late, `FlushTakes` and
`FlushReturns` the one thing this module sees of `KyjuRootCache`,
`ReconnectClients` the broadcast and `Close` the loss of a connection, which
delivers some prefix of what was on its way up and nothing more down.

### `KyjuCollection` (same directories)

| variable | code |
|---|---|
| `store` | the collection's directory, there or not at first: how often it was created, and its pages |
| `subscribed` | the sessions' `subscriptions` |
| `queue`, `phase` | jobs of `collectionMutex`, the first of them in progress |
| `coll` | each replica's entry in `state.collections` |
| `wants` | whether the client has subscribers (`K/client`) |

The client's calls are `Subscribe`, `Unsubscribe`, `Concat`, `Read`, `Delete`;
`Receive` is every message and ack at the replica (`Deliver`), with
`concatToCollection`, the page merge and the page sizes written as the code
does them: a full last page is continued under an id of the replica's own.
`DbEnqueue` is any handler up to the mutex, `DbUnsubscribe` the one that does
not take it; the `Db...` jobs are the handlers inside it, the two waits of
`handleSubscribe` being two steps.

### `KyjuCollectionStore` (`K/db/handlers/write.ts`, `read.ts`, `subscribe.ts`, `createCollection`)

| variable | code |
|---|---|
| `dir`, `index`, `pages`, `born` | the collection's directory; its index file; its pages, each a directory with an index (`order`) and a file of entries that may be `cut` in a line |
| `pc`, `at`, `known` | where each handler is, the page it makes or appends to, the index it read |
| `holder` | the fiber with `collectionMutex` |
| `acked`, `starts`, `answer` | history: acknowledged batches, the `startIndex` broadcast for each, what readers were answered |
| `torn`, `halfMade`, `crashes` | history: what deaths, and a creation without the mutex, have damaged |

A step is one file operation others can see the effect of. `Create...` are the
three writes of `createCollection`, `Concat...` those of a concat up to the
broadcast, `Read...` a read or the reading half of a subscribe, `Delete...` the
removal of the directory, which may be seen half-done, `Crash` a process death
that may cut an append. A handler that misses a file ends (`Fail`): its error is
logged and nobody is answered. `AppendLog` is what the files promise: entries
are only added at the end, what was acknowledged stays, in the order it was
acknowledged, until a deletion.

### `AgentSession` (`packages/agent/src/agent.ts`)

| variable | code |
|---|---|
| `kind`, `session` | `this.state` |
| `latch`, `resolved`, `waits` | `this.initLatch`, by number; the latches resolved; the one a latched send awaits |
| `queue` | `this.queue`, a prompt an entry |
| `client`, `alive`, `spawned` | the process behind `this.client`; the processes that live; how many there were |
| `subscribed` | `this._unsubEventLog` is set: permission responses are listened for |
| `pc`, `turn` | where each async call is; the prompts, session and process a turn was begun with |
| `preambleFired`, `pending` | `firstPromptSentAt`; processes with a permission request unanswered |
| `outcome`, `delivered`, `fails` | history: how sends ended, what was handed to processes, and how often a live one failed or refused |

A fiber is a call of `send`, an `_initSession`, a `_restart` or the `close`; a
step is the code between two awaits. Two constants open behaviours up. With
`Overlap` a restart or a close may begin while another fiber is between two
awaits of its own; without it they find the agent at rest, its process perhaps
in the middle of a turn. A restart looks at no state, here as in `_restart`: it
also starts an agent that was closed. With `Late` a process that was killed may
still answer a call it had received.

### `AgentTerminals` (`packages/agent/src/terminal.ts`)

`stage` is a `create` that awaits the user's PATH, `terminals` the manager's
table; `proc`, `signals` and `exitStatus` the child and what is known of it;
`lifetime` and `killer` the two timers, and `strays` the kill timers whose
handle a later one replaced and which fire all the same; `waiting` the calls of
`wait_for_exit`; `output` and `truncated` the text kept, as widths of
characters, and `printed` all there was. `Dying` and `Exits` stand for the
operating system. Timers fire in any order.

### `ServiceRuntime` (`packages/init/src/main/runtime.ts`)

| variable | code |
|---|---|
| `defs`, `prunes` | `definitions`, with `registrationTokens`; the callbacks given to `hot.prune` |
| `slots`, `made` | `slots`: the object, its instance and status; numbers for new ones |
| `dirty`, `batch`, `jobs` | `dirtyKeys`; the batch `draining` stands for, its levels and the one it is at; what that level does for each key |
| `tears` | calls of `unregister` that await a cleanup |
| `live`, `wired`, `ran` | instances whose setups are in force, the instances in their `ctx`, the class they were evaluated with |
| `drainError`, `stop` | `drainError`; how far `shutdown` is |

`StartBatch` is the head of `reconcileBatch`, with `Affected` and `Levels` as
recursive functions over the dependency graph; `Cleaned` and `LevelCleaned` its
first phase, `Skip`, `Block`, `Prepare`, `Evaluate`, `Evaluated`,
`EvaluateThrows` the pieces of `reconcileKey` between awaits; `BatchDone` and
`BatchThrew` the end of a batch. `Register`, `Unregister`, `Unregistered`,
`ReloadAll` and the `Shutdown` steps are the public methods. With `Overlap` a
prune may meet work under way on its own key.

### `AgentService` (`packages/init/src/main/services/agent.ts`)

| variable | code |
|---|---|
| `instance`, `processes` | which instance of the service the runtime has made; the table of each |
| `pendingContinues`, `todo`, `closing` | the field; what the cleanup "agent-cleanup" has still to close, and the entry whose `close()` it awaits |
| `objects` | the Agent objects: their state, whether the process runs, the queue (as a number), and how far `_initSession` is, whose end resolves the latch |
| `phase` | what the runtime does with the service: its cleanup, then `evaluate()`, or the loss of the instance when a dependency is not ready |
| `pc`, `held` | where each `send`, `reload` and auto-continue is; the Agent object it goes on with and the instance it began in |
| `cut`, `outcome` | history: the agents whose state was "prompting" when a cleanup closed them; how auto-continues ended |

`EnsureProcess`, `Created`, `CreateFails` are `ensureProcess` around its await.
`AgentSend` is the head of `Agent.send`, `LatchOver` what follows its latch,
`TurnEnds` and `TurnFails` the answer and the rejection of a prompt, and
`FlushQueue` the flush, once, after a turn that did not come through the latch.
`Initialized`, `InitFlushes`, `InitOver` and `InitFails` are `_initSession` with
a flush of its own. `HotReload`, `CloseNext`, `EntryClosed`, `CleanupEnds`,
`Shutdown`, `StopNext` and `Stopped` are the cleanup, `Evaluate` is `evaluate()`
and `Block` the runtime's. A process that was killed answers or rejects at most
`MaxLates` times, and need not. With `Overlap` two parties may be writing one
agent's entry at the same time.

The `MC...` modules bind replicas, paths, calls and shapes. `..._Name`
operators next to an action are that action with one plausible bug; no
specification uses them, they are there to show which property notices.

## 4. Runs

Every bound is a constant tested in a guard. Where the bounds bring every
behaviour to rest the configurations switch the deadlock check off;
`KyjuRootCache` never rests, because `flush()` may always be called, and keeps
it on.

| run | question | bounds |
|---|---|---|
| `RootCache` | does any interleaving of writers, immediate, runner, two `flush()` callers, failing disk and process death lose track of an unsaved document; does `flush()` return and, without a failed write, mean on disk; does every write reach a disk that works; is the file a write-behind register | 4 writes, 2 failures, 1 death |
| `RootSafety` | do the ends agree on the session, is a reader ever left behind, are a sole writer's writes taken in order | one writer, one reader, 3 writes, 2 requests each, 1 reconnect, 1 lost connection |
| `RootSettles` | does a sole writer keep its optimistic value and end level; is everybody level for good in the end; is every request answered | 2 replicas, each the writer of a path, 2 writes, 3 requests each, 1 lost connection |
| `RootConcurrent` | violated: concurrent writers converge | 2 writers of one path, 1 write each |
| `CollectionReaders` | does a reader whose own calls overlap show the database's items and `totalCount`, over full pages, reads of page ranges, deletion and re-creation, and only ever append | pages of 2, batches of 0 and 2, 2 concats, 2 calls, a read and a deletion; reads and pages that fill not both (`PagesFit`) |
| `CollectionSettles` | do two writers whose calls do not overlap miss nothing; does everything settle | pages of 2, batches of 1 and 2, 3 concats, 3 calls |
| `CollectionStore` | do the files implement the log; does the index never promise more than there is; does every reader get everything; does every concat end | 3 concats, a creation, a reader, a deletion, pages of 2, 1 death |
| `AgentSession` | is any prompt lost or duplicated, do turns overlap, share the preamble or go to a foreign session, is any process left behind; does prompting always mean a turn, and closed until a restart; does `send` end | 3 sends, 1 restart, a close, 1 failure; no overlap, no late answers |
| `AgentClosed` | violated: closed is final | 3 sends, a close that may come between two awaits |
| `AgentTerminals` | does everything that runs have something to end it; are waiters answered; is the output the tail | an obedient process that prints and a stubborn one, 1 kill, 2 chunks, 1 restart, the close |
| `ServiceRuntime` | at rest, do the right services run, each up to date; is any setup orphaned; are dependents cleaned first; does a drain end | 3 keys that can form a cycle, 4 registrations or reloads, 1 prune, 1 evaluation that throws |
| `AgentService` | one process per agent; nothing left after a shutdown; are turns cut off by a hot reload continued, and only those, and does the new process get them; does `send` end | 1 agent, 2 calls (2 sends, or one and a reload), 1 hot reload, 1 failure, 1 late answer |

Why these bounds are enough for what they are to show. The flusher needs one
write before the timer, one during a disk write and one after it; a fourth
leaves room for the second failure. Two callers of `flush()` are two parties
that may find the runner in different places; a third would be in the place of
one of them. In `KyjuRoot` a session can go wrong through two disconnects in
flight (a client's and the one of "reconnect"), which takes two requests and a
reconnect; a write that waits, one that overtakes and one that is overtaken make
three writes. A collection needs a page that fills, a batch that goes over the
boundary, and three subscribe or unsubscribe calls to be subscribed twice with
an unsubscribe between. Its files need a concat that fills a page, a second that
makes the next, and a third after the death. A session needs a send that
prompts, one that queues and one that waits at a latch, around one restart. A
terminal's timers are two and their handles one each; two kills (one asked for,
one by the lifetime) make a stray. The runtime needs a chain of three, one class
to replace, one to prune and one change that meets the batch of another. Entries
of different agents do not touch one another, so one agent is enough for the
service; two calls and the continuation of a cut turn are three that can meet at
one latch or queue behind one another. The proofs below remove the bounds where
they apply.

Coverage of the hazards: `hazards` in `PROJECT.json` lists them by source line
with the properties that guard each; those without a property say why.

## 5. Fairness

`KyjuRootCache`: the event loop runs an armed immediate, file operations end,
a resolved promise resumes its awaiter, a granted critical section ends: weak
fairness of those steps. The runner competes with writers for `rootMutex`, an
Effect semaphore that serves its waiters in turn; hence strong fairness of
`FlushTake` and nothing stronger. Writers, callers, failures and deaths are
not fair.

`KyjuRoot`: a message in an open channel is delivered (weak, `Receive`). The
database handles what has arrived unless woken fibers go first, and a waiting
write competes with the flusher, which takes and returns the mutex any number
of times; both are enabled again and again and get their turn: strong fairness
of `DbHandle` and `DbGrant`, by the semaphore's order and the event loop's. A
flush ends (weak). Nothing obliges clients to call, connections to close or
clients to be told to reconnect.

`KyjuCollection`: as above, with weak fairness of the running job and of
`DbGrant`: the head of the queue has the mutex to itself until it is done.

`KyjuCollectionStore`: every file operation ends, and the semaphore lets every
waiter through: weak fairness of each concat (nothing holds the mutex for
ever), of what follows a creation, and of the end of a read or deletion.

`AgentSession`: the event loop runs what is due, the database acknowledges, a
spawn that does not fail returns, and a process that lives and waits for no
permission answers. A killed process owes nothing, callers need not call, and
users need not answer.

`AgentTerminals`: events are emitted, timers fire, and a signal that ends a
process does so; no process need end of itself.

`ServiceRuntime`: the event loop runs what is due and the services' own
cleanups and evaluations end: the runtime awaits them without a timeout, so it
can promise no more than that.

`AgentService`: calls and cleanups go on, a process that runs answers what it
was asked, and the runtime evaluates a service that it has cleaned up. A killed
process owes nothing, and nothing obliges it to reject either.

## 6. What disagrees with the documentation

Two runs expect a violation; each is listed under `findings` with the line it
contradicts.

- `RootConcurrent`: two concurrent `root.set` on one path leave the writers on
  each other's value: each applied its own first and is left out of its
  broadcast. Spec and test say they converge.
- `AgentClosed`: a close that meets `_initSession` between two awaits is undone.

The following behaviours of the models are at odds with the documentation too
and have no run of their own; the constants that keep them out of the other
runs are named.

- `flush()` returns after a failed disk write with the file stale, although
  `root-cache.ts:36` says it blocks until the current state is on disk, and
  nothing is tried again before the next `set()`. `FlushedMeansDurable` is stated
  for when the last write did not fail (`failed`); that the next one that
  succeeds makes everything good is `SuccessfulFlushSyncs`.
- A restart of a closed agent (`changeCwd`, `changeStartCommand`, `agent.ts:1004`,
  `1010`) starts it again: `_restart` (`agent.ts:746`) does not look at the state.
  Nothing overlaps in this; `ClosedUntilRestarted` says that it is the only way.
- A write that waits for `rootMutex` while its replica reconnects is broadcast
  to the replica's own new session and overwrites its newer value
  (`EventuallyConsistent` is checked without reconnects, `MaxReconnects`, and
  `SoleWriterKeepsUp` is proved for none; with one reconnect and three writes
  TLC shows the overwritten value). `reconnectClients` is called by a test only,
  `packages/kyju/test/replica.test.ts:132`.
- A subscribe without `pageIds` is answered with every page of the collection,
  in their order (`subscribe.ts:70`–`131`); `spec.md:128` says that the last page
  is returned. The model answers as the code does, and `SubscribersFollow`,
  `NothingMissed` and `EventuallyFollows` say that a subscriber shows every item
  over all pages: by the specification it would show those of the last page and
  read the others. `ReadersAppendOnly` does not depend on it.
- A client's concat during its own subscribe is stored and never shown, its
  items being overwritten by the pages of the answer (`Overlapping`).
- After a page has filled, `collection.read` shows the new page's items twice,
  because the replica gave that page an id of its own (`PagesFit`).
- A delete that is refused, because the root refers to the collection, leaves
  the client that made it subscribed, with a copy that is empty until the next
  subscribe (`Referenced`).
- Two writers of a collection may show its items in different orders, each its
  own first. An unsubscribe, which takes no mutex, overtakes a subscribe of the
  same client that still waits and leaves it subscribed. A concat that was on
  its way re-creates a collection that has been deleted. A read answered before
  the client's own concat was handled takes that concat back from its copy
  (`Writers`, `MaxDeletes`, `Overlapping`).
- `collection.create` takes no mutex: a concat or a subscribe that meets it
  finds a directory without an index, fails, and its caller is not answered; a
  deletion that meets it leaves it failing (`Overlapping`, recorded in
  `halfMade`; the properties say where they except it).
- A torn last line of a page, which a death can leave, makes every later read
  and subscribe of the collection fail without an answer; so does a page
  without its index. Concats go on.

And these, which no document speaks about, are what the properties of the agent
modules leave room for. Of several sends that wait at one latch the first
prompts and the others return without having sent or queued anything (outcome
`dropped` in `NothingLost`). What is queued during the turn of a latched send,
or of a flush, stays in the queue until a later send's turn ends. A prompt that
is rejected by a live process leaves the agent at prompting, so that later sends
queue behind no turn until a restart (`fails` in `PromptingHasTurn`); a hot
reload of the service takes it for an agent in a turn, and continues it (`cut`
in `AgentService`). A continuation that meets another call of the same agent may
be queued behind its turn and stay there, or be dropped at the latch
(`CutTurnsContinue`). The prompt of a process that was killed need not be
answered at all (`client.ts:240` kills it and does not reject what it owes), and
then its `send()` does not return (`Held` in `AgentSession`, `Killed` in
`AgentService`); if the process still answers, the end of the turn sets ready
with the old session, also in an agent that a restart is starting or a close has
closed (`Late`). A restart replaces the latch; a send that waits at the old one
resumes only if the old initialisation still ends. A restart or a close that
begins while the process of another restart is being spawned leaves that process
running (`Overlap`), and a restart that meets a turn in preparation can send the
preamble twice. A release cancels the SIGKILL that was to follow its SIGTERM, so
a child that ignores SIGTERM runs on (the exception of `EverythingEnds`); a
terminal whose creation was under way while the agent closed has only its
lifetime timer. A second call that finds an agent without a process while the
first is creating one creates another (`Overlap` in `AgentService`). When a
dependency of the agent service is not ready after its hot reload, its instance
goes, and with it the table of the processes that were kept alive and the turns
that were to be continued. A service pruned while it is being evaluated goes on
evaluating, and the setups it makes are cleaned up by nobody (`Overlap` in
`ServiceRuntime`), where `docs/objs/create-service.md:104` says that what goes
through `this.effect()` is cleaned up on re-evaluation and shutdown.

## 7. What is proved

TLAPS proves the following for every value of the constants, that is for any
number of replicas, paths, `flush()` callers and writers and for all bounds.
The assumptions are those of the modules: the bounds are natural numbers,
`Writers` is a set of pairs of a replica and a path (of a collection: a set of
replicas), a page has room for an item, the services are finitely many and each
class names services as its dependencies, a chunk is a sequence of characters of
one to four bytes, a batch is a sequence of entries and that of a concat to the
files is not empty.

**`KyjuRootCacheProofs`.** One inductive invariant `IInv` carries everything:
`Ordered` (the file is never ahead of memory, nor of what the runner holds),
`Ownership` (a timer stands beside a pending mark and no runner; a pending mark
has one of the two; the flush has the mutex exactly during its file
operations), `StaleIsPending` (a runner that holds something older than memory
works beside a pending mark), `NothingForgotten` and `FlushersServed`. None of
the properties is inductive alone: that a `flush()` means on disk needs that
the runner's document is the newest or is pending, which needs who is in
charge. From it follow `TypeCorrect`, `NeverSettled`, `OneOwner`,
`NothingIsForgotten`, `FlushContract` (unless the last disk write
failed), `SuccessSyncs`, and `FlusherImplementsWriteBehind`: every step is a
write, a persist or a restart of `WriteBehind`, or a stutter. `SuccessSyncs` says
of any history of failures that, whenever the runner ends after a disk write that
succeeded, the file holds what memory holds.

**`KyjuRootProofs`.** `TypeCorrect`: the typing of the channels is the work,
each message is shown to be one of the protocol's records, and no handler
takes the head of an empty channel. `TInv` adds that the sessions are finitely
many, without which a broadcast would have no length.

`SessionsStayAgreed`: the ends agree on the session of every open connection.
`SessionsAgree` speaks of what is on its way to the replica; it is preserved
because of what is on its way to the database at the same time. `SInv` says it
per replica: in a session, no connect is under way, every disconnect under way
is of this session, at most one ack ends it, and the database knows the session
until that ack is sent; between sessions a connect is awaited and the last
thing sent, and at most one answer begins a session. A second disconnect is the
interesting case: it finds no session, is refused and must not end the next one.

`SoleWritesInOrder`: on a path with one writer the database never goes back.
`OInv` says that the writes of the path rise along the writer's channel, then
the queue of `rootMutex`, and are above the root; a write that arrives while
others wait goes behind them even if the mutex has just become free, which is
where the guard of `Arrives` is used.

`ReadersNeverLeftBehind`: a replica that does not write
a path shows there, once its messages are in, what the database holds, with any
number of writers, sessions that begin and end meanwhile, and writes that wait.
`Settled` is a fold over the messages on their way; the lemmas about it say
what a message appended or delivered does to the fold, by induction over the
length of the channel. `FInv` then needs only that every session the database
knows is level with the root, and that what waits comes from its writers
(`Mine`).

`SoleWriterKeepsUp`: the only writer of a path shows there the last of its
writes that the database has yet to apply, and the database's value when there
is none. It is proved under `MaxReconnects = 0`: with a reconnect it is false,
as section 6 says. Its `WInv` says that channels hold plain traffic (`Plain`),
that a write made in a session has its place on the way to the database in
order, its ack included (`Path`, `OnTheirWay`), that no broadcast echoes a
write to its writer (`NoEcho`), and that what the replica will show is the last
of what is to come (`Shown`).

**`KyjuCollectionProofs`.** What a copy becomes as its messages are delivered is
a recursive function (`Course`); lemmas say what one message more, or one
delivered, does to it, by induction over the channel.

- `TypeCorrect`, with `Control`: a job that has the mutex is in the queue, pages
  are read only for a subscribe and while the collection is there, whoever is
  subscribed is subscribed to something, and only writers concat.
- `ReplicasFollow`: for any replicas, writers, page size, deletions, reads and
  overlapping calls. `SubscribersFollow` is nearly inductive: `Current` adds
  that, while there is one page, the copy to come is that page to the id and
  size, which is what a read that replaces it needs. A broadcast concat followed
  by the new size of its page brings such a copy up to date even when the copy
  decided otherwise than the database where the page ends.
- `ReadersOnlyAppend`: an action property, for which it is not enough to know
  where a copy ends up. `Smooth` says it of every state the copy will go through
  as its messages come: each shows a beginning of the log (`Near`) and shows no
  less than the one before while the entry is held (`Grows`).
- `NoneMissed`: writers too. Bags are compared by how often each item occurs, so
  that the order in which optimistic and broadcast concats meet does not matter.
  The invariant `NInv` weighs, for each subscribed replica that is not being
  answered and has not deleted its copy, what it will show against the log plus
  its own concats in the queue and on their way (`Weigh`). `Catches` names the
  answer after which nothing comes but broadcasts whose start the copy has
  reached, so that a concat made meanwhile stays in it; and `InOrder` says that no
  concat of a replica is behind its own subscribe, so that the pages of the
  answer hold all of them. The hypothesis `Orderly` excludes what section 6 says
  goes wrong: calls during one's own subscribe, reads of pages, which may take an
  own concat back, and the refusal of a delete (the root refers to the
  collection), after which the deleter stays subscribed with an empty copy.

**`KyjuCollectionStoreProofs`.** `TypeCorrect`, `IndexAlwaysAgrees`,
`ReadsAnswerEverything` and `ImplementsTheLog`: for any concats, readers and
batches, any page size and any number of deaths, between any two file
operations. The invariant has five layers, each proved from those before it.

- `Control`: who may be at which step (`Roles`), that whoever runs has the mutex,
  but for `collection.create` (`Mutex`), that pages are made in the order of
  their numbers (`Numbered`) and that there is one left for whoever makes the
  next (`Room`, by counting the fibers that have made one and those that may have
  made two).
- `Sound`, while no creation ran beside another handler: what each handler under
  way finds in the files and has made of them so far (`Doing`), that nothing
  stands behind an active page with room (`TailEmpty`), and that a collection
  that was made is whole (`Healthy`).
- `Files`: the index counts what is there but for what the one handler under way
  has written and not yet counted (`Counting`); every page has its files but for
  the one being made (`AllMade`); no handler fails. `IndexAgrees` follows.
- `Kept`: what was acknowledged stands in the log, at its startIndex as long as
  no process has died; what a handler has written and not yet acknowledged ends
  the log.
- `Ordered`, as long as nothing was left half-made: page indexes rise in the order
  the pages were made, and are below the number of pages the index counts, but for
  that of the page being added (`InIndex`). So the pages in the order of their
  indexes, as a read takes them, are the pages in the order they were made.

`Effect` says what a step does to the log: nothing, a batch added at its end, one
acknowledged, or everything gone. `Kept` and the steps of `AppendLog` both
follow from it. `Contents` is a fold of a concatenation over all pages; that an
append to the last page that holds something is an append to the fold, and that
empty pages do not count, is proved by induction over the pages.

**`AgentSessionProofs`.** `PromptsReachAtMostOnce` and `AcceptedIsKept`: a
prompt is in one place, once, and an accepted one is somewhere, for any number
of sends, restarts and failures, with overlapping calls and late answers.
`AtMostOnce` is not inductive: it needs that a send which has not begun is
nowhere yet (`Fresh`), and a fiber that has ended carries nothing anybody still
moves. `Unborn` and `SpawnRoom` say that process numbers are given out in order
and suffice for all restarts. `NothingIsLeftBehind`, `OnlyARestartReopens` and
`PermissionsEnd` are about calls that find the agent at rest (`~Overlap`, and
`~Late` where a killed process could still speak); the assumption stands in the
theorem. Their invariant `Lifecycle` says which process is alive while a restart
is spawning the next, and `Final` what is over once the close has begun and no
restart has followed it. `AgentClosed` shows that the assumption is needed.
`TurnsAreWhole`: the process that lives has one turn at a time, in the session
that lives in it, and the preamble goes out once. `WInv` adds who has been made
and by whom (`Born`), that only the first turn of a client carries the preamble
(`FirstOnly`), where a session lives (`Homes`), and, while nothing overlaps and
nothing late was delivered, that at most one fiber is at work and it works with
the client (`OneAtWork`, `WithClient`). `PromptingMeansATurn`: under the same
assumption and while no live process has failed, a fiber is at work whenever the
state is prompting (`AtWork`), its turn being with the process that lives.

**`AgentTerminalsProofs`.** `NoProcessWithoutAnEnd`, `ReleasesTell`,
`TimersAreCleared`, `WaitersAreToldRight` and type correctness, for any number
of terminals, waiters and kills. The invariant adds that a terminal which has not
been spawned has no timer, signal or waiter (`Unborn`), and that a process that
runs has no exit status (`RunsUnknown`). `KeepsTheTail`: however the chunks come,
the output is the longest end of all that was printed that fits. The width of a
text is a fold; that widths add up (`BytesOfConcat`) is proved by unfolding it
to a function of the positions and by induction over them, and `TruncateCuts`
says what the cut leaves. The invariant `KeptFrom` names the character from
which on the output is kept: a chunk moves it forward or leaves it, never back.

**`AgentServiceProofs`.** `TypeCorrect`, `ProcessesStayInReach` and
`CutTurnsAreKept`, for any number of agents, sends, reloads and hot reloads.
`IInv` says that every instance lost was lost in a hot reload of its own
(`Counted`), that marks and lists of entries to close are there only during a
cleanup (`Tidy`), that a turn cut off is marked from the cut to its continuation
(`Marked`), and, for the first instance and without overlap (`Alone`), that one
party at a time changes an entry (`OneWriter`), that what it replaces or takes
out is dead (`Replaceable`), and so that every live process is the one its entry
names. That an agent object stays whose it is and that a killed process stays
killed (`Later`) is what the steps of its turns and of its initialisation
contribute.

**`ServiceRuntimeProofs`.** For any services, dependency graphs (cycles
included), classes, prunes and failures. `AffectedIs` says that the rounds of
`Affected` reach a set closed under dependents: each round closes the set or
adds to it, and there are as many rounds as services. `LevelsAre` says that no
key is in two levels, and that what a key depends on is below it if it is in a
level at all (the keys of a cycle are in none). Over these:

- `TypeCorrect`, from `CoreInv`: what phase a batch is in and what its jobs may
  be at (`LoopInv`), which instance belongs to which key (`InstInv`), with which
  class it was evaluated (`VersionInv`).
- `SetupsHaveOwners`: while prunes find their key at rest, each setup in force
  has a home, a slot or a cleanup that is on its way to it (`Calm`).
- `DependentsGoFirst`: `PhaseInv` says that in the first phase everything above
  the level under way is already cleaned (`Over`), and who was given an instance
  of a level is above it; `GivenInv`, that an instance was given nothing it did
  not ask for.
- `IdleMeansSettled`: `SettleInv` says of every key that is not due again
  (`Due`, the closure of the dirty keys and of those whose slots are about to
  go) that the batch under way will still evaluate it (`Awaiting`) or that it is
  as it should be (`Right`), and that what is under way has the newest class and
  current dependencies (`InHand`).

The library's induction theorems take an operator as a parameter, which the
installed provers cannot instantiate. `NatsIn`, at the head of each module that
needs it, states induction for a set of numbers, which they can, and is proved
from well-founded minima; `Iterated`, that a function applied any number of
times has an orbit, follows. What folds and recursive functions compute is
proved from these.

Some of these theorems say more than any run asks: that `runner` never holds a
settled promise and that timer and runner exclude each other (`NeverSettled`,
`OneOwner`), the three smaller ones on terminals, and type correctness.

Only model-checked: the liveness properties (`EventuallyDurable`,
`FlushReturns`, `EventuallyConsistent`, `Answered`, `EventuallyFollows`,
`ConcatsEnd`, `SendsReturn`, `EverythingEnds`, `WaitersAnswered`,
`WhenIdleReturns`, `WorkGoesOn`), which need fairness and are outside the
prover.

## 8. What is not modelled

- In `KyjuRoot`: the version check (both ends are built from one constant);
  overlapping paths, and with them the errors of `setAtPath`; a replica in the
  database's own process, which shares the root object with it; start-up and
  plugins; reads of the root, which are local.
- In `KyjuCollection`: several collections (they share nothing but the mutex),
  `collection.create` by a client and failing files (see
  `KyjuCollectionStore`), blobs, sessions that change (see `KyjuRoot`).
- In `KyjuCollectionStore`: the refusal to delete a collection the root refers
  to; temporary files; a disk that fails without a death.
- In `KyjuRootCache`: unlinking of leftovers and `fsync`; a rename is taken to
  be atomic and durable against a process death, not against a power cut.
- In `AgentSession`: `interrupt` and `setSessionConfigOption`, which change
  nothing the model keeps; handoff and initial context; the reconciliation of
  the process's options with the database.
- In `AgentTerminals`: grandchildren that hold the pipes of a process that has
  gone; chunks that end inside a character (each part of it is then decoded for
  itself).
- In `ServiceRuntime`: workspaces, tracing, the RPC router.
- In `AgentService`: titles, images, archiving; changes of directory or
  command, which are restarts of `AgentSession`.
- The other components of the table: because they have no protocol of their
  own, because a modelled part has their shape (blobs, the reloader), or
  because they come before or around what is modelled (migrations, the kernel,
  the websocket wiring of the database service, zenrpc, the bridges to other
  agents' protocols, hot module replacement). `components` in `PROJECT.json`
  gives the reason for each; the hazards known of them are listed with a note.
