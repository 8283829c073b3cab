# TLA+ models of self-grow-agent

self-grow-agent is one Python process (FastAPI, one event loop, the default thread
pool) that turns requirements into HTTP routes while it runs: an LLM or the Pi agent
generates a handler or a plugin, the service validates and publishes it, and dispatches
business requests to it in child processes. What can go wrong is mostly between steps:
several publications at once, a stop between two files or between a file and SQLite,
an exception after the point of no return, a thread that waits for another, a child
process that does not end. These modules say what the code does there, TLC checks it on
small instances, and TLAPS proves the safety properties for every size. All paths are
relative to `src/self_grow_agent/` unless they start with `src/`; README.md and
docs/ are the repository's.

## 1. Inventory

| component | source | state | operations | interacts with |
|---|---|---|---|---|
| Route runtime | runtime.py | `_records` in memory, `routes.json`, `<route>.v<N>.py` | create, update, move and their `_plugin` forms, `_commit_records`, `_restore` | called by the service (loop) and the publisher (threads); one lock |
| Requirement store | metadata.py | tables requirements, operations, events | 17 writing methods, one `BEGIN IMMEDIATE` each; `recover_interrupted` | called by handlers and tasks with `asyncio.to_thread` |
| Implementation tasks | api.py, service.py | local variables of `run_requirement_implementation` between its awaits | submit (create, move, retry, revise, implement), claim, generate, note, publish, finalize, fail; cancelled by a shutdown | store, runtime, generators, publisher |
| Plugin publication | plugin_runtime.py, plugin_workspace.py | workspaces, artifact directories `<project>/<route>/v<N>` | create, update, move, rollback, `_publish` with its finally clause | runtime, test runner; its thread waits for the loop |
| Dynamic dispatch | api.py | `handler_slots`, the pool | `dispatch_dynamic_route`, `release_handler_slot` | runtime (reads), executors |
| Startup recovery | api.py, metadata.py | none | compares receipts with the served routes | runtime, store |
| Generators with Pi | pi_generator.py, plugin_generator.py, pi_rpc.py | run slots, a process group, the reader of its event stream | generate: admission, run, deadline, clean-up | called by tasks, which may be cancelled |
| Handler executor | executor.py | one child and a pipe per call | execute, time out, reap | called by dispatch |
| Plugin executors | plugin_executor.py, plugin_worker.py | a child or a container per call, the worker's captured errors | execute, time out, kill, remove, drain; the worker's response | called by dispatch; the worker calls capabilities |
| Plugin test runner | plugin_test_runner.py | a process and an output file | poll with a time and a size limit, terminate | called by a publication |
| MySQL capability | capabilities/ | replicas, threads of a batch | STOP and START REPLICA with retries, batches of 16 | called by plugins in a worker |
| Pure parts | code_loader.py, plugin_validator.py, plugin_models.py, llm.py, src/config.py, ... | none | validation, parsing, one HTTP call | |

What makes each correct:

- **Route runtime**: whatever fails, the disk can be restored and holds what is served; a
  version-checked commit replaces only the route it was made for; a move is atomic; what
  was acknowledged is not lost.
- **Store**: one operation in progress per requirement; a receipt belongs to the claim it
  was noted under; events tell the history; a reported end is final.
- **Tasks**: what is reported finished was published, what is published is not reported
  failed, every claim and every operation ends, and no task ends another's claim.
- **Publication**: artifacts of activated versions are immutable; failed candidates leave
  nothing that blocks a later attempt.
- **Dispatch**: slots are neither lost nor returned early, and the pool cannot lock up.
- **Generators**: slots and processes are released on every path, a result comes only from a
  stream that was accepted and settled, and a generation always ends.
- **Executors and capability**: `ok` means that no error of a capability came up while the
  handler ran, a replica that is left stopped is one whose restart was abandoned in a way
  named in section 3, and a call that has been answered is over.

The hard behaviours, each at its line, are the `hazards` of `PROJECT.json`.

## 2. Modules

| module | models | next-state relation |
|---|---|---|
| `RouteTable` | what RouteRuntime promises: one table changed by compare-and-swap | Create, Update, Move |
| `RouteRegistry` | runtime.py: two critical sections per method, the commit split where a write can fail or the process can stop | Prepare..., BuildFails, Recheck, Conflict, WriteSource(Fails), WriteManifest(Fails), Activate, Crash, Restore |
| `RequirementLifecycle` | what RequirementStore promises those who read statuses: write, claim, settle; accept, begin, end | Write, Claim, Settle, Accept, Begin, End, Restart |
| `RequirementStore` | metadata.py: one action per writing method | any client, any method, any time |
| `ImplementationTask` | api.py and service.py: EXTENDS RequirementStore, whose actions are called as the handlers call them; `table` is the route table | requests, task steps, exceptions, Shutdown, Cancel, Late, Exit, Crash, Startup |
| `PluginPublication` | plugin_runtime.py and plugin_workspace.py | requests, `_publish` steps, exceptions with the finally clause, Crash, Restart |
| `DispatchPool` | the dispatcher, the tasks and the publications as users of one pool | threads, requests, tasks |
| `PiGeneration` | one generator: pi_generator.py or plugin_generator.py with pi_rpc.py | admission, events, deadline, cancellation, clean-up, the processes of Pi |
| `MysqlReplication` | capabilities/mysql_replication.py | uses of it by handlers: refusals, a message, its threads, the attempts of each, exceptions that pass |
| `PluginCall` | the three executors and the test runner, EXTENDS MysqlReplication with the worker that uses it | executor steps, worker steps |
| `...Proofs` | theorems about the module they are named for; `ImplementationInPlaceProofs` about ImplementationTask when no route moves, or when SQLite answers | |
| `MC...` | give the constants values for TLC | |

How they fit: `RouteRegistry` implements `RouteTable` (`ImplementsTable`, checked and
proved), so `ImplementationTask` and `PluginPublication` take a commit of RouteRuntime as
one step; and what they do with it is again what `RouteTable` allows (their own
`ImplementsTable`, checked and proved), so that nothing is committed there which the runtime
would refuse or lose. `ImplementationTask` takes a publication as one step with the outcomes
`PluginPublication` shows it to have: nothing happened, activated, or activated and raised;
and a generation as one step that succeeds or raises, which `PiGeneration` shows to end.
Its every step on the tables is a step of a client of `RequirementStore`
(`ServiceUsesStore`, proved), which implements `RequirementLifecycle`
(`ImplementsLifecycle`, checked and proved). `DispatchPool` takes an execution as one job
that ends, which `PluginCall` shows of each executor.

A definition marked "A variation" is not part of a specification: it is a plausible bug in
the definition after it, which `PROJECT.json` (`mutants`) puts in its place to see that the
properties notice.

Correspondence of state:

- `RouteRegistry`: `mem` is `_records`, `manifest` routes.json, `files` the source files,
  `phase`/`call` the locals of a call. The lock is held exactly in the phases of `InLock`.
  `origin`, `used`, `acked` are history: which route a record is a successor of, and what
  callers were told.
- `RequirementStore`: one function per table. A *target* is the receipt
  (`target_route_id`, `_version`, `_source_sha256`), a *link* is `route_id` and
  `route_version`. `event` keeps the newest event of each requirement.
- `ImplementationTask`: `task[t].pc` is the await a task is at; `service` is whether the
  process runs, is cancelling its tasks, or has stopped; `late` holds the threads that go on
  for a task that was cancelled while it waited for them. `committed`, `published` and `owner`
  are history.
- `RouteTable` as the others see it (`Records`): a publication of `ImplementationTask` is a
  record with one project, mode and origin, which do not matter to a task; one of
  `PluginPublication` has its project, the mode its digest tells, and no origin.
- `RequirementLifecycle`: the status columns of the two tables and the requirement of an
  operation (`Statuses`, `Reports`, `Subjects`).
- `PluginPublication`: `artifact` the directories, `running[t]` the locals of `_publish`;
  `served` and `tidy` are history.
- `DispatchPool`: `slots` is the semaphore, `queue`/`running`/`done` the executor.
- `PiGeneration`: `slots` is `_run_slots`, `reader` the locals of `_read_result`, `group` the
  processes of the group and `doomed` those that were sent SIGKILL; `seen` is history.
- `MysqlReplication`: a *use* is one call of the capability; `capability` is what it has told
  the handler, `onMain` the uses the main thread is in, `job` the thread of each instance
  with the attempts left. `captured` stands for the list of `capture_capability_errors`, and
  `captureOver` for its end, after which the constructor of CapabilityError records nothing.
  `stoppedBy` and `stopped` say what the servers executed; `account` is history: which
  instances a use still owes a restart, and which it has abandoned.
- `PluginCall`: `stage` is where `execute` is, `client`/`worker`/`child` the processes,
  `response` what the worker wrote, `answer` what `execute` returned or raised.

### Abstractions

- A route stands for its path, method and route id. Two paths share an id only when 64 bits
  of SHA-256 collide. Methods do not interact.
- A handler source or bundle is a *code* or *digest*. Two generations for the same route and
  version are taken to differ, unless `"collision"` is in `Faults`.
- A store method that raises changes nothing. That its answer can be lost after the commit
  (the reading back in `get_operation`) is a fault of `ImplementationTask` ("storage").
- A handler reads the route (synchronously, on the loop) before its first store write; a
  change in between has the same effect as one just after the write, so the reading and the
  write are one step. The three attempts of `finalize_requirement` are one step.
- In `ImplementationTask` a move's target is free at the commit, as `RouteRuntime.move`
  checks; that `move_plugin` does not is shown by `registry_move_plugin`. Moves to another
  project only are left out there.
- A cancellation reaches a task at the await where it is. A store call it waits for has
  either committed or not; the activation of a plugin and `move_route_links` go on in their
  threads (`late`), and the process waits for those before it ends (`Exit`).
- In `PluginPublication` the plugin's tests, the note of the receipt and `current.json` are
  part of the step after or before them: nothing another publication reads changes in them.
  The failure of each is an exception.
- In `DispatchPool` the store calls a task makes in a row are one job. Restricted handlers are
  published on the loop, without a thread.
- In `PiGeneration` an event is one unit of the stream's byte limit, and Pi may send any
  event at any time, fork, ignore every signal but SIGKILL, and exit. Handlers and plugins
  have a generator each, which share nothing: the module is either of them.
- In `MysqlReplication` a statement is executed by the server when it is sent or never, and
  its answer may be lost in both cases. A call of `rebuild_replication` is a message with one
  instance. A use that is over may stand for a new one, so that a handler uses the
  capability as often as it likes; the number of uses limits those at the same time. The
  handler catches what it is told, or does not, and goes on: only `ResponseTo` decides.
- Handlers may start threads (plugin_validator.py:12-34 does not forbid `threading` and
  `concurrent.futures`) and set signal handlers. So a use is on the main thread, which
  cannot return meanwhile (`MainIsFree`), or on a thread of the handler, which nothing waits
  for. `Escape` is every exception that ends a restart without a CapabilityError: the CPU
  limit or a signal in the main thread, a log handler that raises outside the `try`, a
  thread that cannot be started. `Interrupt` is a signal in the wait for the pool, and
  `FinishUse` has one that raises when all the threads have ended.
- In `PluginCall` the forwarding of log events is left out, and the child a plugin's library
  leaves stays in the group of the worker. The end of the capture and the response are one
  step: an error between them is recorded as little as a later one.

## 3. Runs

| run | configuration | result | what it shows |
|---|---|---|---|
| `registry` | MCRouteRegistry.cfg | passes, 169,535 states | runtime.py without move_plugin can always be restored, serves what it stored, loses nothing it acknowledged, and is a RouteTable |
| `registry_move_plugin` | MCMovePlugin.cfg | violated | move_plugin overwrites a route created meanwhile at its target |
| `store` | MCRequirementStore.cfg | passes, 67,802 states | the store keeps its promises, and its statuses the lifecycle, whatever its clients do |
| `implementation` | MCImplementationTask.cfg | passes, 151,455 states | with a moving task, a requirement linked to its route, and every fault but a locked database, nothing is finished that was not published, the routes change as RouteTable lets them, and claims and begun operations end |
| `implementation_in_place` | MCInPlace.cfg | passes, 562,793 states | published work is not reported failed, and claims are not mixed up, with every request but moves and no late failures |
| `retried_operation` | MCRetriedOperation.cfg | violated | an accepted operation can stay accepted |
| `publication` | MCPluginPublication.cfg | passes, 1,207,161 states | activated artifacts are never touched, candidates are cleaned up, and the routes change as RouteTable lets them |
| `publication_orphan` | MCOrphanedVersion.cfg | violated | a crash blocks the next plugin version of a route |
| `dispatch` | MCDispatchPool.cfg | passes, 147,614 states | slots are accounted for; with more threads than publications everything ends |
| `dispatch_exhausted` | MCPoolExhausted.cfg | violated | with as many publications as threads nothing ends |
| `generation` | MCPiGeneration.cfg | passes, 81,495 states | slots, processes and results of a generator are in order, and every generation ends |
| `plugin_call` | MCPluginCall.cfg | passes, 498,236 states | `ok` hides no captured error, a replica it leaves stopped was abandoned as below, and every call ends with its processes |

The violated runs are disagreements between the code and its documents, described under
`findings` in `PROJECT.json` with the lines on both sides:

1. **registry_move_plugin**: the target of `move_plugin` is checked before the artifact is
   verified and not again under the lock of the commit.
2. **retried_operation**: an operation fails, its requirement is brought to active with
   `/implement`, the operation is retried: the new operation is accepted, `begin_operation`
   refuses it, and no one fails it.
3. **publication_orphan**: nothing removes `v<N+1>` after a crash before its activation.
4. **dispatch_exhausted**: publications hold pool threads while they wait for a store call
   that needs a thread of the same pool. The pool has `min(32, cpus + 4)` threads. One
   generation at a time is the default, so it takes long plugin tests, or more run slots;
   nothing in the code bounds the publications.

### What the restricted instance leaves out

`implementation_in_place` has no moves and no fault after an activation, because its two
properties do not hold with them. The theorems about them (section 4) name exactly what
each needs, and TLC finds each violated in a few steps when one of those is given back:

- With moves and a locked database ("storage") neither holds: `move_route_links` is inside
  the `try` whose handler fails the requirement, so a published move is reported failed and
  its receipt erased (api.py:1806), although api.py:1880-1882 retain the receipt of published
  work. A create, its publication and a move are enough, in 18 states.
- With "shutdown" `ServedIsNotFailed` does not hold: a shutdown marks the rows of a cancelled
  task failed (api.py:1824) while the thread of its publication goes on and activates the
  route. `FailsOwnClaim` does hold.
- With "activation", an exception after the route was activated, neither holds: the published
  work is reported failed; or it is reconciled from its receipt, claimed again, and the
  failing task then ends "its" claim.
- With "collision", two generations with the same digest for one version, `FailsOwnClaim` does
  not hold: a direct PUT publishes just what the receipt of a task names, `/implement`
  reconciles the requirement with it and a new task claims it, and the first task, refused
  by the runtime, ends the claim of the second.

Two of these need more than the fault they name. What ends another's claim is always a
reconciliation of work that a task has not reported yet, so without `/implement` a task that
fails ends only its own claim, whatever moves and whatever raises, as long as SQLite answers
(`MovedFailuresAreOwn`, section 4).

The same reconciliation is why `implementation` has no `/implement`. A task has published its
work and not yet reported it; `/implement` reconciles its requirement to active (api.py:2045),
and a PATCH of the requirement returns it to draft: update_content (metadata.py:876) refuses a
requirement in implementing only, and does not ask for an active operation. Then
`complete_implementation` refuses the task, the handler only logs that the finalization is
pending (api.py:1880-1923), and its operation stays implementing until the next start,
although no database failed: `BegunOperationEnds` does not hold with "implement" and "edit",
"rebase" or "move". The claim itself is not lost in any of this (`ClaimsHaveHolders`).

`ServedIsNotFailed` speaks of what is still served. Published work can be reported failed even
without moves when it was overtaken: its finalization is pending, a direct PUT puts the next
version over it, the process stops, and the startup finds another version than the receipt
names (metadata.py:1326). One task, one PUT and a crash do it, in 11 states.

### What `ok` does not cover

errors.py:48 says that a capability failure is recorded "even if plugin code catches it", and
docs/USAGE.md:535-537 that a batch is waited for and that a failure is never an ordinary
result. `OkIsTrue`, `StoppedIsReported` and `BatchIsWaitedFor` state this with the exceptions
the code has, which `account` names. Without them `StoppedIsReported` is violated in 9 states
(a use on a thread of the handler, connect, STOP REPLICA, the handler returns):

- A handler that uses the capability in a thread of its own and returns answers `ok` while
  the thread is between STOP and START; what fails after errors.py:57 is not recorded, and
  the end of the process, its deadline or its container may come before START REPLICA.
- `_HandlerCpuLimitExceeded` is a BaseException: raised in the main thread between the two
  statements (executor.py:368-370) it passes `except Exception` (mysql_replication.py:185) and
  is not recorded, and a handler that catches it answers `ok`. Exceptions of other signal
  handlers and of log handlers do the same; in the wait for a batch they let the handler go
  on while its threads are at work.
- The ValueError of `_validate_retries` (mysql_replication.py:220-226) is not recorded either.
  A handler that catches it answers `ok`, but no statement was sent: nothing is left stopped.
  `OkIsTrue` therefore speaks of CapabilityErrors and of the instances of accepted messages.

An instance is abandoned in these ways only: every other one that a call with `ok` was given
has been restarted, with STOP and START on one connection, and every other replica that a
call leaves stopped makes that call an error or a timeout. A use that is abandoned excuses
nothing of another use, nor another instance of the same message.

### Generators together

One more observation needs no model checker. Each of the two generators has its own
semaphore, so together they run up to twice `PI_MAX_CONCURRENT_RUNS` processes (api.py:565;
README.md:211 and docs/USAGE.md:230 give it as the limit of all); `PiBounded` is about one.

### Bounds, and why they are enough

- Two callers, tasks, generations or publications: every race in this code is between a check
  and an act of one actor and an act of another. Operations, which are used up, are two or
  three: one that fails and its retries.
- Two routes: a move and something else at its target or source. `MCRequirementStore` has one
  route, because the store compares routes only for equality with a link, and two
  requirements that share it; `MCInPlace` has one because nothing moves.
- `MaxVersion` is 3 in the publications (create, update, rollback to an older version), 2 in
  the registry and in `ImplementationTask` (one update or move after a create, by either
  actor), and 1 in the store, which does not interpret versions. The version checks compare
  neighbours only, and the theorems hold for every bound. The guards with `MaxVersion` are
  the only ones the code does not have; versions are unbounded there.
- Four codes in the registry: those of two competing creates and of two competing successors.
  Digests are two where a receipt must be told from another one (store, in place), and one
  where versions already tell publications apart. `publication` has one bundle: an artifact
  directory holds its bundle or not, and no operation replaces one bundle by another there.
- Two requirements in `implementation`, so that one task moves a route that the other
  requirement links to.
- `DispatchPool`: three requests for two slots, and three threads for two tasks, so one thread
  is always free of publications; in the violated run two threads for two tasks.
- `PiGeneration`: two generations for one slot. A complete stream needs three events
  (accepted, an assistant message, settled); `MaxStream` 5 and `MaxRetained` 4 leave room for
  two more, for both limits to be reached, and for one of them to be reached without the
  other. An identifier is used again only when its processes are gone.
- `PluginCall`: one call with two instances, so that one of a batch fails while the other is
  between its two statements, two workers, and two retries. `Retries` and `Workers` are
  the parameters of the code; a use takes any number of retries up to `Retries`. The run has
  one use at a time, from the main thread or from one of the handler's; uses and calls share
  the replicas and the record of errors, and for several at once the theorems hold, for any
  number of calls, uses, instances, retries and workers.
- Symmetry is used in the runs without liveness only. `CHECK_DEADLOCK FALSE` stands where the
  bounds use up all operations (`implementation`, `retried_operation`), where a call ends for
  good (`plugin_call`) and where the deadlock is what the run shows (`dispatch_exhausted`).

### Fairness

- `ImplementationTask`: weak fairness of each task's next step. asyncio runs every coroutine
  whose await is done, and each await has a limit (LLM and Pi timeouts, SQLite busy
  timeout, the timeout of plugin tests). Liveness is "unless the service is stopped": no
  restart is assumed, and no end of a shutdown. "storage" is left out of the run with
  liveness: when the database fails for good, the failure cannot be written either, and the
  code says so (api.py:1642-1647).
- `DispatchPool`: weak fairness of the threads, of the ends of jobs (deadlines of the
  executors, busy timeout, test timeout) and of the loop. Nothing is assumed of clients, who
  may hold a slot with an unfinished body for as long as they like.
- `PiGeneration`: the timers of the loop fire (admission timeout, deadline, the times of grace of
  the clean-up) and its coroutines go on. Nothing is assumed of Pi, not even that a process
  that was sent SIGKILL dies: `kill_unreaped` lets the clean-up go on.
- `PluginCall`: the deadline fires, the waits after each signal are over, `docker rm` ends, a
  process that was sent SIGKILL ends, and a child that holds the output open closes it some
  time: the second `communicate()` has no limit (plugin_executor.py:224). Nothing is assumed of
  handlers, databases and containers.

## 4. Proofs

Each module's theorems hold for every value of its constants, from the named assumptions of
the module only. Most invariants are not inductive as they stand; what they need:

- `RouteRegistryProofs`. `TypeCorrect`, `Restartable`, `ServesTheDisk`, `MovesWhole`,
  `NothingOverwritten`, `RegistryImplementsTable`. Restorability needs that the caller in the
  lock wrote its source before it replaces the manifest, that a failed write only removes a
  file it created, and that at most one caller is in the lock. That memory and disk agree
  needs that the records the lock holder will swap in are those it wrote. Every step of the
  registry is a step of the table on `Durable`, or leaves it alone; only WriteManifest
  changes it. Acknowledged routes survive when `move_plugin` is not used: exactly the
  hypothesis that `registry_move_plugin` shows to be needed.
- `RequirementStoreProofs`. `StoreTypeCorrect`, `OneOperationAtATime`, `NoStaleReceipt`,
  `LogFollowsStatus`, the action properties `ReportsAreFinal` and `ReceiptsAreKept`, and
  `StoreImplementsLifecycle`. The invariant splits into `RequirementInv` and `OperationInv`,
  which share no variable; the proofs have one step per method. For the lifecycle each
  method is one of its actions or leaves the statuses alone; that no operation is accepted
  beside another is what `_ensure_no_active_operation` gives, and that a status is what the
  lifecycle expects comes from the row types.
- `ImplementationTaskProofs`. `TaskInv` says what a task has at hand where it is (`Shaped`): an
  operation, a target, a base. From it follow `TypeCorrect` and `ServiceUsesStore`, that
  the service is a client of the store, with which every theorem of
  `RequirementStoreProofs` holds of the service (`TasksFollowLifecycle` is one).
  `TasksImplementTable` needs to know what a candidate is aimed at (`Aimed`): between its
  generation and its commit it has version one and no base, or the number after the base
  its task read long before; the comparison at the commit then makes it the successor of
  what is served. This holds of the threads in `late` too. `OwnInv` says who works on what:
  an operation has one task; a thread outlives only a task that does nothing any more but
  give its claim back; an operation that was committed is never "accepted" and its task is
  past the commit; what the table publishes is in the history. It gives
  `CommittedHaveReceipts` and, with `ActiveWasPublished` for the requirements, `ReportsAreTrue`:
  finish and active are never reported for something that was not published.
- `ImplementationInPlaceProofs`. `ServedIsReported` (of `ServedIsNotFailed`) and `FailuresAreOwn`
  (of `FailsOwnClaim`), under the hypotheses above: `NoMoves` for both, `CrashesOnly` (neither
  "activation" nor "shutdown") for the first, `OneSource` (neither "activation" nor
  "collision") for the second. Both start from `PlaceInv`, that everything a requirement, its
  operations and its tasks name is at the requirement's path and one version after its
  base. `ServedIsReported` adds `VersionInv`, that what was published and is not served any
  more was superseded by a higher version; that no cancelled task is left to go on
  (`QuietInv`); that the task of an operation keeps it implementing up to its commit
  (`BegunInv`); and `FailedInv`, that a committed operation is failed only when its target is
  superseded, and that a task which still has one is past the handler that fails it.
  `FailuresAreOwn` needs `HoldInv`: a task between its claim and its commit owns the claim, and
  the requirement has no receipt but its own. What could end the claim under it is a
  reconciliation, which finds the receipt served; so the targets of tasks differ
  (`DistinctInv`), none is published before its own commit (`FreshInv`), and tasks that a
  shutdown has cancelled are alone with their threads (`ServiceInv`).
  The other four theorems let routes move and ask that SQLite answers (`StoreAnswers`, no
  "storage"). `ClaimsHaveHolders` allows every request: while the service runs, a requirement
  in implementing is in the hands of the task that claimed it last, which is where a handler
  still gives the claim back. The invariant is `ClaimsAreHeld`: for each claim it names a
  holder (`owner`), where that holder is, and that the receipt is its own. One lemma says
  what the holder's own step does with the claim, one what others can do to it, and the ends
  of the service empty the claim. Without the endpoint `/implement` (`NoImplement`) the
  converse is an invariant as well (`ClaimantsHold`: a task that made a claim has it), since
  only a reconciliation takes a claim from a task. `MovedFailuresAreOwn` (of `FailsOwnClaim`)
  follows at once. `OperationsHaveTasks` says the same of operations: `BegunAreEngaged`, that
  an operation in implementing has a task that still reports its end, is inductive with its
  converse (`EngagedHaveOperations`) and `OwnInv`. `ReportsAreNotRefused` adds `ClaimsAreFresh`,
  that a task which has not noted its receipt finds none, and that an operation names
  its requirement (`TasksRefer`): then the store accepts the receipt, the completion and the
  end of every task. These are the safety half of `EveryClaimEnds` and `BegunOperationEnds`; the
  other half, that a holder goes on, is fairness and stays with TLC.
- `PluginPublicationProofs`. `ServedIsIntact`, `ServedNeverChanges`, `NoOrphans`,
  `NoWorkspaceStays`, `PublicationImplementsTable`. `OwnerInv`: a directory that is being
  published belongs to one publication, which alone may discard it and only before the
  activation. `LeftInv` adds that identifiers of workspaces are their publication's own, and
  holds as long as neither the process nor the disk failed. The refinement rests on
  `AllAimed`, which says of a publication what `Aimed` says of a task; a move of a plugin may
  take a path that is not free, and only that.
- `DispatchPoolProofs`. `SlotsAddUp` and `HandlersAreBounded` from an invariant about where each
  job is (queued, running or done, and once), since a slot is returned by a callback of the
  job and not by the request.
- `PiGenerationProofs`. `SlotsAddUp`, `NoChildIsLeft`, `PiIsBounded` (no more live Pi processes than
  slots, although clean-ups overlap new admissions) and `ResultsAreAccepted`, from an
  invariant that ties the locals of the reader to the history of what it has read.
- `PluginCallProofs`. `OkIsAlwaysTrue`, `StopsAreReported`, `AnsweredCallsAreOver`,
  `BatchesAreWaitedFor`, for any number of concurrent calls and uses. `UsesAreTold` relates the
  threads of a use to what the handler was told: whoever goes on beside a thread has
  abandoned its instance. `AccountsAreKept` says who still answers for an instance that is
  owed, or for a replica left stopped: an error in `captured`, or, while the capture is on, a
  thread at work or a worker that will never answer. `Respond` ends the capture, so there
  everything still at work is abandoned, and nothing else. `OkIsEarned` takes the response
  from there to the answer, and `WorkerIsOver` follows the worker through the ways in which
  the executors end a call.

Only model-checked: liveness (`EveryClaimEnds`, `BegunOperationEnds`, `HandlerEnds`, `TaskEnds`,
`GenerationEnds`, `CallEnds`), which is out of the prover's reach; and the four violated
properties. Every other property of a passing run is a theorem. Some theorems are about
properties no run repeats, because those of the runs cover what they could show on a small
instance: `MovesWhole` and `OneOperationAtATime` are readings of the two refinements,
`HandlersAreBounded` and `PiIsBounded` of the accounts of slots, and `ClaimsHaveHolders`,
`OperationsHaveTasks` and `ReportsAreNotRefused` are what the liveness of the claims and
operations rests on. No module has a recursive operator.

## 5. Not modelled, and why

- The validators and the code loader: pure functions over Python syntax trees, whose rules are
  their own specification.
- The LLM generator: one HTTP call and the parsing of its answer; a task sees a result or an
  exception. Prompts, error texts, log records.
- The forwarding of log events from a worker. It slices the events by their number
  (`logs[emitted_count:]`); with a frame lost the wrong ones are taken, but nothing is said
  about which log lines arrive.
- A process of Pi or of a handler that leaves its session with `setsid`: the code signals
  groups and cannot reach it.
- `current.json`, which is written and never read; the schema migration of old databases; the
  parsing of configuration; the console; the start of the process.
- The synchronous mode `ASYNC_ROUTE_CREATION=false`, which makes the same store calls in the
  request.
