# Verification of the local inference stack

TLA+ specifications of the request-handling core of this repository, from the
HTTP stream down to the two native processes and the agent that calls them, TLC
configurations that check them on small instances, and TLAPS proofs, for every
instance, of the safety of the dispatcher, the event stream, the worker
supervisor and its process, the scheduler, the llama.cpp adapter and the native
inference runtime behind it, the router, the cache and the agent turn.  Each definition is translated from the source;
`PROJECT.json` maps it to its lines and lists runs, mutants, hazards and
theorems.

## 1. The system

Three Python packages with their own threads and locks, over two native
processes.

**`model_worker/`** serves one request at a time on one native process.

| part | state | operations | used by / uses |
|---|---|---|---|
| request registry | records with a lifecycle (QUEUED, RUNNING, four terminal ones), deadlines, `cancel_event`, observers | `create`, `transition`, `compare_and_transition`, `cancel`, `prune_terminal` | dispatcher, HTTP API, maintenance |
| dispatcher | bounded FIFO of pending records, flags of the shutdown, tracked threads, the restart thread | `submit`, `cancel`, `wait`, `shutdown`; threads `_run`, `_expire_queued`, one per request, one per cancellation, restart, backend shutdown | registry, worker backend, event buffers |
| event buffer | bounded deque of events, `closed`, `slow_consumer`, next sequence number | `publish`, `get`, `drain`, `close` | worker supervisor publishes, HTTP stream reads |
| native worker supervisor | supervisor state, process, generation, frame queue, reader thread | `start`, `execute`, `cancel`, `kill_and_restart`, `shutdown` | called by dispatcher threads |
| IPC, HTTP API, artifacts, maintenance, metrics, contracts | see `components` in `PROJECT.json` | | |

**`inference_runtime/`** schedules many sequences on a backend that can be
stepped.

| part | state | operations | used by / uses |
|---|---|---|---|
| continuous scheduler | entries, three deques of request ids, decode burst, `stopping`/`stopped` | `infer`, `cancel`, `start`, `shutdown`; the loop `_run` | admission controller, selector, backend |
| admission controller | reservations, pending or active with KV tokens | `admit`, `can_activate`, `activate`, `release` | scheduler |
| fair selector | service debts, weights, emergency burst | `select`, `charge`, `forget` | scheduler |
| llama.cpp adapter | native process, handles, sessions | `open_sequence`, `prefill_batch`, `decode_batch`, `release`, `shutdown` | scheduler |
| sequence-state cache | entries, index, leases, byte count | `put`, `acquire`, `read`, `release`, `commit_session`, `invalidate`, `prune` | library |
| engine registry | an entry per backend: lifecycle, generation, instance, active leases | `register`, `acquire`, `release`, `unload`, `sweep` | router, admin threads |
| router | the target of each active request id | `infer`, `cancel` | registry, full-request backends |
| managed, MLX and serial backends | a semaphore; a table of active ids; the runtime's lock | `generate`, `cancel` | router; a transport or the dispatcher |
| simulator, conformance, contracts | | | |

**`agent_runtime/`** runs agent turns as an event-sourced state machine.

| part | state | operations | used by / uses |
|---|---|---|---|
| reducer and event store | the log of a run in SQLite, unique claims, versions | `append`, `load`, `replay` | service |
| service | nothing of its own between two loads | `execute_turn`, `recover` | decision engine, permission gate, executor, normalizer, acceptance gate |
| executor | finished invocations, in memory | `execute` | tools |

**`native/`** holds the C++ processes.

| part | state | operations | used by / uses |
|---|---|---|---|
| model worker | job queue, active job, `cancel` and `shutdown` flags | reader thread; main thread with `generate` | worker supervisor, over a pipe |
| cancel registry | bounded entries with a time to live | `add`, `consume` | model worker |
| phase controller, UTF-8 accumulator | phase, counters, marker tail; pending bytes | `consume`; `append`, `finish` | both processes |
| inference runtime | one state per slot, llama.cpp's KV memory, snapshots | `open_sequence`, `prefill_batch`, `decode_batch`, `release_sequence`, `cache_clear` | llama.cpp adapter, over a pipe |
| sequence engine | slots with generations, reserved tokens | `admit`, `advance_*`, `finish`, `cancel`, `release` | inference runtime |

`controlled_inference/` is an archived prototype.

### What is hard

* *Dispatcher.*  Seven kinds of threads meet at one record: the client's cancel,
  the queue-expiry thread, the dispatcher thread that popped it, its own request
  thread that may answer years late, the watchdog, the shutdown walk and the
  pruner.  It is correct if a record is started at most once and only from the
  head of the queue, never runs after it timed out, is settled and reported
  exactly once, always ends its stream, if no request starts during a restart of
  the backend, and if a shutdown that says "complete" has settled everything and
  leaves nobody who starts work.
* *Scheduler.*  The loop works outside its lock while clients submit, cancel and
  time out; deques hold ids that outlive their entries; backend calls, releases
  included, fail.  It is correct if no live request is forgotten, the
  reservation ledger agrees with the sequences that are really open, quotas hold,
  the terminal event is single and last, and every accepted `infer()` returns.
* *Event stream.*  A bounded buffer coalesces and drops telemetry between a
  native process that does not wait and a client that may be slow or leave.  It
  is correct if what the client sees is ordered and without holes, if "completed"
  follows a whole answer, and if every stream ends.
* *Supervisor.*  Request threads, one reader per process, restart and shutdown
  share a process, a frame queue and a state; any of them may find a later
  generation than the one it knew, and a reader may end before its process.  It is
  correct if one generation never suffers for another, a process beside the current
  one is one that nothing reads or that is dying, and every `execute()` returns.
* *Registry and router.*  Engines are loaded and shut down outside the lock
  that counts their leases, a sweep acts on a list made earlier, and two calls
  with one id may meet at any of four tables.  It is correct if a leased engine
  stays loaded, every lease, unit of capacity and id comes back on every path,
  nothing is left running for nobody, and nobody sleeps without a waker.
* *Cache.*  Leases of one entry share a reference count while entries expire,
  are evicted, copied and replaced.  It is correct if a leased entry stays, two
  clients never commit from one entry, and index and byte count are exact.
* *llama.cpp adapter.*  Its lock is free between the look-up of a handle, the
  command, the check of the answer and the book-keeping; meanwhile the process
  may die, be killed for a timeout, or be replaced by one that numbers its
  sequences from the beginning.  It is correct if an outcome is never taken for
  another request's and no sequence stays behind in the process.
* *Native inference runtime.*  The prompt, the KV memory, the slot ledger and the
  client's view advance separately through restored snapshots, chunks that end
  at checkpoints, batches that fail in the middle, and releases.  It is correct
  if a sequence always continues from its own tokens, a snapshot is the memory of
  the tokens it is filed under, and no slot or reservation is lost.
* *Native worker.*  A cancel may arrive before its job, during the job before, or
  too late; two threads share a condition variable.  It is correct if a cancel
  reaches its job and no other, and every job is answered.
* *Agent turn.*  A turn is some thirty durable steps around one external effect;
  processes die between any two and several may run the same turn.  It is
  correct if the effect happens at most once, recovery never overlooks it, and a
  run succeeds only on recorded evidence.

`hazards` in `PROJECT.json` lists them at their lines with the properties that
would catch them going wrong.

## 2. Plan

Modelled and checked, in this order: `Dispatcher` with `RequestService`,
`Admission` and `ContinuousScheduler`, `EventBuffer`, `WorkerProcess`,
`SequenceCache`, `AgentLog` and `AgentTurn`, `SequenceEngine`, `ReasoningPhase`,
`PromptCache` and `NativeRuntime` (which composes these three), `SequenceAdapter`
(over `SequenceEngine`), `NativeWorker` (over `ReasoningPhase`), `BackendRegistry`
and `InferenceRouter` (which composes it with the backends it leads to).  Proved:
`DispatcherProofs`, `AgentTurnProofs`, `RouterProofs`, `WorkerProofs` (about
`WorkerProcess` and `NativeWorker`), `EventBufferProofs`, `SchedulerProofs`,
`SequenceProofs` (about `SequenceAdapter` and `SequenceCache`) and
`NativeRuntimeProofs`.  Every safety property that a run checks is proved, a few
under a hypothesis section 5 names; liveness is model-checked.

A proof module EXTENDS what it is about.  Where it is about two components their
definitions have names apart: the specifications of `NativeWorker` and
`SequenceCache` are `NativeSpec` and `CacheSpec`, the cache's `release` is
`ReleaseLease`, and the worker's `reader_loop` is `commandReader`.

## 3. Modules

### `Dispatcher`

State: one variable per field or thread (the comments beside `VARIABLES` name
them).  `life`, `error`, `notified`, `registered` are the registry; `pending`
with `ticket` is the deque, which only ever appends at the right, pops at the left
and deletes in the middle; `disp`, `current`, `verdict` are where `_run` is and
what it holds; `task[r]` is the request thread of r; `restart`, `expiry`,
`backStop` and `shut` are the other threads.

One action is one section of code under a lock, or one call made outside it:

| action | code |
|---|---|
| `Submit`, `Cancel`, `CancelClose` | `submit`; the two halves of `cancel` |
| `ExpireQueued`, `ExpiryClose`, `ExpiryStop` | `_expire_queued` |
| `AwaitRestart`, `NextPending`, `TryStart`, `NotStarted`, `Spawn` | `_run` up to the request thread |
| `WatchTerminal`, `WatchDeadline`, `SpawnCancel`, `WatchEnded`, `GraceEnd`, `Commit` | its supervision and the commit of the verdict |
| `ScheduleRestart`, `CloseCurrent` | the end of one iteration |
| `TaskSlow`, `TaskEnd` | the request thread; `TaskSlow` is the slow-consumer path of `execute`, the one place where the worker sets `cancel_event` itself |
| `WatchCancelEnd`, `ShutCancelEnd`, `RestartStep`, `BackStopStep` | the short-lived threads |
| `ShutdownFlags`, `DrainCancel`, `DrainSettle`, `DrainDone` | `_begin_shutdown` |
| `ShutdownJoin`: `LookAtThreads`, `LookEnds` | `shutdown` with the two halves of `_live_shutdown_threads`: the copy of the tracked threads under their lock, and `is_alive()` of what was copied under none |
| `Prune` | `prune_terminal`, called by the maintenance thread |
| `QueueDeadline`, `ExecDeadline` | the clock |

The worker backend is its protocol: `execute` and `cancel` may return, fail or
hang.  Clocks are monotone facts ("this deadline has passed").

`RequestService` is the abstract specification: a bounded first-come
first-served service that starts one request at a time and settles each once.
`Dispatcher` implements it under the mapping at its end.

### `Admission` and `ContinuousScheduler`

`Admission` states the tests of `ResourceAdmissionController` as operators on a
ledger: `ledger` is the set of reservations and `kv[a]` the tokens an active one
holds (0 while pending).  Workflow and agent quotas have the same form; one
level of scopes stands for both.

`ContinuousScheduler` is the scheduler.  An *attempt* is one call of `infer()`;
`IdOf` gives its request id, and two attempts may share one.  The deques
hold ids, as in the code, and the loops that filter them are subsequences at the
positions that are kept (`Valid`, `Kept`, `Pruned`, `Taken`, `Left`).  `loop` is where the thread is, `batch` what it has
in flight, `todo` the entries it has still to release with their verdicts.

| action | code |
|---|---|
| `Infer`, `InferReturn`, `Cancel`, `Shutdown`, `Start` | the methods of the same names |
| `Boundaries` | `_process_terminal_boundaries` |
| `OpenOne`, `OpenFails`, `OpenSucceeds` | `_open_one` around the backend call |
| `StartDecode`, `StartPrefill`, `NoBatch` | `_choose_batch_action` and the first lock of the batch methods |
| `BatchFails`, `PrefillEnds`, `DecodeEnds` | the rest of the batch methods and `_complete_entry` |
| `ReleaseEntry`, `SettleEntry` | `_release_and_terminalize`, `_terminalize` up to and from its second lock |
| `Idle`, `WaitTimesOut` | the tail of `_run` |
| `Crash`, `CrashTaking`, `CrashOpening`, `CrashSettling` | the clock or the selector raises: between two sections, while candidates are out of their deque, after the open, when a request is terminal but its waiter not told |
| `FailAll`, `Stop` | the exception path of `_run`, and `shutdown` before `start` |
| `DeadlinePasses` | the clock |

A backend call and the section that follows it are one step, because only the
loop changes what the call depends on; what clients do meanwhile is seen by the
section.  The selector may choose any candidate, the backend may return any
outcome, and a release may stay unconfirmed.  Token budgets inside a batch,
deltas and the content of results are left out.

### `SequenceCache`

`SequenceStateCache`.  `live`, `entry`, `refs`, `index` and `bytesUsed` are
`_entries`, its records, their `refcount`, `_index` and `_bytes_used`; `stale`
holds the entries past `expires_at`; `lease` and `step` belong to the clients.

| action | code |
|---|---|
| `Put`, `Acquire`, `Release`, `Invalidate`, `Prune` | the methods of the same names |
| `CommitCheck`, `CommitPut`, `CommitRelease` | the three lock sections of `commit_session` |
| `Evictions`, `Removed`, `Unindexed` | `_ensure_capacity_locked`, `_remove_locked` |
| `TtlPasses` | the clock |

The victim of an eviction is any unleased entry, which includes the least
recently used one.  `put` and `acquire` read the clock before they take the
lock, so a prune may miss entries that have expired since.  A client holds one
lease and gives it back once: leases of one entry share its generation, and what
a second `release` of the same lease may do is stated nowhere.  Payload bytes
are their length, counters are left out.

### `EventBuffer`

The stream of one request, from the native worker's frames to the client.
`events`, `queuedBytes`, `nextSequence`, `closed` and `slow` are the fields of
`BoundedRequestEventBuffer`; `producer`, `life` and `reader` are `execute()`, the
record and the HTTP handler; `emitted`, `sent` and `written` are what went in and
what came out.

| action | code |
|---|---|
| `Publish` with `Fits`, `Older`, `HasRoom`, `Enqueue`, `Overflow` | `publish` and its helpers, and the reaction of `execute` to its verdict |
| `Finish`, `Die` | the end of `execute` |
| `Check`, `Get`, `Drain`, `Disconnect`, `WriteFails` | `_drain_stream` with `get` and `drain`; `_settle_request`; a write that raises after the event was taken from the buffer |
| `Cancel`, `Settle`, `GiveUp`, `Close` | what the dispatcher does with the record and its buffer |

`get` waits at most 20 ms, so a get of an empty buffer is a step that returns
nothing.  `InProtocol` is the order of frames `FrameVerifier` lets through.

### `WorkerProcess`

`NativeWorkerProcess`.  `sup`, `process`, `frames`, `readerThread` are its
fields; `status`, `jobs`, `serving`, `queue`, `reader` belong to each process
ever spawned; `pc`, `mine`, `verifier`, `outcome` to each `execute()`.  A process
is named by its spawn number, which also stands for its generation, its frame
queue and its reader thread.

| action | code |
|---|---|
| `ExecBegin`, `ExecStart`, `ExecGrab`, `ExecWrite`, `ExecRead`, `ExecTimeout`, `ExecExtra`, `ExecRecover` | `execute`, section by section |
| `StartLocked`, `KillThenStart` | `_start_locked`; the kill and the start of `kill_and_restart` and `_recover_protocol_failure` |
| `KillAndRestart`, `ShutdownKill`, `ShutdownJoin` | `kill_and_restart`, the two sections of `shutdown` |
| `ReaderEof`, `ReaderFails`, `ReaderNotice`, `Observe` | `_read_process_frames`, whose reader ends with its process or at bytes that are not UTF-8 while it lives; the `supervisor_state` property |
| `NativeEmit`, `NativeRubbish`, `NativeExit` | the native process |
| `Dispatch`, `Settle`, `Cancel`, `GiveUp`, `BeginShutdown` | the dispatcher |

A section under the supervisor's lock is one step.  Of the frames only `started`
and the terminal one matter to the supervisor; `completed` and `failed` are taken
alike, and a cancel frame makes a job fail earlier, which the model allows
anyway.  Restart and shutdown exclude each other, as the dispatcher's backend
lock makes them.

### `BackendRegistry` and `InferenceRouter`

`BackendRegistry` holds the fields of each `_Entry` (`lifecycle`, `generation`,
`instance`, `active_leases`), `up`, the instances it accepted from a factory and has
not told to shut down, and for each call where it is (`pc`), the candidates it has
left and its lease; `task` and `targets` belong to the threads in `unload` and `sweep`.

| action | code |
|---|---|
| `Register`, `Route` | `register`; the candidates of `acquire` in their order |
| `AcquireWait`, `AcquireDraining`, `AcquireReady`, `AcquireLoad` | `_acquire_name` up to the factory, by the lifecycle found |
| `LoadSucceeds`, `LoadFails` | the factory and the section after it, with the refusal of an engine that lacks a declared capability |
| `Release` | `release` |
| `Unload`, `UnloadEnds`, `Sweep`, `SweepNext` | `unload` around the shutdown of the instance; `sweep` |

`InferenceRouter` adds the router's table `active`, and per backend `working` (its
table of ids), `free` (its semaphore) and the dispatcher's `record` of a call.

| action | code |
|---|---|
| `InferBegins`, `InferEnters`, `InferPops`, `InferReleases`, `Cancel` | `InferenceRouter.infer` and `cancel`, one step per section |
| `TakeCapacity`, `Admit`, `Post`, `Discard`, `GiveBack` | `generate` of the managed backend; `Post` over HTTP or over the MLX runtime, which completes one prompt at a time |
| `SerialSubmits`, `SerialEnlists`, `SerialEnds` | `generate` of the serial adapter |
| `RecordEnds` | the dispatcher, which settles every record (`ImplementsService`) |

What is asked and answered is left out: a call that raises leaves through the same
`finally` blocks as one that returns.  The idle clock is left out as well, so that a
sweep may take any backend nobody uses.

### `AgentLog` and `AgentTurn`

`AgentLog` is the event store with `replay()`.  The log is kept as the state
`replay()` computes from it: it only grows, so a version determines the state.
`Replays` and `Applied` are the checks and the effect of one event, `UniqueClaim`
the unique indexes, `Commits` the transaction of `append`.

`AgentTurn` is `execute_turn`.  `at[p]` is where process p is in it, with the
version of its last load; `completed` the executor's memory; `ran` counts what
really happened; `artifacts` is the artifact store.

| action | code |
|---|---|
| `Begin`, `Infer`, `RecordInference`, `ConsumeTurn`, `ConsumeTokens`, `ConsumeMs`, `RecordDecision` | `execute_turn` up to the decision |
| `HandleNonTool`, `BlockSubmit` | `_handle_non_tool` |
| `Compile`, `Propose`, `RecordArguments`, `ArgsReady`, `Authorize`, `RecordAuthorization`, `Refuse`, `Authorized` | arguments and permission |
| `ConsumeCall`, `StartDispatch`, `Dispatched`, `ConsumeAttempt`, `Execute`, `Finish` | the durable boundary and the tool |
| `Normalize`, `RecordResult`, `ToolStatus`, `Observe`, `RecordFlow`, `FollowFlow`, `Accept`, `Succeed` | the result, the flow controller and the gate |
| `Load` | the load after every append, which also sees what others wrote |
| `Caller`, `Crash` | the run's owner; the death of a process |

`Recover` is `recover()`, a question about the log.  Every exception ends the turn
where it is raised, as in the code.  The verdicts of the model, the permission
policy and the acceptance gate are choices within what the code allows.

### `SequenceEngine`, `ReasoningPhase`, `PromptCache`, `NativeRuntime`

The first three are the classes of the same names (`PromptCache` is
`PromptStateCache`; `ReasoningPhase` holds the phase controller and
`Utf8Accumulator`) as operators on records: an operation answers its status and
the object it leaves.  Generations of slots wrap at `GenerationModulus`, 2^64 in
the code.  A piece of text is a token that ends on a character boundary, holds
half of a character, or cannot be UTF-8.

`NativeRuntime` is the command loop.  `engine`, `states` and `cache` are its
objects, `kv[s]` is llama.cpp's memory of sequence s as the tokens at its
positions, `cmd` the batch in progress, `held` what the client was told.

| action | code |
|---|---|
| `OpenSequence` with `OpenRefused`, `OpenWithoutParent`, `OpenAdmitted` | `open_sequence` |
| `PrefillBatch`, `PrefillFails`, `PrefillItem` | `prefill_batch`: checks and `llama_decode`; its failure; the loop after it with its snapshots |
| `DecodeBatch`, `DecodeRound`, `DecodeSample`, `DecodeReply` | `decode_batch`: checks; one round; one sequence's token; the reply |
| `ReleaseSequence`, `CacheClear` | `release_sequence`, `cache_clear` |

A batch is several steps because an exception may leave its loops anywhere.
Entries of the cache expire inside the operations that prune them.  The client
behaves as the scheduler does: it steps what it holds, and after an error only
releases.  `RuntimeConfig` is what `load_runtime_config` and `open_sequence` reject
otherwise: chunk and quantum fit the tick's budget, a batch has at most one step
per slot, and a session's prefix is a proper, nonempty part of its prompt.

### `SequenceAdapter`

`LlamaCppSteppableBackend`.  `adapter` holds `_process`, `_supervisor_state`,
`_generation`, `_active` and `_released`; `call` is the scheduler thread's call
in progress, `sched` what the scheduler knows of each request, and `accepted`
records whose sequence each accepted outcome came from.

| action | code |
|---|---|
| `CallOpen`, `OpenCommand`, `OpenRegister` | `open_sequence` |
| `CallSteps`, `StepsCommand`, `StepsVerify` | `_native_steps`, `prefill_batch` and `decode_batch`, `_verify_native_correlation` |
| `CallRelease`, `ReleaseCommand`, `ReleaseVerify`, `ReleaseForget` | `release` |
| `AnswerRefused`, `CacheCommand`, `SupervisorState`, `Shutdown` | answers that fail validation; `cache_stats` and `clear_cache`; the property; `shutdown` |
| `ProcessDies` | the native process |

`_command` holds the lock from the write to the answer, so a command is one step
with all its ends (`Answered`, `Unanswered`); everything else is one step per
section of the lock.  The native side is `SequenceEngine`'s ledger, which is
what a sequence's identity depends on.  `Public` is the handle's arithmetic, with
`HandleShift` for 2^32.

### `NativeWorker`

`model_worker_main.cpp`.  `control` is `SharedControl`, `commandReader` and `main` the two
threads with the locals of `generate`, `answered` the terminal frames; `asks` is
a history of the cancels that were read.

| action | code |
|---|---|
| `ReadGenerate`, `ReadCancel`, `ReadShutdown`, `ShutdownCancels`, `ShutdownNotifies` | `reader_loop` |
| `MainTest`, `MainPredicate`, `MainSleep`, `SpuriousWakeup`, `MainTake`, `MainJoin` | the wait of `main` |
| `SetupFails`, `PromptBatch`, `PromptDone`, `GenerateToken`, `LoopEnds`, `Finish`, `Clear` | `generate` and the terminal frame |
| `EntryExpires` | the clock of the registry |

The registry is a map of times.  The code erases what has run out before it looks;
the model erases an entry when its time comes, oldest first, which no operation
can tell apart.  The mutex matters only from the test of the predicate until the
thread sleeps or has taken a job; a shutdown does not take it, so its three writes
are three steps.

## 4. Runs

| run | instance | shows |
|---|---|---|
| `dispatcher_safety` | 2 requests, queue of 2 | every interleaving of all threads, shutdown and pruning included: ownership, single settlement, no start during a restart, a shutdown that is drained and final when it says so, and the safety part of `RequestService` |
| `dispatcher_liveness` | 2 requests, queue of 1 | implements `RequestService` with its liveness: with a worker that hangs and a shutdown at any moment every accepted request settles, and its stream closes |
| `stream` | 2 events or 3 bytes, 4 frames of size 1 or 2 | bounds and counts, order, no holes and a completed stream that is whole, every stream ends |
| `scheduler` | 2 requests in one scope, 2 slots, batches of 2, load shedding at 1, a KV quota that fits both only if the first takes less than it asked for, an underestimated request, a crash of the loop wherever it asks the clock or the selector | no forgotten request and no sleep on pending work, no duplicate in a batch, exact ledger, quotas, terminal event last; every `infer()` accepted before a crash returns, also when failed releases take the slots away, unless the crash path fails itself |
| `worker_safety` | 2 requests, 2 processes, unconfirmed kills, readers that fail, shutdown | the supervisor's fields belong to one process, beside which lives at most one that did not confirm its kill or that nothing reads; who waits is owed an answer or told to go, or is stranded under a supervisor that is not ready any more; no generation is degraded or killed for another |
| `worker_restart` | 2 requests, 2 processes, kills that work, readers that end with their processes | every `execute()` returns |
| `agent_turn` | 2 processes, 2 turns, a read-only and a mutating tool, 2 starts | a tool runs at most once and only behind its claims, recovery sees every effect, success needs recorded evidence |
| `native_runtime` | 2 slots, 3 requests (2 of one session) with a common beginning, room for 2 snapshots of 3 tokens together, 3 opens, 1 failure or expiry | memory is the sequence's own tokens, ledger, states and handles agree, snapshots are faithful and bounded, a completion is whole |
| `sequence_adapter` | 4 requests, 2 slots, 3 processes, 2 failures | an outcome is its request's own; no sequence is left that nobody can release |
| `native_worker` | 2 jobs, registry of 1, 2 cancels, prompts of 2 batches, answers of up to 6 tokens, an end marker of 2 tokens | no cancel is lost or reaches another job, an answer is whole, every job is answered |
| `cache_leases` | 2 clients, 2 keys, 2 scopes, room for 2 entries or 3 bytes | a lease protects its entry and is counted exactly, no two mutable leases share an entry and a copy has one lease, index and byte count are exact |
| `routing` | 3 calls with one id (2 routed, 1 with a lease of its own), 4 backends (managed with room for 1 and 2, serial, steppable), 1 admin thread | leases count exactly and protect their engine, ids and capacity are accounted for on every path, nothing is left running, nobody sleeps in vain |

Why the bounds are enough.  The dispatcher supervises one record at a time, so two
requests give every race between the held record and a queued one, and an order
to violate when both wait.  In the scheduler two requests give every batch shape
(both, one of two, none) and every contention for a slot or a quota.  In the
cache two clients are enough to share, to copy and to pin everything, and three
ids for two places let a fresh entry meet a full cache.  A stream needs room for
less than its four frames and a size that does not divide the byte bound to
coalesce, drop and overflow in every order.  The supervisor's races are between a
generation and the next one, and between the thread of a request that was given
up and that of its successor: two of each.  An agent's turn meets itself in a
second process, under the same or another turn id, and a second start is a retry
after a crash; every budget but the turns' holds one unit, so that exhaustion
happens.  In the native runtime a session needs a root and a turn that continues
it, and a prefix that another request filed; the third open meets a reused slot
with a new generation; the two markers share a token; final texts of more than one token and incomplete
characters are left to `native_worker`.  In the adapter two failures around one call replace the
process between its sections, and a third process shows that handles of the
first are not mistaken.  In the router three calls with one id
meet at the router's table, at a backend's table, at a semaphore of one and of two
and at an entry that is loading, and one admin is enough to drain or sweep an
engine under any of them.  In the native worker a registry of one entry is full
with the first early cancel, and a marker of two tokens can occur split, as text
and in the final phase.

Deadlock is not checked where a system may legitimately stop: requests run
out, or it has been shut down.  The cache never stops, and there it is checked.

**Fairness.**  Dispatcher: runnable threads run and deadlines pass; nothing is
assumed of clients, `execute()` or `worker.cancel()`, whose hanging the code is
meant to survive (`dispatcher_liveness` lets every cancel hang); a restart ends,
because `kill_and_restart` bounds its waits.  Scheduler: the loop runs, waiters
wake while there is a loop to notify them, deadlines pass; a backend call returns, because the adapter gives each
command a timeout.  Stream: the handler runs and the dispatcher settles the
record, which the dispatcher's own runs show.  Supervisor: request, reader and
restart threads run, readers end with their processes, and a native process that is not killed answers its jobs
(one that does not is given up and killed, and `execute()` must still return).
Native worker: the main thread is scheduled and llama.cpp's calls return; nothing
is assumed of the reader or of spurious wake-ups.

**Mutants.**  For each property of a passing run a plausible bug (a dropped
guard, a swapped order, a missing removal) is kept beside the definition it
changes, marked *Mutation*; TLC finds the property violated with it.

### Departures

Where a passing instance leaves behaviour out, or the code does something a
reader of its documents and tests may not expect, the models say so:

* *Dispatcher.*  `_live_shutdown_threads` copies the tracked threads under their
  lock and asks `is_alive()` afterwards (`dispatcher.py:430`, `:437`).  The
  dispatcher thread may start a request's thread, or its cancellation, after the copy
  and end before it is asked about: `shutdown` then reports completion while that one
  thread lives.  Its record is settled, and nothing starts another (`CompleteIsFinal`).
* *Scheduler.*  An id that is submitted again after a cancel can put one sequence
  twice into a batch (`continuous_scheduler.py:971`; `contracts.py:342` requires
  distinct handles): the runs use fresh ids.  An `infer()` accepted between
  `_fail_all`'s snapshot and `_stopped` is never woken (`:372`):
  `AcceptedInferReturns` speaks of calls accepted before the loop failed.  If the
  clock raises again inside `_fail_all` (`:875`), neither the notification nor
  `_stopped` is reached and the other waiters stay: `AcceptedInferReturns` excepts
  the loop that is "dead".  Between a failure of the clock and `_fail_all` an entry
  that was being picked is in no deque (`:951`), which `NoStrandedRequest` excepts.  A
  sequence whose activation is refused and whose release then fails is charged
  to nobody (`LedgerExact` and the quotas speak of what is charged), so the
  backend itself may hold more sequences than `MaxSequences`.
* *Supervisor.*  The thread of a request that was given up may take the restarted
  process (`worker_process.py:236`).  A `start` between the two sections of
  `shutdown` leaves a process that nobody ends.  After a kill that is not
  confirmed a process is started beside the unreaped one, which `OneProcess`
  excepts.  A reader ends at bytes that are not UTF-8 while its process lives
  (`:201`): the supervisor is degraded, and the next `start` runs a second process
  beside the first, which `OneProcess` excepts, too.  If a request that shares the
  queue and has its answer takes the end mark of that reader (`:351`), the other one
  polls a living process that nobody reads until the next `start` or its deadline;
  `NobodyWaitsInVain` names it `Stranded`.  `worker_safety` reaches the outcome "assertion": a restart between two
  sections of `execute` refutes its `assert`.
* *Registry and router.*  An engine that is refused for a mismatch of its
  capabilities, or whose shutdown failed, is dropped from its entry although it may
  still run, beside the next instance of the same backend: `up` and `EnginesHeld`
  count neither.  The clock of the registry and of the managed backend is assumed
  not to raise: one that does after the semaphore was taken
  (`openai_compatible.py:279`) or after a load (`registry.py:237`) leaves the
  capacity taken, or the entry loading.  The serial adapter calls the event sink
  unguarded: a sink that raises after the submit leaves its record running, and
  `NothingLeftRunning` excepts exactly those calls.  `cancel` looks its target up
  under the lock and tells it outside, so it may reach a later request with the
  same id.
* *Cache.*  A mutable lease is given of the entry itself if nobody leases it; later
  immutable leases then share that entry (`cache.py:277`).  They read on what was
  there, because a commit files a new entry; `CopiesArePrivate` speaks of mutable
  leases and of copies.
* *Adapter.*  The answer of an open is registered in a later section of the lock,
  under whatever generation is current then, so a handle may name no sequence of
  the running process ("phantom"); outcomes stay right, because such a handle is
  refused by the native side or collides and fails.  A later command starts a
  process again after `shutdown`; a start that fails keeps the handles of the
  process before; a release that was overtaken by a restart kills the new
  process through the correlation check.  A handle is the process generation
  shifted by 32 bits and the slot's generation in what is left
  (`llama_cpp.py:416`): once a slot was used 2^32 times in one process, handles of
  different processes can be equal, and `OutcomeIsOwn` fails.
* *Native runtime.*  `release_sequence` removes the memory of a slot whenever the
  slot has a state, before it compares generations
  (`inference_runtime_main.cpp:1946`): a stale handle empties its successor's
  memory.  `NativeRuntime`'s client never sends one; the adapter can, through a
  phantom handle.  A session commit is skipped without an error when the restored snapshot
  already reaches the session's prefix, which `CompletionIsWhole` allows; the
  generation number of a session can be used again after its largest entry was
  evicted; the tokens of a decode batch that fails midway are lost with it.
* *Native worker.*  A shutdown sets its flags and notifies without the mutex, so
  its wake-up can fall between the test and the sleep, and its `cancel` can be
  overwritten by the take of a job, which then runs to its end.  The supervisor's
  kill ends both; `EveryJobAnswered` speaks of workers that were not told to stop.
  The worker accepts any two markers that differ and are not empty
  (`model_worker_main.cpp:238`).  If the start marker lies inside the end marker, one
  stretch of tokens passes for both and an answer without reasoning is complete; the
  theorem about `AnswerIsWhole` says so in its hypothesis `MarkersApart`, which
  `<think>` and `</think>` (`config/model.example.json`) satisfy.
* *Agent.*  The load after an append adopts events of another process, after
  which a stale turn may append in its name.  A tool cancelled after its dispatch is
  recorded as failed, although its effect may have happened.  `recover()` answers
  "terminal_or_paused" for a run that died between the compile of a call and its
  dispatch, or while observing or verifying; nothing moves it on.  A retry under
  the same turn id ends at its budget claim.

## 5. Proofs

`DispatcherProofs` proves, for every finite set of requests and every positive
capacity (`RequestsAssumption`, `CapacityAssumption`):

| theorem | statement |
|---|---|
| `TypeCorrect` | the type invariant |
| `Ownership` | `Owned`: `NoLostRequest`, `OnlyLivePending`, `OneSupervisedRunner` |
| `SettledOnce` | `NotifiedOnce` |
| `OnlyLegalTransitions` | `LegalTransitions`, which no run repeats |
| `ShutdownSettles`, `CompletionIsFinal` | the parts of `ShutdownIsClean` |
| `ShutdownClean` | `ShutdownIsClean` |
| `RestartsExclude` | `NoStartDuringRestart` |
| `TimeoutMeansNotRun` | `QueueTimeoutNeverRan`, which no run repeats |
| `Implements` | the refinement `ImplementsServiceSafely` |

The argument.  The type invariant is inductive together with `HoldsRecord`: the
thread holds a record exactly where its code uses one.  `OwnerInv` says what the
dispatcher thread and the shutdown walk know of the lifecycle of the record in
their hands; without it, the commit of a verdict could settle a queued record
that nobody removed from the deque.  From these follow single settlement and
legality.  `DrainInv` says that after the registry snapshot every unsettled
record is in front of the walk or under its cursor, which needs that nothing is
admitted any more.  `StreamInv` names who has still to close the stream of a
settled record, `RestartInv` where the loop may be during a restart, `ExpiryInv`
that a started thread and a queue timeout exclude each other, `LookInv` that at most
one thread can have escaped a look at the tracked ones, because the dispatcher thread
holds one record and has no other thread to start for it, and `OrderInv`
that the popped record is older than all that wait; the refinement maps each
action to one step of `RequestService` or a stutter with it.

`SequenceProofs` proves, of `SequenceCache`, `LeaseSafety` (`LeaseProtects`), `MutableSafety` and
`CloneSafety` with their conjunction `CopySafety` (`CopiesArePrivate`), and
`IndexSafety` (`IndexExact`) and `BudgetSafety` (`BudgetExact`), for any number of
clients, keys, scopes and entries and any bounds (`CacheAssumption`).  Every operation has one of five effects (unleased
entries go; and one is inserted; and one is shared; and one is copied; or a lease
comes back), and each effect keeps `Inv`: clients hold leases of live entries
only, counts count them, a clone has one, and the index is exact.  The conjuncts
need each other: that an eviction spares a leased entry follows from the counts,
and that a put leaves one entry per key from the index.  The bytes in use are the sum
over the entries: each effect adds or takes away what its entries weigh, and the
evictions of a put stop only where the new entry fits.

`AgentTurnProofs` proves the three properties of `agent_turn` (`RunsOnce`:
`ToolsRunOnce`; `RecoverSeesEffects`: `EffectsAreRecovered`; `SuccessIsEarned`:
`SucceededIsEarned`) for any processes, turns and tools, any number of starts,
any budgets and any reported usage (`BudgetAssumption`, `UsageAssumption`).  The
version a turn expects proves nothing, because its load adopts the events of
others; the argument rests on what the log never takes back (`Grows`).  `Placed`
says, for the step a process stands at, which claims of its invocation are in the
log, whether its tool ran and whether the artifact exists; it survives every
event of another process because those only add.  What another could add is the
result: only the process at "result" appends it, and `Apart` says that an
attempt is in one hand, because entering it takes the budget claim
"tool_attempts" of the invocation, which replays once.  For the same reason
nobody enters an attempt of a tool that ran (`Ledger`: a run, and a result, imply
that claim), not even after a crash emptied the executor's memory.  Most steps
are one append, and `AppendKeeps` reduces them to what an event must satisfy for
its step (`Admissible`).

`SchedulerProofs` is about any finite set of attempts, any ids and scopes and any
limits that `AdmissionLimits` accepts:

| theorem | statement |
|---|---|
| `SchedulerTypes` | the type invariant |
| `LedgerIsExact` | `LedgerExact` |
| `NobodyIsStranded` | `NoStrandedRequest` and `NeverSleepsOnWork`, whether or not ids are used again |
| `NothingIsForgotten` | `NothingForgotten`, if no id is used twice (`OneUse`) |
| `TerminalEventStaysLast` | `TerminalEventIsLast`, if no id is used twice |
| `QuotasAreKept` | `QuotasHold`: the sequences and KV tokens in use are within every limit |

The hypothesis `OneUse` is needed: the deques outlive the entries they name, and a
second use of an id is the first of the departures above.  `EntriesInv` says that
an id finds at most one entry, `LoopInv` what the loop holds at each of its places,
`SettleInv` that between its terminal event and its terminal state an entry is the
head of `todo` (between the two locks of `_terminalize` the ledger no longer has it,
while its state still counts as live), and `HandleInv` that a live handle is open in
the backend.  With these the ledger is exact.  `WakeInv` adds that a loop
that did not fail stops only when everything is settled: nothing a client does
between the last look and the wait gets past `Idle`, which looks again under the
lock.  `QueueInv` says which states an id
left behind in a deque can have, which is what keeps a batch free of duplicates;
`TodoInv` that nobody is released twice, on which the order of events rests.  For
the quotas, `RoomInv` carries the answer of `can_activate` across the backend call to
`activate`: the loop alone charges, so the room, of sequences and of tokens, can
only grow meanwhile.

`RouterProofs` proves the four invariants of `routing` (`LeasesAreExact`,
`TablesAreExact`, `NothingRunsOn`, `NoLostWakeup`) and `AcceptedEnginesHeld` (`EnginesHeld`) for any
finite set of calls, any backends, admins and capacities (`RegistryAssumption`,
`RouterAssumption`).  A lease protects its engine because a count of zero is what
`unload` asks for, and the count is exact because `CallInv` says where a call holds
a lease; `EntryInv` ties the accepted instances to their entry, `DrainInv` gives a draining entry
one admin and `LoadInv` a loading one a single call, which is the waker of every
sleeper.  The tables are exact because each `finally` undoes what its own entry did,
under the lease that keeps the tables from being replaced by a new instance's.

`WorkerProofs` proves `SupervisorIsCoherent`, `NoVainWait` and the action property
`GenerationsStayApart` for any requests, any number of processes, and whether or
not kills are confirmed (`WorkerAssumption`).  `SpawnInv` orders the processes and
says where `execute` holds one, `AliveInv` that until a shutdown a living process is
the supervisor's and ready, or has a reader that failed and said so, and `ReaderInv`
that the supervisor's process has a reader; together they make every comparison of
generations in the code decisive.  `WaitInv` says what a waiting request is owed while
the process is read, and `MarkInv` where the end mark of a failed reader is: on the
queue, with somebody about to restart the process, or swallowed.

The second half is about the child, `NativeWorker`, for any keys, tokens and registry
capacity (`NativeAssumption`: a key is not the "none" that the model uses for no
key, and the capacity is a size).
`CancelsReachTheirJob` (`NoLostCancel`) and `CancelsSpareOtherJobs`
(`CancelsOnlyItsJob`) rest on `CancelInv`: the registry has the time of each key's
last cancel unless it expired or was erased as the oldest, and a job whose cancel was
read before the take finds it there or was told directly.
`AnswersAreWhole` (`AnswerIsWhole`) rests on `WholeInv`: what the phase controller
keeps, a tail of tokens and three counters, is true of all the tokens it consumed
(`Told`, `Story`), and the text placed so far is the text of the final phase.  Its
hypotheses are those the worker checks or the configuration gives: `Budgets` (they
are sizes), `MarkersSampled` (the markers are made of tokens that can be sampled) and
`MarkersApart` (the start marker does not occur in the end marker; TLC finds an answer
without reasoning when the markers are "o" and "om").

`EventBufferProofs` proves `StreamIsWhole` (`NothingMissing`) and
`EveryEventCounted`, for every size of the buffer and number of events
(`BufferAssumption`).  `OrderInv`: what was written is older than what is queued;
`KeepInv`: until the consumer is slow or gone or the buffer closed, nothing
essential is lost; `WholeInv` carries that over the end of `execute`, the verdict of
the dispatcher and the drain, the three steps between "the answer was whole" and
"completed" on the client's side.  `BufferIsAccounted` (`Accounted`) holds for any
weights of the events: `BooksInv` says that the count of bytes is the sum over the
queue, and that what was drained, dropped and queued is everything written.

`SequenceProofs` proves, of `SequenceAdapter`, `NoSequenceLeaks` (`NoLeakedSequence`) for any requests,
slots, processes and failures, and `OutcomesAreOwn` (`OutcomeIsOwn`) for behaviours
in which no slot of a process is used 2^32 times (`[]YoungSlots`).  The hypothesis
is needed: a public handle is the process generation shifted, plus the slot's
generation, so an old slot's handle runs into those of the next process (TLC finds
the outcome of a stranger with `HandleShift` 1 or 2; the leak it does not find
even then).  `LedgerInv` says of every slot of the running process that some call
or handle still answers for it: an open in flight, a registration that waits for
the lock, an entry of `active` or a release; `Ages` orders what a section of the
lock may find changed since the last.  `OwnInv` says that the handles of `active`
are distinct, and that a batch in flight names the sequences its requests hold.

`NativeRuntimeProofs` proves the four properties of `native_runtime` for any number
of slots, any requests, prompts, sessions and sampled tokens, any chunk, quantum and
cache sizes, and whatever fails, under `RuntimeAssumption` (`RuntimeConfig`, section 3):

| theorem | statement |
|---|---|
| `RuntimeInvariant` | the inductive invariant `RuntimeInv` |
| `RuntimeAgrees` | `EngineAgrees` |
| `RuntimeRemembers` | `KvMatches` |
| `RuntimeSnapshots` | `SnapshotsFaithful` |
| `RuntimeCompletes` | `CompletionIsWhole` |

`RuntimeInv` joins what the loop updates at different times.  `Books`: the engine's
counts are the sums over its slots.  `SlotsAgree`: a state stands beside each live slot
and no other, with the slot's progress (`Fills`, `Progress`) and with what the
controller made of its tokens (`Spoken`); without it the ledger could refuse a step
the state had already taken, and "sequence_state_invalid" would be reachable.
`KvMatches` speaks of the moments between commands only; inside a batch llama.cpp is
ahead of the counters, and `HandleOk` with `Ahead` says by how much for each sequence:
by its chunk until its item is booked, by one token until its sample is taken.  A
sequence of a command that failed is "doomed", because nothing says how far it got.
`CommandOk` keeps the sequences of a batch distinct and its items within the prompt,
and ends a chunk no later than a session's prefix while that is uncommitted (`ItemOk`),
on which the last part of `CompletionIsWhole` rests (`CommitsInTime`).  `CacheOk` says
that a snapshot is the memory of its tokens, which needs `KvMatches` at the place of
the copy and gives it at the restore, and that two snapshots differ in key or
generation.  One lemma per command follows the invariant; the loops of `prefill_batch`
and `decode_batch` are followed item by item.

**Sums.**  The provers do no induction over data, and the library's theorems that
do take an operator they cannot instantiate.  What is proved about a fold is
proved from its equation: the fold is the value of a function on the subsets of its
set that satisfies the equation, such a function exists for every cardinality (the
set of cardinalities without one has no least element), and any two agree.  That
the order does not matter follows the same way.

**Model-checked only.**

* Liveness (`ImplementsService`, `EveryStreamCloses`, `StreamEnds`,
  `AcceptedInferReturns`, `ExecuteReturns`, `EveryJobAnswered`): fairness and ENABLED
  are outside the prover.
* The need for the hypotheses `[]YoungSlots` and `MarkersApart`: TLC found behaviours
  that break the properties without them, on the instances named above, which no run
  repeats.

## 6. Not modelled

| part | why |
|---|---|
| HTTP parsing, request and runtime contracts, manifests, output contract, prompts | stateless validation and text; what they let through is an input of the models |
| artifacts, maintenance's sweep of them | files that nothing in the system reads back |
| metrics | counters of the terminal observer, which `NotifiedOnce` is about |
| fair selector | service debts and aging are arithmetic over unbounded counters; the scheduler's model lets the selector choose any candidate, so what is shown holds for its choice, but nothing is shown about how long a request may be overtaken |
| conformance | a test suite for backends |
| steppable adapters of other engines, loading of MLX models | glue around external engines |
| simulator | a single-threaded replay of a workload with a heuristic policy |
| tools, decision parsing, permission policies | their verdicts are choices of `AgentTurn` |
| token arithmetic inside llama.cpp, sampling, grammars | external; a sampler may answer any token |
| prototype, scripts | superseded; measurement and release tooling |
