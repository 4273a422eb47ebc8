# Verification of the b2b-buyer-platform agent backend

The repository is a small JavaScript lead platform (`src/*.mjs`, `app.js`) around
`src/deer-flow`, a Python agent platform whose gateway admits runs, executes them
as background tasks and streams their events. The concurrency, the failure
handling and the recovery of the system are in `src/deer-flow/backend`; this
project specifies them in TLA+, checks the specifications with TLC and proves the
properties that matter most with TLAPS.

Below, `H` stands for `src/deer-flow/backend/packages/harness/deerflow` and `A`
for `src/deer-flow/backend/app`.

## Inventory

| component | state | operations | interacts with | what is hard | what makes it correct |
|---|---|---|---|---|---|
| run lifecycle: `H/runtime/runs/{manager,worker,schemas}.py`, `H/persistence/run/sql.py`, `A/gateway/{services,deps}.py`, `A/gateway/routers/thread_runs.py` | records and thread index (memory, under an asyncio lock), tasks, run rows, checkpoint heads, thread rows | `start_run`, `create_or_reject`, `cancel`, `run_agent`, `shutdown`, `reconcile_orphaned_inflight_runs` | stream bridge, checkpointer, stores, scheduler hook | tasks, cancellation at any await, replacing runs, failing stores, drain, crash and restart | one graph per thread at a time; older cleanup first; rows agree with records; rollback and titles keep others' work; streams end |
| scheduler: `A/scheduler/service.py`, `H/persistence/scheduled_tasks`, `H/persistence/scheduled_task_runs`, `A/gateway/routers/scheduled_tasks.py` | task rows with leases, task-run rows | poll, claim, dispatch, completion hook, manual trigger, edits, startup reconciliation | run lifecycle (launches runs, is told when they end) | claim leases and restarts, manual trigger against the poller, fast completions | scheduled runs do not overlap, a once task that was launched is not re-armed, rows reach a terminal status |
| stream bridge in memory: `H/runtime/stream_bridge/{base,memory}.py`, `A/gateway/services.py` | per run a bounded buffer, end flag, cursors of subscribers | publish, publish_end, subscribe with Last-Event-ID, cleanup | worker (producer), SSE responses | slow subscribers, eviction, reconnection, cleanup while subscribed | events in order, none twice, none lost unless evicted, the end last |
| stream bridge on Redis: `H/runtime/stream_bridge/redis.py`, `async_provider.py` | the run's key, cursors of responses, records the probe reads | XADD with MAXLEN, XREAD with retries, probe of a finished run, TTL, recovery | several gateways, clients that resume anywhere | calls that fail before or after they were applied, expiry, a gateway that dies before the end marker | the same promise, and responses to a settled run end |
| subagents: `H/subagents/executor.py`, `H/tools/builtins/task_tool.py` | result holders, registry of background tasks, scheduler pool, isolated loop | execute_async, run_task, timeout, cancellation, polling, deferred cleanup | task tool of a run, token journal | four activities in three threads write or read one holder | one verdict, whole and final; the call answers it; no entry is lost or leaked |
| sandbox provider: `H/community/aio_sandbox/aio_sandbox_provider.py`, `H/community/warm_pool_lifecycle.py` | active and warm containers, last activity, thread locks | acquire, get, release, idle checker, eviction, shutdown, adoption after a restart | tools of a run, container backend | backend calls outside the lock, cancelled acquisitions whose call runs on, ids that repeat | not active and warm at once, no container forgotten, only dead ones dropped |
| MCP session pool: `H/mcp/session_pool.py` | sessions, creations in flight, owner tasks on several loops | get_session, close_scope, close_server, close_all, close_all_sync | tool calls, the synchronous tool wrapper | joining a creation, cancelling its creator, eviction, loops that end | one session per key, who is told to close ends, every call returns |
| memory: `H/agents/memory/{queue,updater,storage}.py`, `A/gateway/routers/memory.py` | queued contexts, timers, cache, the memory file | add, flush, timer threads, updates by the model, the memory API | memory middleware, other gateway processes | timers that fire while replaced, a slow model call between load and save, cache validity by mtime | no turn or correction lost or overtaken, the cache is the file |
| IM channels: `A/channels/{manager,message_bus,store,run_policy}.py` | inbound queue, recent keys, slots, creation locks, conversation to thread mapping | publish, dispatch, chats, commands, replies | provider adapters, gateway API | redelivery during and after handling, creation of a thread by concurrent handlers, failures under a lock | no message handled twice, each answered unless its answer cannot be looked up, one thread per conversation |
| goal continuation: `H/runtime/goal.py` | goal in the checkpoint | evaluate, continue, stop | run worker | goal replaced while it is evaluated | only the evaluated goal is updated |
| run events and journal: `H/runtime/events/store/*`, `H/runtime/journal.py` | per thread sequence of events, buffers | put, put_batch, flush | worker callbacks | sequence numbers under concurrent writers | dense increasing sequence |
| middlewares, agents, models, tools, skills, config, auth, frontend, TUI, deployment, JavaScript lead platform | mostly stateless or I/O | - | - | - | - |

How the parts meet: a request handler, a channel's handler or a scheduled dispatch
calls `start_run`; the run's task publishes to the stream bridge, whose
subscribers are the SSE responses of clients; a tool call of the run takes a
sandbox, a session or a subagent; after the run its turn goes to the memory queue;
the task's `finally` block calls the completion hook of the scheduler and ends the
stream; at startup `A/gateway/deps.py` reconciles the runs and
`ScheduledTaskService.start` the task rows before the first request and the first
poll. `PROJECT.json` lists the hazards of this code line by line, with the
properties that cover each.

## Modules

| module | models | abstracts | code |
|---|---|---|---|
| `RunLifecycle` | admission, execution, cancellation, rollback, drain, exit and recovery of runs | the graph: a stream of checkpoints | `manager.py`, `worker.py`, `services.py`, `deps.py` |
| `ScheduledTasks` | the poller, dispatches, hooks, edits, restart reconciliation | a run is launched, lives, and ends with an outcome or without a hook | `scheduler/service.py`, the two repositories, the router |
| `EventStream` | what any stream bridge promises its readers | buffers, connections, failures | the interface, seen by clients |
| `StreamReaders` | what both bridges' models share: the events of a run, their readers and the bounds | | |
| `MemoryStream` | the in-process bridge, `sse_consumer` and resuming clients; implements `EventStream` | what events say | `stream_bridge/memory.py`, `services.py` |
| `RedisStream` | the Redis bridge, its worker, recovery and readers in several gateways; implements `EventStream` | what events say, the client library | `stream_bridge/redis.py`, `services.py`, `deps.py` |
| `TaskOutcome` | what is promised about a delegated task: one verdict, answered | threads, polling, timeouts | the interface of the task tool |
| `SubagentTask` | subagents in the background and the tool call that waits for them; implements `TaskOutcome` | what a subagent does | `executor.py`, `task_tool.py` |
| `SandboxPool` | acquisition, release, idle checker, eviction, shutdown and restart of the provider | containers: running or not, and which | `aio_sandbox_provider.py`, `warm_pool_lifecycle.py` |
| `SessionPool` | sessions, their owner tasks, loops and the calls that close them | the MCP protocol | `session_pool.py` |
| `MemoryUpdate` | the queue with its timer threads, the updater, the storage and the API | what a memory says: the number of its edit | `queue.py`, `updater.py`, `storage.py`, `routers/memory.py` |
| `ChannelManager` | queue, deduplication, handlers and conversation mapping of the IM channels | what is said | `channels/manager.py`, `message_bus.py`, `store.py` |
| `RunLifecycleProofs`, `ScheduledTasksProofs`, `StreamBridgeProofs` (both bridges), `SubagentTaskProofs`, `SandboxPoolProofs`, `SessionPoolProofs`, `MemoryUpdateProofs`, `ChannelManagerProofs` | proofs about them | | |
| `MCRunLifecycle`, `MCScheduledTasks`, `MCMemoryStream`, `MCRedisStream`, `MCSubagentTask`, `MCSandboxPool`, `MCSessionPool`, `MCMemoryUpdate`, `MCChannelManager` | instances for TLC | | |

### RunLifecycle

Granularity. All coroutines share one event loop, so one step is the code between
two awaits that can suspend. `RunManager` holds its asyncio lock over an await in
one place only, the store write of `create_or_reject`; `lock` names the run that
is there, and every other critical section is a single step that needs the lock
free. Requests, cancellations, the tasks, pending status writes, the drain, an
exit and the restart interleave freely.

State. `mem`, `abort`, `finalizing` are the fields of a `RunRecord`; `ticket` is
the insertion order of the records, which is what `_thread_records_locked` and
the scans for older and newer runs of a thread follow; `strategy` is the argument
of a `create_or_reject` in progress; `pc` is the place of the handler of
`start_run`, then of the task; `cancelReq` is a `task.cancel()` not yet delivered;
`snap`, `snapWork` and `base` are the pre-run snapshot and the head a graph or
the title writer builds on; `persisting` holds the interrupted statuses on their
way to the store; `row`, `ckpt` and `threadStatus` are the durable run rows, heads
of checkpoints and thread rows; `stream` says whether the run's event stream was
opened and ended; `database` is the backend of the deployment, SQLite or Postgres (with
the memory backend nothing outlives the process, so there is no restart to
speak of). A checkpoint is the set of runs whose work it contains, which
is all the properties tell apart. `detached` and `lossy` are history: a run was
cancelled before it had a task; one of its status writes was lost.

| action | code |
|---|---|
| `CreateBegin`, `CreateConflict`, `CreateCommit`, `CreateFails` | `create_or_reject`: insert under the lock, write the row, then interrupt what the strategy replaces; a failed write drops the record (a write cancelled after it committed leaves the row) |
| `PersistInterrupted`, `Notified` | the status writes of `cancel` and of a replacing `create_or_reject`, after the lock |
| `PrepareThread`, `LaunchFails`, `Attach` | the rest of `start_run`: the thread row, everything that can raise, `create_task` |
| `Cancel` | `RunManager.cancel`, called by the endpoint and by a consumer that disconnects |
| `NeverStarts`, `Starts` | asyncio: a task cancelled before its first step never enters its body |
| `PriorSettled` .. `Snapshot` | `run_agent` up to its stream: wait for older cleanups, mark running, capture the pre-run checkpoint |
| `StreamChunk`, `StreamEnds`, `GoalTurn`, `StreamRaises` | the graph and the hidden goal turns |
| `FinalStatus`, `FinalAborted`, `MarkError`, `DeliverCancel`, `BeginFinalizing`, `MarkAborted`, `SaveFinal`, `Rollback` | the end of the `try` block and its two handlers |
| `Complete`, `TitleRead`, `TitleWrite`, `UpdateThread`, `EndFinalizing`, `PublishEnd` | the `finally` block in its order |
| `Shutdown`, `DrainEnds` | `RunManager.shutdown` |
| `Exit`, `Restart` | the end of the process at any step; the next start, which on SQLite, and only there, reconciles (`Reconcile`): `reconcile_orphaned_inflight_runs` and the thread statuses and streams `deps.py` settles with it, each of which may fail |

Not modelled here: `RunManager.create` and `cleanup`, which nothing in the
application calls; `update_run_progress`, `update_model_name`, the copy of the
title to the thread row, the workspace snapshot and the run journal, none of which
touches a status.

### ScheduledTasks

Each repository method is one database transaction. One that writes what does not
depend on what it read is one step. The two writes of the launch that spare a
terminal status, `update_status` and `update_after_launch`, read a row, decide by
it and commit without a lock on it, so each is a step that loads and a step that
commits; the commit writes the columns that differed from what was loaded
(`dirty`), as the ORM does. The poller, every dispatch, every hook, the handlers of
clients, timers and exits interleave between all of these. A dispatch occupies a slot with its task-run row, its
run and the run's hook; a slot whose row is terminal and that nobody drives any
more is reused, so executions are unbounded although slots are not.

State. `status`, `next`, `lease` are a task's row (`next_run_at` abstracted to
none, ahead or due, the lease to none, held or expired); `row` is the task-run
row; `taskOf`, `trigger`, `seen`, `ahead` are what a dispatch read from the task
when it started and still uses after it has changed; `dpc` is its place, `dirty` what
its open transaction will write; `run` and
`hook` the launched run and its completion hook; `budget` and `batch` the poller's
room and claims; `edit` the handlers that have checked a task and not yet written
it. `touch` and `fired` are history: what disturbed a task (`race`: its hook
committed between the load and the commit of the launch's row write; `gone`: it
was deleted between the load and the commit of its own), and the scheduled
launches of a once task since it was armed.

| action | code |
|---|---|
| `Create`, `CheckEdit`/`WriteEdit`, `Delete`, `Trigger` | the HTTP handlers; pause, resume and patch read and check in one transaction and write in another |
| `PollCount`, `PollClaim`, `PollDispatch` | `run_once`: `count_active_runs`, `claim_due_tasks`, the loop over the claims |
| `CheckOverlap` .. `RowSettled` | `dispatch_task`: overlap check, row, launch, and the row's write of each of its branches |
| `LoadTask`, `CommitTask`, `CommitGone` | `update_after_launch`, which ends each branch: load, commit, or a commit that finds the task deleted and raises |
| `Escape`, `LaunchError` | an exception outside its `try` block, which ends the dispatch and the rest of the batch; any other exception inside it |
| `RunEnds`, `RunNeverRan`, `HookRow`, `HookTask`, `HookError` | the end of the run as `run_agent` reports it, `handle_run_completion` |
| `BecomesDue`, `LeaseExpires` | time |
| `Exit`, `SweepRuns`, `CancelStuck` | the end of the process; `start()` |

Not modelled: `run_count`, the `last_*` columns, error texts, edits of a task's
title, prompt, thread or context mode, listings, and a gateway whose scheduler is
disabled. An orderly stop of the poller is an `Exit` taken while the poller idles.
There is one gateway process. `claim_due_tasks` is one step, which its `FOR UPDATE`
makes it on Postgres; SQLite ignores that clause, so an edit committed between the
claim's select and its commit, which is seen here as coming before or after it, may
there be overwritten.

### EventStream and MemoryStream

`EventStream` is the promise to the readers of one run: events arrive in the order
of publication, none twice, a gap only where the bridge no longer retained
anything between, and the end after everything retained. It says nothing of
buffers, subscriptions or connections. What is retained may be dropped at any
time (`Expire`); `LateEvents` says whether a run that announced its end may still
publish, which only a bridge that tells the end by looking at the run's record
has to admit.

`MemoryStream` is the bridge that keeps the buffer in the process. No section
under `asyncio.Condition` suspends while it holds the lock, except in `wait()`, so
each is one step, and a subscription suspends at its yields and its waits. The
events of the run are the numbers `0 .. published-1`, the buffer holds
`start .. published-1`. Per client: `pc`, `stream` and `next` are the response and
the locals of its `subscribe`; `wire` holds the frames sent and not yet received;
`last`, `got`, `done` are the client's own, which reconnects with the last id it
received, or without one.

| action | code |
|---|---|
| `Publish`, `PublishEnd`, `Cleanup` | `publish`, `publish_end`, and the delayed `cleanup`, which pops the dictionary's entry under subscriptions that keep the object |
| `Connect` | `_get_or_create_stream` and `_resolve_start_offset` |
| `SendEvent`, `SendEnd`, `Wait`, `Heartbeat` | the loop of `subscribe` and of `sse_consumer` |
| `ReceiveEvent`, `ReceiveEnd`, `Disconnect` | the client and its connection, which may break with frames in flight |

Not modelled: `close()` at shutdown, and several runs, whose entries do not touch
each other. A restart of the process loses every in-process stream; a run that is
then known from its row only is refused with 409 before it is subscribed to.

### RedisStream

Definitions that `MemoryStream` has too have names of their own here, most of them
with the prefix `Redis`.

Granularity. An `XADD`, an `XREAD` and an `EXISTS` are atomic on the server and
are a step each; what the caller sees may be an error whether or not an `XADD` was
applied. The entries of the run's key are numbered in the order of their `XADD`s,
data events first, then up to two end markers; the key holds `floor .. Total-1`
and exists while that is not empty.

State. `published`, `ends`, `floor`, `born` are the key (`born` is where it began
after it last expired); `status`, `row`, `worker` the owner's record, the stored
row and the worker. Per client: `pc`, `record` (what its response reads: the
owner's record, or the row as it was when hydrated), `next`, `upto` (the batch an
`XREAD` returned), `errors`, and the client's `last`, `got`, `done`.

| action | code |
|---|---|
| `RedisPublish`, `Settle`, `PublishLast`, `RedisPublishEnd`, `RedisCleanup` | the worker: events, the terminal status, what its `finally` block still publishes, the end marker, the delayed `DELETE` |
| `Expire` | `stream_ttl_seconds` |
| `Crash`, `Recover` | the gateway of the run dies; a restart settles the row and ends the stream (`_publish_recovered_run_stream_end`) |
| `RedisConnect`, `ProbePasses`, `ProbeEnds` | `sse_consumer` with the terminal-record probe, in the run's gateway or another |
| `XRead`, `XReadFails`, `DeliverEvent`, `DeliverEnd`, `RedisDisconnect` | `subscribe`: batches of `_XREAD_COUNT`, at most `_MAX_SUBSCRIBE_RETRIES` errors in a row, resumption with Last-Event-ID |

Not modelled: several runs, clients that send an id they never received, the
heartbeat frames.

### TaskOutcome and SubagentTask

`TaskOutcome` promises that a task's outcome is decided once and stays, and that
its call answers that outcome, or openly none (it was cancelled, or out of
patience).

Granularity of `SubagentTask`. Three threads share a result holder, so every
statement that another thread can observe is a step. `try_set_terminal` is two
steps under the holder's lock - the payload, then the status - since readers do
not take the lock.

State. `status`, `payload`, `records`, `cancel`, `lock` are the holder;
`registered` is `_background_tasks`; `sched`, `exec`, `call`, `deferred` are where
`run_task` in its pool thread, `_aexecute` on the isolated loop, the call of the
task tool and the deferred cleanup are; `answer`, `reported` what the call
answered and whether the usage was given to the parent's journal (`unheard`: there
is no recorder among the callbacks, or it raised).

| action | code |
|---|---|
| `StartTask`, `PollDone`, `PollRunning`, `PollAgain`, `PollLimit`, `CallCancelled`, `CallRaises` | the task tool: start, poll, answer, give up |
| `CallBreaks` | an exception in the call that is no cancellation: it passes, and nothing is cleaned up |
| `RunTask`, `Submit`, `SubmitFails`, `WaitEnds`, `TimesOut`, `SchedStores`, `SchedStored`, `StopExecution` | `run_task` in a thread of the pool |
| `BeginsStreaming`, `ExecStores`, `ExecStored` | `_aexecute`: completion, failure, turn limit, cancellation |
| `DeferredCleanup` | the removal of an abandoned task's entry |

Not modelled: the synchronous `execute`, which nobody calls concurrently, the
messages collected for streaming, token counts, and the end of the process.

### SandboxPool

Granularity. A section under `_lock` is one step; every call of the backend
(health check, create, stop) is a step of its own, taken without the lock. The
coroutine of a cancelled acquisition gives the thread lock back at once while its
call in the executor runs to the end: such a worker is in `gone`.

State. `running` says which container object runs under a scope's deterministic
name; `active`, `warm`, `old` are the maps and the times since the last use;
`lock` the thread locks; `pc`, `scope`, `info`, `again`, `gone` the workers;
`sweep` the idle checker, `shut` the shutdown; `lost` the containers that nobody
knows: their creation was cancelled, a stop of them failed, or the listing at the
start of the process missed them. One that is found again by its name is not
lost any more.

| action | code |
|---|---|
| `Ask`, `Get`, `Lock`, `Cancel`, `ReleaseCancelled`, `Finish` | `ensure_sandbox_initialized`, `get`, the thread lock of `acquire_async` |
| `Reuse`, `LookWarm`, `Check`, `Drop`, `Dropped`, `Touch`, `Reclaim`, `Discover`, `Evict`, `Evicted`, `Create`, `CreateFails`, `Register`, `NotReady`, `Unready` | `acquire`: the two looks, reclaim, discovery, eviction of a warm entry, creation, readiness |
| `Release` | `release`: active to warm |
| `Mark`, `Verify`, `DestroyIdle`, `StopIdle`, `Reap`, `Swept`, `Age`, `Die` | the idle checker, time, a container that dies |
| `Shutdown`, `DestroyOnShutdown`, `StopOnShutdown`, `Adopt`, `Restart` | `shutdown`, the end of the process, the reconciliation that adopts the running containers it is told of: all, some (one cannot be read) or none (`docker ps` or `docker inspect` fails, which is only logged) |

Not modelled: anonymous sandboxes (no caller), the file lock and other processes,
ports, mounts. The oldest warm entry is any of them.

### SessionPool

Granularity. A step is the code between two awaits; a section under the thread
lock `_lock` is within one. Calls run on the gateway's loop or, through the
synchronous wrapper, on a loop of their own that `asyncio.run` ends with the tool.

State. `entries` is the LRU map, `inflight` the creations; `owner`, `ready`,
`closeEvt`, `cancelReq` the owner tasks with their future and events; `loop` the
loops; `pc`, `evicted` the calls and what they still shut down; `posted` the
callbacks on the way to another loop.

| action | code |
|---|---|
| `Reuse`, `Enter`, `Joined`, `Promote`, `Unwound`, `Cancel` | `get_session`: hit, create with evictions or join, registration, cancellation |
| `Close`, `CloseAllSync`, `ShutDownNext`, `OwnerAwaited`, `RemoteShutdown`, `Posted` | `close_scope`, `close_server`, `close_all`, `close_all_sync` and how an owner is told to close on its own loop |
| `Start`, `Initialize`, `InitializeFails`, `ToldToClose`, `Exit` | the owner task |
| `EndLoop`, `CloseLoop` | the end of a loop of `asyncio.run` |

In the application only `close_all_sync` is called (`mcp/cache.py`); the other
closers are modelled because the pool offers them. Not modelled: a loop that
neither runs nor is closed, the pool object that `reset_session_pool` abandons,
the tool calls themselves.

### MemoryUpdate

Granularity. A section under the queue's `_lock` or the storage's `_cache_lock`, a
stat, a read and a replacement of the file are one step each; the model call is
between two of them. Every timer is a thread.

State. `queue`, `timer`, `processing` are the queue's; `pc`, `batch` the threads;
`file` and `cache` carry the number of the edit that made them and an mtime;
`step`, `held`, `base`, `seen` are the clients of the storage, the threads and one
request of the API. `turns`, `hints`, `given`, `crossed`, `spoiled`, `misread` are
history: the last turn of each conversation, corrections no model has seen, what it was
given, whether others wrote during an edit or between a client's access and
its stat, and whose memory (a client's or the cache's) comes from an access to the
file that failed.

| action | code |
|---|---|
| `Add`, `Flush`, `FlushNowait`, `Fire`, `ProcessQueue`, `Processed` | the queue with its timers |
| `Prepare`, `Invoke`, `Finalize` | `MemoryUpdater` around the model call |
| `Stat`, `Look`, `Read`, `Fill`, `Replace`, `ReplaceFails`, `Restat`, `Store`, `Reload` | `FileMemoryStorage.load`, `save`, `reload`; a stat that fails says None, a file that cannot be read or parsed counts as empty (`ReadFile`) |
| `Request`, `Respond` | the memory API: get, reload, clear, import, edits of one fact |
| `SaveElsewhere` | another process writes the file |

Not modelled: what an edit does to the facts, reinforcement flags, per-agent
memories, `clear()` (tests only), two writes within one tick of
the file system's clock, and the end of the process, which loses the queue.

### ChannelManager

Granularity. All handlers run on one loop: a step is the code between two awaits,
except that a read of the mapping is one step with what follows it. Deliveries are
numbered in the order of the inbound queue; a thread has the number of the
delivery that made it, or is the one a webhook prescribes.

State. `inbound`, `taken` are the queue, `recent` the keys of the deduplication,
`pc`, `on`, `answer` the handlers with their threads and replies, `locks`, `mine`
the registry of creation locks and who holds or waits for which, `thread` the
mapping, `made`, `runs` the gateway's threads and active runs. `forgotten` and
`frayed` are history: keys that expired, conversations in which a creation failed
under the lock. An `answer` "silent" or "unheard" was never sent: the lookup of
`_send_error` failed, where it was to apologize for an earlier failure or to tell a
refusal.

| action | code |
|---|---|
| `Deliver`, `Dispatch` | `publish_inbound`, `_dispatch_loop` with `_is_duplicate_inbound` |
| `Admit`, `TakeSlot`, `Decline` | bound identity, the semaphore, sessions or skills that are not configured |
| `Find`, `EnterLock`, `Recheck`, `Create`, `Store`, `CreateFails` | `_get_or_create_thread`, `_create_thread`, `_store_thread_id` |
| `OpenGoal`, `SetGoal` | `/goal`, which creates without the lock, as `/new` does |
| `Start`, `Refused`, `RunEnds`, `Deliverable`, `RunFails` | `runs.wait`, `runs.stream`, `runs.create`; what fails while the chat is prepared is raised in every mode, what fails later a streaming chat answers itself |
| `Say`, `LookupFails` | replies, which look the thread up; a lookup of the binding or the thread that fails |

Not modelled: the provider adapters, `ChannelService` (start, stop and
reconfiguration of channels), attachments, thread metadata, messages without a
stable id, which are never deduplicated, and the end of the process.

## What the runs check

Every cfg is small; `PROJECT.json` names a mutant for each property, a plausible
bug of the code that makes the property fail in that very run.

| run | instance | question |
|---|---|---|
| `RunFaults` | two runs of one thread on SQLite or Postgres, every strategy, a cancellation, or one failure with an exit or a drain at any step | types, order of cleanups, one graph per thread, rows and thread statuses against records, before and after recovery; rollbacks and titles keep others' work |
| `RunLive` | the same with fairness, one cancellation or one failure, no exit | a task that entered `run_agent` ends its stream |
| `SchedSafety` | a once task on a reused thread, a cron task on fresh ones, cap 1; a manual trigger or an edit, or else a fault and an exit | active rows are attended to and finished ones show the outcome, but for the one lost race; once tasks fire once and show their outcome; the cap on scheduled rows |
| `SchedLive` | the same tasks, cap 2, one fault or one exit, fairness | scheduled runs do not overlap; a claimed task does not stay running |
| `StreamMemory` | four events, a buffer of two, two clients with two connections each | wake-ups, what a client may miss, `EventStream`, the end under a delayed cleanup |
| `StreamRedis` | four events, a key of two, batches of two, one retry, a TTL, one client with three connections | what a client may miss, `EventStream`, responses to a settled run end |
| `Subagent` | two tasks, one thread in the pool, one poll | entries, reported usage, `TaskOutcome`, every queued task settles |
| `Sandbox` | two workers, two scopes, one replica, two calls, two faults | active and warm, leaked containers, what is dropped, calls end and so do containers that are not lost |
| `Sessions` | two calls on the gateway's loop and one on its own, two keys, one session, one upset | one session per key, no orphan, sessions told to close end and calls return |
| `Memory` | two conversations, three timer threads, three calls | queued contexts are attended to, nothing forgotten or overtaken, the cache and the edits rest on the file |
| `Channels` | two messages of one conversation, three deliveries, two slots, one failure and a second that ends its handler | deduplication, the lock registry, one thread per conversation, every message answered unless the lookup of the answer failed |
| `RunRollbackRevertsOnlyOwnWork` | the smallest that shows it | a statement of the repository that the code does not keep, see "Disagreements" |

Why the bounds are enough. Admission and cleanup relate a run to older and newer
runs of its thread, in pairs: two runs on one thread show every pair, and runs of
different threads share the lock only. (A third run would add chains of waits; the
proofs are for any number.) One trouble per behaviour, at any step, shows every
recovery from a single one; `CancelOrTrouble` leaves out a client's cancellation
together with a failure or the end of the process, each of which the run contains
alone, `PlainExits` a failure on Postgres, which differs from SQLite in `Restart` only and
cannot fail there, `FreshThreads` earlier work on the thread, which the end of a stream does
not depend on, and `OneKind` in the same way a request of a client together with a fault or
an exit of the scheduler. `SchedLive` leaves out the third outcome of a run,
which liveness does not tell from the second. Two slots are two dispatches open together, which is what an overlap
needs, and they are reused; two tasks cover the kinds of schedule and of thread. A
buffer of two under four events evicts twice, and two connections are one
resumption; the third one of Redis is the resumption after the recovery. Two
tasks on one thread of the pool show the queueing; one poll reaches the limit. Two
workers race for one scope or evict each other's; the safety
properties held with three workers on one scope, four calls and three faults (11 million
states) or five calls and two faults, and on two scopes with three calls and one fault. One session makes every second key
an eviction; two upsets, or two sessions, were checked for the safety properties.
Three timers are one that works, one that fires and one that is armed; four calls
on one conversation were checked for the safety properties. Three deliveries are a message, its
redelivery and a competitor; three messages were checked for the safety
properties. Two failures are what it takes to silence an apology; in `Channels`
the second is one that ends its handler (`SecondFailureEnds`). `Max...` constants bound what would otherwise be unbounded, each as a
conjunct of the guards. `SYMMETRY` is used only where the run checks no liveness;
elsewhere `InOrder` fixes which of several alike names is used first, and
`OneNamingInit`, `OneCommandInit` choose one of the initial states that differ in
names only, or the commands one instance is about.
`CHECK_DEADLOCK FALSE` stands in every cfg because the systems rest when every
bound is spent: all runs are over, or no task will ever become due.

## Fairness

`RunLifecycle`: the event loop resumes every coroutine whose await is over, and a
graph stream ends, bounded by the recursion limit and the timeouts of providers.
Requests, cancellations, failures and exits need never happen, and
`StartedRunEndsStream` excuses a process that goes down and the wait for an older
run that never ran (see "Disagreements").

`ScheduledTasks`: the poller, dispatches, hooks, timers and the restart by a
supervisor are weakly fair. A claim is strongly fair per task: `claim_due_tasks`
orders by `next_run_at`, so a task that is due at poll after poll becomes the
oldest and is claimed, although between two polls it may not be claimable.

`MemoryStream`: the worker reaches `publish_end`, which is what
`StartedRunEndsStream` shows of `RunLifecycle`; a ready response runs, `wait_for`
times out, an open connection delivers. A client need not connect, stay or leave.

`RedisStream`: responses run, and the TTL passes. The probe is strongly fair: each
idle interval of a response asks again, and a failing `EXISTS` does not fail for
ever. Nothing says that the worker, a crash or a recovery comes.

`SubagentTask`: threads and loops run what is ready, and a timeout expires; the
pool starts a queued task whenever a thread is free again and again. A subagent
need never finish, notice its cancellation, or leave its streaming.

`SandboxPool`: acquisitions go on, time passes, the idle checker's thread runs, and
a shutdown once begun ends. Nobody need release, and the process need not end.

`SessionPool`: calls and owner tasks that can proceed do, and callbacks posted to a
loop run or are dropped with it. `initialize()` need never answer.

`MemoryUpdate`: timers fire, threads run, model calls and accesses to the file
return. Nobody need add a turn or call the API.

`ChannelManager`: the dispatch loop and the handlers run, and runs of the gateway
end. Nothing need fail, and providers need not deliver.

## What is proved

TLAPS checks the following for every value of the constants that the named
assumptions allow (any sets of runs, threads, tasks, slots, clients, workers and
conversations; any bounds, buffer size and cap). TLC evaluates the assumptions in
every run.

| theorem | statement |
|---|---|
| `RunLifecycleProofs!TypeCorrect` | `Spec => []TypeOK` |
| `RunLifecycleProofs!AdmissionSafety`, `CleanupOrder`, `GraphExclusion` | `[]AdmissionInv`, `[]OlderCleanupFirst`, `[]OneGraphPerThread` |
| `RunLifecycleProofs!DurableAgreement`, `CleanupSafety` | `[]DurableStateAgrees`, `CleanupKeepsOthersWork` |
| `ScheduledTasksProofs!TypeCorrect`, `ActiveRowsAttended`, `RowsShowOutcome` | `[]TypeOK`, `[]ActiveRowAttended`, `[]RowShowsOutcome` |
| `ScheduledTasksProofs!CapHolds`, `RunsDoNotOverlap`, `OnceTasksHold` | `[]ScheduledCap`, `[]ScheduledRunsDoNotOverlap`, `[]OnceTaskHolds` |
| `StreamBridgeProofs!MemoryTypeCorrect`, `NoWakeupLost`, `MemoryNewestEventsArrive` | `[]TypeOK`, `[]NoLostWakeup`, `[]RetentionOK` |
| `StreamBridgeProofs!MemoryRefinement` | `Spec => ImplementsEventStream` |
| `StreamBridgeProofs!RedisNewestEventsArrive`, `RedisRefinement` | `RedisSpec => []RedisRetentionOK`, `RedisSpec => RedisImplementsEventStream` |
| `SubagentTaskProofs!TypeCorrect`, `EntriesAreKept`, `UsageReported` | `[]TypeOK`, `[]EntriesKept`, `[]AnsweredUsageReported` |
| `SubagentTaskProofs!Refinement` | `Spec => ImplementsTaskOutcome` |
| `SandboxPoolProofs!TypeCorrect`, `Exclusion` | `[]TypeOK`, `[]PoolMapsOK` |
| `SandboxPoolProofs!NothingLeaks`, `HealthCheckSparesTheLiving` | `[](faults <= 1 => NoLeakedContainer)`, `DropsOnlyDead` |
| `SessionPoolProofs!RegistryIsSound`, `NoSessionIsLeaked` | `[]RegistryOK`, `[]NoOrphanSession` |
| `MemoryUpdateProofs!QueueIsAttended`, `CacheIsCurrent`, `EditsAreBasedOnLatest` | `[]QueueAttended`, `[]CacheCurrent`, `EditsBuildOnLatest` |
| `MemoryUpdateProofs!NothingIsForgotten`, `ModelSeesTurnsInOrder` | `[]NothingForgotten`, the safety half of `TurnsReachModelInOrder` |
| `ChannelManagerProofs!Deduplication`, `RegistryBounded`, `ChatsShareThread` | `[]DedupeOK`, `[]RegistryOK`, `[]OneThreadPerChat` |

Admission. `OlderCleanupFirst` is not inductive: it says nothing of the moment
before a run passes its wait. `AdmissionInv` adds three parts. `LockInv`: whoever
awaits the store under the lock has the newest ticket, and a rejecting one found
its thread free. `RunInv`: a record is active or finalizing as long as its
task is before its `finally` block, and an aborted record has a cancellation on
its way to the task. `PairInv`: once a run is admitted, an older run of its thread is
inactive, and finalizing while its task is not yet in its `finally` block. A run
that passes its wait has therefore no older run that is still before the
`finally` block, which is both theorems. A run cancelled before its task existed
(`detached`) escapes the argument, as it escapes the code: nothing raises its
`finalizing` flag.

Durability. `DurableInv` has two parts. `DurableRun` follows a run's row: none
before the record is admitted; then the row is the record's status as soon as that
was written, or an interruption is on its way, has arrived, or was lost; an
active row of a serving process has a record, or, without SQLite, belongs to a run
that died with an earlier process. A cancellation not yet delivered
makes the difference between a record and its row an interruption, which is what
the steps of a replaced run need. `DurableThread`: a thread left
running has a run that will still speak for it, or that left with its process: only
`start_run` marks a thread running, on behalf of a run whose `finally` block is
ahead, and that block writes the status of a record that is no longer active.

Cleanup. What a rollback may remove depends on what other runs wrote since its
snapshot was captured, and a title since its head was read. `TurnsInv` says
that the runs of a thread take turns with its head: one that has loaded it
(`Holds`) finds every older run `Over`, that is, without a write to come. Both
waits establish it, because an older run that could still write is active, which
`PairInv` forbids, or finalizing, which the wait sees; the exception are the runs
a drain stopped, which are the newest of their threads (`DrainInv`). `FlagInv`
says what a run at each place of its `finally` block is known to have stored,
`TicketInv` that tickets differ. So nobody else writes between capture and
rollback: `HeldInv` says that all of the head that is not the run's own is in
its snapshot, or in the head it puts the title on. A rollback
that captured no snapshot empties the head whoever wrote it, which is the
disagreement below; the property speaks of the others, and of threads none of
whose runs was `detached`.

Scheduler. `FlowInv` says what a dispatch, its run and its hook know of each other
at each place of their control flow, `SettleInv` what holds where no fault struck
and the task was not deleted under its own commit: a dispatch that fails has no
run, a launched one has, and, unless there was a race (`ShownOf`), the hook is
about to write the outcome or the row shows it. The guard `WriteRunning`
(`protect_terminal`) keeps the last clause when the launch's write loads the row
after the hook committed, and the hook itself when it commits after that write;
nothing keeps it when the hook commits in between, which is why the two theorems
name that case.
The other theorems add `WorkInv`: the poller counts, claims and dispatches in turn, one
dispatch at a time, and a dispatch nobody triggered by hand is its. `CapInv` then
counts what may have an active row (the scheduled dispatches with one or about to
make one), what is claimed and what room the poll has left: together they
never exceed `max_concurrent_runs`, because a dispatch takes its claim's place
and a claim the room's. `OverlapInv`: where only the poller dispatched, a live
run shows in its row, and the overlap check of the next dispatch sees it.
`FiredInv` and `OutcomeInv` follow the launches of a once task and the write that
settles it; `ClaimInv` shows that the split transaction does no harm there: the
launch's bookkeeping loads a once task that its claim made `running` and writes
`running`, so its commit holds no status, and a hook in between is kept. The counting needs `IsFiniteSet(Task)`; a database has finitely many
rows.

Stream. The proofs of both bridges stand in `StreamBridgeProofs`, which extends both
models; they share the variables of `StreamReaders`. `MemoryInv` is: an event a client has not received and its
subscription is past is on the wire or evicted (`CoverInv`); the wire is increasing,
beyond the client's last event, and ends with `END` only when everything else is
drained (`WireInv`, `StageInv`); a buffer that has evicted is full
(`BufferInv`); what a client skipped had been evicted (`MissedInv`). The refinement
mapping takes `floor` to `start` and a client's `position` to the event after its
`last` one: receiving a frame is `Receive`, receiving `END` is `Finish`,
connecting without an id is `Restart`, and everything a subscription does is a
stutter, because the promise is about what clients receive.

Redis stream. The key is a floor below which entries are gone. `FloorInv`: what an
existing key lacks went with an older key or was trimmed. `SkipInv`: what a
response passed over is below the floor, and was old; `LostInv`: so is what a
client missed. `WorkerInv` bounds the end markers: one by the worker, one more by
the recovery when the row missed the terminal status, so the newest
`queue_maxsize` events outlive both. In the refinement the run is closed when its record or its
row says so; an answer of the probe and an end marker are `Finish`, whoever wrote
the marker.

Subagents. `SubagentInv` says per task who holds the lock and what it has stored
so far (`LockOf`), that before a verdict nothing is stored and the entry is there
(`EarlyOf`), and what an answer implies (`AnswerOf`): a call that cleaned up its
entry itself saw a payload, so the usage it reported is the whole. A call broken by an
exception is outside both: its entry stays, and its usage may go unreported. Between the two halves of
`try_set_terminal` the holder shows "open"; the refinement maps the second half to
`Decide`, every poll that finds a verdict to `Answer` and every giving up to
`Abandon`.

Sandboxes. Exclusion is not inductive: an acquisition looks at the pool twice and
trusts its first look. `LockInv` says that a worker at a place inside the thread
lock of a scope holds it; `ClearInv`, what the holder may rely on there (no other
map holds the sandbox it is about to register), as long as at most one fault has
happened; `SweepInv`, that the idle checker destroys a sandbox it verified. A
cancelled acquisition is such a fault: its executor call goes on without the lock,
and the proof follows that one call. With two of them the property fails, see
"Disagreements".

Containers. `ContainerInv` follows the containers through the steps that are taken without
the lock. `PlaceInv`: an entry stands at its own scope, so that a stop of it hits
the container of that scope or none. `StopInv`: what the idle checker and
`shutdown` collected is stopped before they collect again. `HandInv`: an info
that is not registered yet is in no map and in no other hands. `LostInv`: a container is lost by a
fault or by the end of the process that was one, and a cancelled call has not
lost one before it returns. A restart keeps `Known` because what the listing
misses becomes lost. `Known` is
the leak property itself; each step hands a running container on from the maps to
hands, from hands to the maps, or to the list of what will be stopped, and the
exclusion of active and warm is what makes `_remove_tracked_sandbox` hand on
the right one of two entries. `DropInv`: what a health check found dead is still
dead as long as the entry it looked at stands, because only `create` starts a
container and its scope has no entry then. Both hold up to one fault: beyond it
the exclusion may fail. The run `Sandbox` checks `NoLeakedContainer` with two.

Sessions. Who has yet to shut an owner down changes: the registry, the creation in
flight, the list of a call, a loop with a posted callback, then the owner itself,
which was told; `NoOrphanSession` says that one of them is always there, and every step
has to hand the owner on. What makes that inductive is that an owner which left
the registry is `Gone` for good: `Promote` registers only a creation that is still
in flight, and `Enter` starts only a new one. So `ListsInv` and `PostedInv` say that what a call or
a loop has yet to close is gone, and that only a call which evicts, waits or was cancelled
has a list (`Shape`). `RegistryInv`: entries have different keys, a key with an entry has no
creation, and a creation is for its own key. `OwnersInv` relates each call with its
owner task and future: what is not gone has not been told, unless its creator is
unwinding, and a future that is set has an open owner or one that was told. The
filter of the registry by key is a recursive function; `EntriesOfDef` and `Kept` say what it
returns, by an induction over the naturals from the well-foundedness of `<`.
The proof needs finitely many calls and keys, and `Nobody` to be no call.

Memory. `ThreadInv` is `QueueAttended` with the places a timer's thread may be at;
it is inductive because of who cancels or replaces a timer: `Schedule` arms a
successor in the same section, and `_process_queue` takes the whole queue.
`StorageInv` is the cache and its two sources: an mtime anybody has seen is of the
past (`Past`), what a client is about to cache is the file's state if the mtime it
saw is still the file's (`ToCache`), and an edit nobody crossed is based on the
file's state (`ToEdit`) - unless the client's memory comes from an access that
failed (`misread`, which the cache takes over and hands on). Once somebody wrote between a client's own access to the
file and the stat after it (`spoiled`), neither is promised any more.
`NothingForgotten` needs `ForgetInv`: one thread works at a time (`WorkInv`), a
conversation stands once in its batch, with no older turn than the model was given, and in
the queue with its last turn (`TurnInv`), and what the model was not given is in
one of the two (`KeptInv`);
`BudgetInv` keeps the numbers of edits within their type: every context and every
open request still has a number. The API is a client of its own
(`Api \notin Timer`).

Channels. `DedupeInv` adds to `DedupeOK` that the loop takes deliveries in order and
that a message that was handled has its key among the recent ones unless it was
forgotten. `LockInv` says who holds or awaits which lock object: one handler is
inside a lock (`Mutex`), all handlers of a conversation have the same one, and it
stays in the registry until a thread is stored (`OneLock`), as long as no creation
failed under it (`frayed`); so whoever creates a thread finds none (`ChatOf`).

Only model-checked: the liveness properties, which are beyond the prover, with
the second half of `TurnsReachModelInOrder`, which says that something is
eventually done; and `NoLeakedContainer` with more than one fault.

## Disagreements

`RunRollbackRevertsOnlyOwnWork` shows that the code does not keep what the
repository says: a run cancelled with rollback before it captured its snapshot
finds none and empties the thread (`worker.py`,
`_rollback_to_pre_run_checkpoint`). The quotation is in `PROJECT.json` under
"findings".

Properties that stand in the modules and do not hold, with the instance that
shows it:

- `RunLifecycle!RestartLeavesNothingActive` (the instance of `RunFaults`):
  reconciliation is there "instead of letting the UI show an indefinite active run"
  (`manager.py:708`), but `deps.py:291` calls it on SQLite only: on Postgres the active
  rows and the running threads of a process that died stay. On SQLite a thread
  stays `running` when its run's row was already terminal at the exit, by a drain that marks it
  interrupted for instance, since only threads of recovered rows are marked;
- `ScheduledTasks!OccurrenceConsumedOnce` (Task and Once `{o}`, Fresh `{}`, two
  slots, MaxConcurrent 1, MaxExits 1, other bounds 0): a process that dies between
  the launch of a once task and the write that ends its lease leaves a lease that
  expires; the task is launched a second time, although
  `scheduled_tasks/sql.py:215` calls tasks that hold a lease "claimed but not
  launched";
- `ScheduledTasks!TerminalRowKept` (Task and Once `{o}`, Fresh `{}`, one slot,
  MaxConcurrent 1, other bounds 0): `protect_terminal` is there so that the launch's write
  should "never clobber its terminal status" (`service.py:152-153`), but
  `update_status` tests it on a row loaded before the commit
  (`scheduled_task_runs/sql.py:86-107`); a hook that commits in between is
  overwritten with `running`. The row then has nobody to settle it, counts against
  `max_concurrent_runs` and blocks its task until the next start reconciles it;
- `ScheduledTasks!SkipHolds` (Task and Fresh `{c}`, Once `{}`, two slots,
  MaxConcurrent 1, MaxManual 1): `has_active_runs` and the creation of the row are
  two transactions; a manual trigger and a poll pass the check together;
- `ScheduledTasks!RunningStaysReclaimable` (the same, Fresh `{}`): a manual trigger
  that read a claimed cron task and fails writes back `running` without a lease;
  nothing claims it again;
- `MemoryStream!EndReachesEveryClient` (FairSpec, one client, MaxSize 2, one event,
  one connection): joining a finished run after the cleanup creates a stream
  nobody ends;
- `RedisStream!EndReachesEveryReader` (the instance of `StreamRedis`): a response
  whose record was hydrated while the run was active hears nothing when the key
  expires, with the end marker in it, before it has read it
  (`stream_bridge/base.py:57-61`);
- `SubagentTask!CancelledOnlyWhenAsked` (the instance of `Subagent`): the timeout
  sets the cancel event before it stores its own verdict (`executor.py:876`), and
  the subagent may notice it first and say "Cancelled by user";
- `SubagentTask!NoEntryLeaks` (one task, PoolSize 1, MaxPolls 1): an exception in a
  call, other than its cancellation, passes `task_tool.py:556-558` or is raised before
  the `try` block, and the entry stays with a subagent nobody stops
  (`executor.py:940`: "This prevents memory leaks");
- `SandboxPool!EvictionSparesActive` (two workers, two scopes, Replicas 1,
  MaxObjects 6, MaxCalls 3, no faults) and `IdleDestroyIsIdle`: an eviction pops a
  warm entry before it stops the container, and the idle check and the destruction
  are two critical sections; in between an acquisition may find the container,
  use it and lose it (`aio_sandbox_provider.py:379-381`, `820-825`);
- `SandboxPool!NoContainerRunsForever` (the instance of `Sandbox` with one call and
  one fault): `_reconcile_orphans` says it "closes the fundamental gap where
  in-memory state loss (process restart, crash, SIGKILL) leaves Docker containers
  running forever" (`aio_sandbox_provider.py:251-252`). A `docker ps` or `docker
  inspect` that fails at the start (`local_backend.py:414-446`, `484-512`) is only
  logged; what it missed is adopted by nobody and runs until its own thread asks
  for a sandbox again. So does a container whose creation was cancelled;
- `SessionPool!NothingLeftBehind` (the instance of `Sessions`): a call cancelled
  while it awaits a shutdown on another loop raises; that shutdown may be cancelled
  before it ran, and the rest of the list is dropped: sessions taken out of the
  registry stay open and are in no map any more
  (`session_pool.py:202-208`, against "Close every managed session");
- `SessionPool!ClosingEndsCreation` (the instance of `Sessions`): an owner blocked
  inside `initialize()` does not look at its close event, and its creator waits
  with it;
- `ChannelManager!ChatsNeverSplit` (the instance of `Channels`): when a creation
  fails with another handler waiting for the lock, the `finally` block drops the
  registry's entry, a newcomer makes a second lock, and two threads are created;
  so does a creation that failed after the gateway had made the thread;
- `ChannelManager!EveryMessageAnswered` (the instance of `Channels` with one
  failure): `_send_error` looks the thread up before it publishes (`manager.py:1886`),
  and nobody catches what that lookup raises: it is only logged. A sender whose
  session or skill is not configured is told nothing then and his key stays, so that
  the provider's redelivery is turned away; one whose handler failed before hears no
  apology, but his key is released. `AnsweredUnlessSilenced` names this exception
  and says how many failures it takes.

Behaviour met while modelling that the passing properties exclude by a named
condition:

- a run cancelled after `create_task` and before its first step keeps
  `finalizing`, since no `finally` block lowers it: the next run of the thread
  waits for as long as the process lives, since `wait_for_prior_finalizing` has
  no timeout and nothing removes the record (`StartedRunEndsStream` excuses it),
  and its scheduled task-run row stays active (`RunNeverRan`);
- a run cancelled while `start_run` has not yet made its task has no flag raised;
  its task starts later and may overlap a newer run (`detached`);
- the drain collects pending and running records (`manager.py:808`): a task that
  was cancelled just before is not awaited and may still write a checkpoint;
- with `scheduler.enabled` false nothing reconciles rows of manual dispatches;
- manual triggers are not counted into `max_concurrent_runs`, which
  `docs/CONFIGURATION.md` calls a global cap; `ScheduledCap` counts scheduled rows;
- a pause between a manual trigger's read and its last write is overwritten, and a
  PATCH that re-arms a once task can be overwritten by a slow launch;
- two acquisitions cancelled inside `_reclaim_warm_pool_sandbox` can leave a
  sandbox active and warm, or drop a live one (`PoolMapsOK` and `DropsOnlyDead`
  speak of one fault; four workers, six calls and two cancellations show it);
- a memory that somebody else writes between one client's replacement or read and
  its stat is cached under the wrong mtime until the next write (`spoiled`,
  `storage.py:124`), and of two clients that load before either saves, the later
  save loses the earlier edit (`crossed`);
- a memory file that cannot be read or parsed once counts as empty, which is only
  logged; it is cached under the file's own mtime, so that nobody reads it again, and
  the next edit replaces what was saved (`storage.py:108-117`, `misread`;
  `MemoryUpdate!NoReadLosesMemory` does not hold: a write of another process and one
  edit of a fact whose read fails). An edit whose stat fails may start from a memory
  that was cached without an mtime;
- the context queued before a summarization removes its messages is replaced by
  the next turn's context, which no longer has them (`queue.py:126-155`); `flush`
  returns without processing while another thread works; a processing thread
  forgets a timer that is not its own (`queue.py:194`);
- a streaming chat answers its own failure and keeps its key, so that a redelivery
  is dropped; `/new` and `/goal` create threads without the lock (`Unlocked`).

## Not modelled

Goal continuation and the run journal with its event stores are the next
candidates. Out of reach and staying so: the content of prompts and messages,
external services and provider adapters, SQL isolation beyond the two transactions
that are split, the frontend, deployment files and the batch scripts of the lead
platform. Most of the platform's lines are tools, adapters, middlewares, routers
and configuration that transform one request's data and keep no state between two
steps; `PROJECT.json` says so component by component. The models cover the
components that do.

## Plan

1. Proofs: `NoLeakedContainer` beyond one fault, which needs the leak argument
   without the exclusion of active and warm.
2. Goal continuation as more places of `BodyPc` in `RunLifecycle`; the event store
   and the journal; the lifecycle of `ChannelService`.

## Running it

    tlc -workers 2 -config RunFaults.cfg MCRunLifecycle
    tlc -workers 2 -config Channels.cfg MCChannelManager
    tlapm RunLifecycleProofs.tla

The instance of a run is in the cfg of its name. The long runs take two to four
minutes with two workers, a proof module up to some minutes from nothing.
