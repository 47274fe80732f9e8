# OFbot 2 in TLA+

OFbot 2 is a chat bot in Python: one `asyncio` process that keeps protocol
connections to chat platforms, dispatches messages to plugins, runs scheduled
tasks and workflows, and serves an administration site. This directory holds TLA+
modules translated from its source (paths below are relative to `src/`), the TLC
configurations that check them, and proofs for TLAPS.

Everything in the process runs on one event loop. A coroutine runs undisturbed
from one `await` to the next, so **one action of a module is the code between two
awaits**, and interleaving means that other coroutines run at an await. What is
hard in this program is therefore not a data race but state that is read before
an await and used after it, two requests inside one operation, a task that is
cancelled where nobody thought of it, and steps of which one fails.

## 1. The system's parts

| Part | State it keeps | Operations | Interacts with | Hard behaviour | What makes it correct |
|---|---|---|---|---|---|
| Worker pool, `app/core/background.py` | queue, `_active` table, workers, unfinished count | start, submit, take, clean up, stop | `main.py`, exports, reconnect buttons submit | a full queue, jobs of one name, cancellation inside a worker, endless jobs | exact books, no stale entry, nothing runs after stop, queued jobs run |
| Process, `main.py` | everything's construction | `run()`: build, start, submit loops, serve, shut down | all | the order of starting and stopping | what is accepted runs |
| Connections, `app/adapters/*`, `app/runtime.py` (`build_adapters`), `web/routers/connections.py` | `ConnectionManager.adapters/tasks`, `BotClient.adapters/status`, per adapter `_running`, `_generation`, `_ws` | connect, fail, back off, stop, reconfigure, reconnect, dial in | settings, pool, web, bus | overlapping requests, zombie loops, sockets replaced by others | one loop per bot, true status, tables agree, what is adopted runs and is what is enabled |
| Plugins, `app/core/plugin.py` with `subscriptions.py`, `plugin_tasks.py`, `scheduler.py`, `commands.py` | `loaded`, command names, subscriptions, jobs and task entries, modules, background tasks | load, start, unload, reload and roll back, toggle a task | web routes, settings, `plugin_states` table, pool | a load or start that fails half way, requests that overlap an unload | a plugin is whole or gone, nothing survives its instance, choices are kept |
| Commands, `app/core/commands.py`, `parsing.py` | names and aliases and who owns them, cooldowns, rate limits | register, unregister, resolve, handle a message | plugins, permissions, rules, sessions | overwritten aliases, gates that return early | a name leads to its owner; one message has one outcome |
| Gates: `permissions.py`, `rules.py`, `scopes.py`, `whitelist.py`, `security.py` | roles, grants, scope switches, lists, rate windows | check | commands, web | boundary values, order of the gates | no message passes a closed gate |
| Sessions and cache: `sessions.py`, `cache.py` | sessions and entries with times | get, touch, prune, evict | commands, plugins | eviction of what is in use | bounded, never expired when returned |
| Scheduled tasks, `app/runtime.py`, `scheduler.py`, `web/routers/tasks.py` | `Task` and `TaskRun` rows, jobs | execute, count failures, disable, re-enable, edit | scheduler, adapters, alerts | an edit during an execution; a patrol against an admin | a disabled task does not run; edits are not lost |
| Workflows, alerts, webhooks: `services/workflow.py`, `alerts.py`, `webhook.py` | definitions, runs, last notification | trigger, execute, check, notify, retry | bus, adapters, each other | alert -> workflow -> alert | the loop is bounded |
| Plugin processes, `plugin_ipc.py`, `plugin_worker.py` | pending calls, process, reader | request, answer, time out, die, stop | plugins | late answers, a process that dies | every call has one outcome |
| Event bus, `bus.py`, `subscriptions.py` | handlers, tasks, history, stopped flag | dispatch, stop | everything | delivery to a plugin that is being unloaded | nothing is delivered after stop |
| Exports, `web/export_jobs.py`, `routers/exports.py` | jobs in memory and rows | create, run, retry, clear | pool, records | restart, retry of what runs | a job reaches done or failed |
| Installer, repository, backup, scaffold: `services/*` | directories and archives | install, update, back up, restore | plugins | a crash between two steps | the old or the new, never half |
| Web and authentication: `web/*` | sessions, login attempts, CSRF | routes | all | throttling boundaries | |
| AI service and agent, `services/ai.py` | conversation, budget | chat, tool loop | capabilities | bounded tool loop | |
| Records, state machine, aggregation, audit | rows | queries | plugins, web | | |

`PROJECT.json` lists each part with the reason when it is not modelled.

## 2. Modules

| Module | Models | Kind |
|---|---|---|
| `JobPool` | what callers of the worker pool rely on | abstract specification |
| `BackgroundWorker` | `app/core/background.py` | detailed, implements `JobPool` |
| `MCBackgroundWorker` | five jobs, two workers | instance for TLC |
| `BackgroundWorkerProofs` | the pool's invariants, its action property and the refinement, also from start-up | proofs |
| `BotStartup` | `main.py`'s submissions and shutdown over the pool | composition |
| `MCBotStartup` | the loops of `main.py` and an export | instance for TLC |
| `Connections` | reconnect loops, sockets, manager, admin requests | detailed |
| `MCConnections` | two bots, two requests, one client | instance for TLC |
| `ConnectionsProofs` | types, true status, tables agree, no orphan, one link, adapters run and settings are applied | proofs |
| `PluginLifecycle` | one plugin's life under web requests | detailed |
| `MCPluginLifecycle` | three requests | instance for TLC |
| `PluginLifecycleProofs` | types, handlers accounted for, choices kept, whole or gone, settings match | proofs |
| `TaskHealing` | one scheduled task: row, job, history, executions, patrol, requests | detailed |
| `MCTaskHealing` | two executions, two requests | instance for TLC |
| `TaskHealingProofs` | types, the last word, cycles of a mark, jobs match rows | proofs |
| `Automation` | event bus, alert rules, workflows, and how they set each other off | detailed, implements `WorkflowRuns` |
| `WorkflowRuns` | what the workflow engine promises of its rows and runs | abstract specification |
| `MCAutomation` | three rules, two of one name, two workflows, three handlers | instance for TLC |
| `AutomationProofs` | types, interval, rules heard, runs owned, failing workflows off, the bounded chain and the refinement | proofs |
| `Commands` | command registry and the path of a message | detailed |
| `RemoteCalls` | what callers of a plugin's process rely on | abstract specification |
| `PluginIpc` | the bridge to a plugin's worker process, and the worker | detailed, implements `RemoteCalls` |
| `PluginIpcProofs` | no call forgotten, stop is final, the refinement | proofs |
| `MessagePipeline` | `Commands` with a plugin behind a `PluginIpc` bridge | composition |
| `MCMessagePipeline` | five plugins that contest five words, one message | instance for TLC |
| `MessagePipelineProofs` | the pipeline implements the bridge; its registry and its records are right | proofs |
| `Exports` | one export: dictionary, row, coroutines | detailed |
| `MCExports` | two coroutines, two requests, a restart | instance for TLC |
| `ExportsProofs` | types, exports settle, done stays done | proofs |

Definitions whose comment begins with *Slip* are variants of the definition that
follows them, with a mistake one could make in that code. They belong to no
specification; substituting one for its original makes TLC report the property
that guards against it.

### BackgroundWorker

`stage[j]` is where the coroutine `j` is: handed to `submit()`, waiting for room
(`blocked`), in the queue, running inside a task, ended but not yet noticed by its
worker (`returned`, `cancelled`), or over. `worker[w]` is where `_worker(w)`
stands, `holds[w]` the job whose task it awaits. `SkipDuplicate`, `Enqueue`,
`Block` and `Unblock` are `submit()`, split at the `await` of `queue.put()`;
`Take` runs from `queue.get()` to `await task`; `JobReturns` and `JobCancelled`
end the task; `Reap` and `WorkerDies` are the rest of the loop body with its
`finally` clause, by normal end and by `CancelledError`; `StopBegin` and `StopEnd`
are `stop()` before and after it waits for the workers. An exception of a job and
its normal return take the same path and are one action.

`JobPool` sees a set of queued jobs, the running ones and whether the pool has
stopped, but neither workers nor the table: a submission is refused only when a job
of its name runs, what was accepted runs at most once, and after `Stop` nothing runs.

### BotStartup

`main.py` starts the pool and submits the plugins' coroutines and its four
maintenance loops one after the other, each with its own await; then the web
application may submit exports. Everything else of the pool is `BackgroundWorker`.

### Connections

An adapter object is a bot and the build that made it (`build_adapters()` makes
new objects at every reconfiguration); a loop is an object and the number of its
`start()`: number 1 by `ConnectionManager.start_all()`, others through the pool by
the reconnect button. `loop[l].at` follows `run_reconnect_loop()`: created,
connecting (in the handshake), receiving, backing off, cancelled, ended.
`StopMarks` is the part of `OneBotAdapter.stop()` before its first await. A
request walks through `stop_all()` one connection at a time (`StopNext`,
`TaskAwaited`, `Closed`), sweeps the adapters (`SweepNext`), and `Adopt` is the
rest of `reconfigure()`, which has no await. A reverse client dials, is served or
refused by what the route finds, and hangs up. Adding, deleting and toggling a
connection all save the settings and reconfigure; the model's `Toggled` stands for
all three, since a deleted connection and a disabled one are built alike: not.
`halted` is history: the adapters that gave up (`LoopFails`) and those whose reconnect
button was pressed (`BeginReconnect`), whose loop is then the pool's or nobody's.
`Built` and `Forward` are the two lists of `build_adapters()`: reverse adapters are made
and are then in neither the manager nor any table but the routes, which is why
`SettingsApplied` speaks of forward connections and `ReverseServed` of the others.

### PluginLifecycle

One plugin is enough: plugins share no state but names of commands, which
`Commands` has with several plugins. Every `load_plugin()` makes a new
instance, numbered in order; `loaded` is the entry of `PluginManager.loaded`. What
the plugin registers is split by origin: `"decl"` by its manifest, `"dyn"` by its
`setup()`, with one command, one listener and one task each. A request is idle,
`closing` (inside the awaits of `unload_plugin()`), `starting` (inside
`start_plugin()`), about to save, or done. Each action is the stretch between
awaits: `BeginLoad` is the whole of `load_plugin()`, which has none. `marks`
records what a run has seen -- an overlap, a load over a loaded plugin, a
rollback, a lost configuration, leftovers of a failed load, a failed start, an
unload nobody saved -- so that a property can say when it applies; no action reads
it. Background coroutines are assumed to be loops, as every one in the repository
is: they end only when cancelled.

### TaskHealing

`row` is the row of the `tasks` table, its `params` one JSON column; `job` whether
the scheduler holds the task's job; `history` the statuses of its `TaskRun` rows.
Everyone who writes the row works on a copy: a SQLAlchemy session reads it, awaits,
and commits the columns that differ from what it read (`Committed`). Because
`params` is one column, a writer of one key writes all of them, and because the
engine is made with `expire_on_commit=False`, an execution works on its first copy
to the end. `ExecutionBegins`, `ExecutionRecords` and `ExecutionJudges` are
`_execute_task()` up to the send, from the send to the commit of its run, and the
counting of failures with the disable; `PatrolReads`, `PatrolWrites` and
`PatrolSchedules` are `auto_reenable_disabled()`; `RequestReads`, `RequestWrites`,
`RequestSchedules` and `RequestUndoes` the routes of `web/routers/tasks.py` and
`api.py`, which differ in `Outcomes`: what they write, whether they clear the mark
of the automatic disable, whether they tell the scheduler. `Restart` ends the
process anywhere and runs `restore_tasks()`. Automatic disables are numbered; the
number is the stamp `params["auto_disabled"]`, `cold` the newest one that is past
its cooling time.

### Automation

`EventBus.dispatch()` makes a task of every handler, so an action is a stretch of a
handler between two awaits. `task[s].at` says which await a handler is at: not yet
begun, at the insert of an alert (`Persists`), at the notifier (`SendRaises` when it
fails), at the query for workflows (`Lists`), at the insert of a run (`Starts`), in
its steps, at the record of the outcome, at the count of failures (`Judges`), at the
disable. `Goes` is the end of a stretch with the event it dispatches, which may
begin a new handler. `AlertService.rules` is a Python list: removing makes a new list,
adding appends to the present one, and a check goes on over the list it began with,
hence `lists` is a sequence of lists and a handler has a generation and an index. A
rule is an object with a name (`NameOf`), and nothing makes names unique: adding looks
at none of them, removing drops every rule of a name (`RemovedFromNew`), switching takes
the first one (`ToggleRule`), and rules of one name share the time of the last
notification (`Noted`), which each compares with its own interval: `recent` has a pair
of rule and event while a notification under that name is younger than this rule's
interval. A rule with no interval notifies whenever it matches, once for each object.
`Saved` are the rules the settings bring back at the start. `missed`, `calls`, `excused` and `cutoff` are history: what a finished
check owed, how often a rule was notified within an interval, which workflows were
enabled since their last run began, which runs the stop of the bus cut off.

`WorkflowRuns` sees the rows of the workflows and the statuses of their runs, and no
handler. A run begins (`Begin`, the insert in `execute()`) and ends (`End`, whoever
records its outcome); a workflow is judged by its newest runs (`Judge`, the query of
failures) and later switched off (`SwitchOff`), whatever happened to it in between;
the patrol, the site and the API switch on, redefine and delete. Its third variable,
the workflows judged and not yet switched off, is in `Automation` the set of
workflows that a handler at the disable names. Everything else that `Automation`
does -- alerts, notifications, lists of rules, the bus that stops -- is a stutter, or
`Forget` when a handler that judged is cut off.

### Commands, PluginIpc and MessagePipeline

`Commands` has the registry's two tables. A command is the plugin that declares it
with the names it claimed. `AtBoot` and `Alone` are the two ways `plugin.py` decides
on names: at boot, where the system plugin may take an alias that was kept before it
came and others get a dotted name, and when one plugin is loaded from the web.
`BootPlugin` is one turn of the loop of `load_enabled()`. `Unregistered` pops every
name a plugin ever registered, also those that others have taken over.
A message walks through `handle_message` (`Arrives`, `Ruled`, `HandlerReturns`,
`HandlerRaises`, `Counted`, `FailureCounted`, `Replied`, `Cut`); its `log` is what
the journal, the audit log and the statistics row recorded. Each gate may refuse any
message.

`PluginIpc` is one life of a `PluginProcessBridge` and its worker. The pipes are
`stdin` (a set: the worker starts a task per line) and `stdout` (a sequence). A call
is new, draining, waiting, or over; `future` is what its future holds, which the
read loop may set before the caller runs. The worker may hang, wake up and die at
any moment. The read loop ends at the end of the stream (`ReaderEnds`), at a line it
cannot take while the worker lives on (`ReaderFails`: `readline()` raises on more than
64 KiB, and JSON that is no object at the first look into it), or when `stop()` cancels
it (`StopEnds`). Each tells the calls then pending. `request()` does not ask whether the
loop still runs: later calls are entered and written all the same, `late` has them, and
the worker may carry them out, but what it writes reaches nobody (`Prints`).

`RemoteCalls` has no pipes, futures, read loop or process, only what the caller knows
of a call and what has become of it on the other side. A call that is draining or
waiting was asked for; its work is sent while its line is unread, running while a
handler is at it, done while its answer is on its way or in the future, and otherwise
nowhere. Then a worker that dies, an error instead of an answer and an answer that
finds nobody waiting are all the same to the caller (`Lose`), a timeout is `GiveUp`,
and the end of the bridge is `Close`, after which nothing is carried out any more.

`MessagePipeline` extends both. Invoking the handler of a remote command is
`Request` of the bridge in the same step; the handler returns when the call was
answered, raises when it failed; unloading awaits the bridge's `stop()` before the
commands are unregistered.

### Exports

`live` is the dictionary in `app.state.export_jobs`, `row` the status in the table,
and a coroutine in the pool holds a dictionary of its own, which after a retry or a
clean-up need not be the live one. `_persist_export_job()` is three steps, because a
select, an assignment and a commit have awaits between them (`Selected`, `Commits`).
The retry of one export is three as well: it misses the dictionary (`RetryLooks`),
selects the row (`RetryFinds`), and once its session is closed goes by that row, which
may have changed by then (`RetryUses`); `RowsListed` and `RowUsed` are the same gap of
retrying all.
The initial state is the creation of the export; other exports appear as `Crowded`,
the retention that pushes this one out of memory.

## 3. Runs

| Run | Shows |
|---|---|
| `BackgroundWorker` | with two workers, a queue of one place and five jobs: books exact, no stale entry, `stop()` returns, a queued job runs unless every worker is gone or in a loop, `JobPool` is implemented, so nothing runs after `stop()` |
| `Connections` | with a forward and a reverse connection and two requests of any kind: true status, agreeing tables, one loop per bot when requests take turns, every adapter of the manager runs unless it gave up or was reconnected by hand, requests that take turns leave just the enabled forward connections, a shutdown leaves nothing running, every request ends |
| `PluginLifecycle` | with three requests of any kind: whole or gone, no handler of an instance nobody can reach, off stays off, settings match what runs |
| `TaskHealing` | with two overlapping executions, the patrol, two requests and a restart: the administrator's last word holds, the mark of a disable has its cycle, the scheduler agrees with the row |
| `Automation` | with a rule that hears of the failures of the workflow it triggers: the interval is kept, no rule is overheard, a failing workflow ends up off, runs have an owner, the chain is bounded, `WorkflowRuns` is implemented |
| `MessagePipeline` | with five plugins, one in a process that hangs and dies: names lead to loaded plugins that keep them, records agree with what happened, no call is forgotten, unloading ends with the worker dead, `RemoteCalls` is implemented |
| `Exports` | with automatic and manual retries, retention and a restart: memory and table end up agreeing on done or failed, what is done stays done |

Several of these hold only with exceptions, and the comment at each property names
them: they are what the run found, and each exception was added only when TLC had
shown a trace without it. The more remarkable ones:

- `TaskHealing`: somebody who commits over a row that changed since it was read
  undoes what the other wrote, an edit included; enabling a task in bulk or by the
  API leaves the mark of its automatic disable, so that the patrol may turn on what
  was turned off by hand later; the API's toggle does not tell the scheduler.
- `Connections`: two submissions of one adapter's `start()` may both run
  (`"pool"`, the gap between the check in `submit()` and the entry made by the
  worker), as may two retries of one export (`"crossed"`). After two reconfigurations
  that overlapped the manager's adapters may differ from the settings, since the one
  that builds last need not be the one that adopts last: there `SettingsApplied` asks
  only that what was adopted runs. It never asks for a reverse connection: none is ever
  adopted, against `readme.md:74-76`, which is what `ReverseRoute` shows.
- `MessagePipeline`: an alias that the system plugin takes as its name at boot stays
  in the books of its first owner and is lost to all when that one is unloaded. The
  loss spreads: whoever has the word by then also loses the aliases of that command,
  which stay in its own books in turn. `Contested` is the closure of this, words that
  share a command with a word of the system plugin, directly or through others; no
  other name is ever lost. A call made after the read loop has ended waits for its
  whole timeout: between the death of the worker and the moment the parent learns of
  it, and every call from then on when the loop ended over a line of a worker that
  lives (`NoneForgotten` exempts these calls and no others); a worker spawned after its
  bridge was closed is never stopped; `drain()` is bounded by no timeout.
- `Exports`: a refused retry leaves a dictionary in memory that nobody works on and
  that hides the row; a row that a restart left pending or running can never be
  retried; a retry that selected a failed row and uses it after another retry has made
  the export makes it once more (`"stale"`, for one export as for all).
- `Automation`: rules without an interval that share a name notify, and trigger
  workflows, once each; `ChainIsBounded` counts them as the different rules they are.

The others are expected to find a violation; each states what a document or test
of the repository says, and shows that the code does otherwise:

| Run | Statement | What happens |
|---|---|---|
| `BotStartup` | accepted exports run (`docs/FAQ.md:112`) | the maintenance loops occupy both workers for ever |
| `OverlappingReloads` | reconfiguring stops the old connections (`app/adapters/manager.py:92`) | of two overlapping requests one forgets the task the other started |
| `ReverseRoute` | an enabled reverse connection is served (`readme.md:74-76`) | reverse adapters are never adopted by the manager |
| `Rollback` | functions are complete after a rollback (`docs/CHANGELOG.md:24-25`) | what `setup()` had registered is missing |
| `BackgroundTwice` | unload cancels registered coroutines (`tests/test_fix_plugin_core.py:319`) | the pool runs a second copy, which nobody cancels |

### Bounds

- *Pool*: two workers are the program's default. A queue of one place makes
  `submit()` wait as soon as one job is queued; with five jobs it waits in every
  run that is long enough. Two jobs of one name are needed for duplicates, one
  endless and one that ends with `CancelledError` for the ways to lose a worker,
  one ordinary. The proofs lift all these bounds for the safety properties.
- *Connections*: one connection of each mode, on the same path so that routes can
  be confused; two requests so that any two can overlap (three exceed the time one
  would wait); one retry before an adapter gives up, so that backing off, resetting
  and giving up all happen. Every request builds at most once and starts at most
  one loop, so objects and loops are finite without a bound of their own.
- *Plugins*: three requests, because what two of them leave behind by overlapping
  or rolling back only shows to a third. Requests are interchangeable, so the run
  uses symmetry; it checks no liveness. Configurations are numbered by the saves,
  at most one a request.
- *Tasks*: two executions, so that a person can run the task while its job does; two
  requests, so that any two overlap with each other, an execution and the patrol; a
  threshold of two and one kept cycle (nine in the code), so that the list of cycles
  is cut; at most two executions and one restart in all. The history may begin with a
  failed run, so that one more reaches the threshold.
- *Automation*: three handlers at a time -- one checks, one runs the workflow that
  the check triggered, one checks its failure -- one input, two changes in all (of
  rules, of workflows, intervals and cooling times that pass, the stop), a threshold
  of two. Three rules: one that hears everything and has an interval, so that it feeds
  itself; one without an interval; and one that is yet to be added and takes the name of
  the first but neither its event nor its interval. An object is added once, a name as
  often as there are objects of it. `MaxRuns` bounds a workflow's history at nine, which
  no behaviour of the run reaches. The proofs lift all these bounds for every property.
- *Message pipeline*: one message, five plugins and five words such that boot takes
  one word over, renames and drops aliases, and a loss can spread to a third plugin;
  one unread line before `drain()` waits; two capability calls, so that one is
  gathered while the other slips in. With `Overlap = FALSE` either the inline plugins
  come and go or the remote one is used: they meet only in the registry, which both
  use alone; what is left to do for a message when its handler is over, which is
  nothing to the bridge, waits until that has gone; and messages for inline plugins
  have the names in `Probed`, here the contested word, which leads to three plugins
  in turn. The proofs lift all these bounds for every property but `StopReturns`.
- *Exports*: one automatic retry; two coroutines at a time, as the pool has workers;
  two requests at a time, three in all; three dictionaries; one restart.

### Fairness

- `BackgroundWorker`: weak fairness of a worker's own steps and of `stop()`'s
  return: the event loop resumes whatever is ready. Of a job's end only for jobs
  that are not endless. Not of submissions, of `stop()` being called, or of a job
  being cancelled from outside.
- `BotStartup`: besides, that `run()` continues when its `submit()` can.
- `Connections`: a request's next step when it is possible, and a cancelled loop's
  unwinding. Not of handshakes, packets, clients or new requests.
- `PluginLifecycle` states no fairness and checks no liveness: that `stop()` and
  `start()` of a plugin return is up to the plugin's author.
- `MessagePipeline`: `stop()`'s own steps, its shutdown call (which has a timeout),
  a worker that is not hung reads, and a cancelled capability task ends. Not of
  answers, messages, requests, nor of a hung worker waking up.
- `TaskHealing`, `Automation` and `Exports` state none and check safety only. Of the
  patrol and of exports nothing can be said to happen: by `BotStartup` they may wait
  for a worker for ever. `ChainIsBounded` bounds what is set off, instead of saying
  that it ends.

## 4. Proofs

TLAPS checks the following for every value of the constants, from the assumptions
`PoolAssumption` (names and kinds of jobs are what they should be, finitely many
workers, a queue of at least one place) and `LifecycleAssumption` (finitely many
requests).

**`BackgroundWorkerProofs`.** None of the pool's invariants is inductive alone.
The inductive one, `PoolInvariant`, joins types, the agreement of `stage` with
queue and workers, a worker's state with what it holds, the table's entries with
holders, and what the phases say of the workers. `UnfinishedCount` needs the
second part (a clean-up decrements exactly when a worker stops holding a job),
`ActiveIsHeld` the third: that two jobs of one name may overwrite each other's
entry is harmless only because the clean-up compares the task before it pops. The
step property `SkipIsJustified` and the refinement of `JobPool` follow from the
invariant, one case per action. `JobPool` itself says that nothing runs once the pool
has stopped; the invariant `QuietAfterStop` says this of the detailed pool and of its
table (`StopIsClean`). `StartupRefinement` shows both for `BotStartup`, whatever
`main.py` submits and in whatever order: each of its steps is a step of the pool.

**`PluginLifecycleProofs`.** The inductive invariant is `Proved`: the types, the
bound that instances and requests that may still load never exceed the number of
requests (this gives `New` its type), that a request that closes or starts names an
instance and that nothing else happens during boot, `HandlersAreAccounted`, and
`DeclaredOffStaysOff`. The steps that matter for handlers are the ones that clear
`loaded`, which put the instance into a closing request in the same step, and the
ones that end a closing request, which remove every handler of the plugin.
`WholeOrGone` and `SettingsMatch` are about requests that take turns, and speak of
the moments between them; `TurnInv`, the last part of `Proved`, says what holds while
one is under way. One request is active at a time. `Points`: where it stands tells
what is loaded and, for a shutdown or an unload by the API, what the run has seen.
`Tidy`: everything that is registered belongs to the loaded instance, or to the one
being closed, whose background task was cancelled; this is what a rollback needs to
bring back one instance and no other. `Whole` and `Begun` hold from the load on, and
are excused by what a rollback or a failed load leaves. `EnabledRight` and
`ConfigRight` carry what the settings said before a reload through its unload, for
the load or the rollback that follows.

**`PluginIpcProofs`** (from `IpcAssumption`: the two calls of the bridge are no
handler calls, bounds are naturals). `IpcInv` joins the types with what the stage of
the bridge's life implies (`Stages`: no worker before it is spawned, no open bridge
after `stop()` closed it, no exit known of a worker that lives), the worker that was spawned too late (`Stray`), the capabilities that run under a
closed bridge (`Accounted`), and `NoneForgotten`. The last needs of every way in which
the read loop ends -- with the worker, over a line, by `stop()` -- that the step which
ends it tells all that are pending, and of every later call that it is one of `late`
from the step that enters it. Nothing is assumed about whether the worker lives then.

The refinement of `RemoteCalls` (`CallsRefinement`) needs to know where a call is.
`Placed` says that it is in one place at most: unread, with a handler, answered on a
line, or answered in its future; that a call nobody made yet is in none of them; that
no line answers a call twice; and that a dead or closed worker has nothing. Without it
the step that takes an answer from the queue of lines could leave a second answer
behind, or answer a call that is still being carried out. `Placed` is proved for each
step by what the step does to the queue (`AppendUnrepeated`, `TailUnrepeated`).

**`MessagePipelineProofs`** (from `PipelineAssumption`: handler calls are messages,
the remote plugin is loaded after boot; and `CommandsAssumption`: no plugin is twice
in the order, no word twice in a plugin). All safety properties of the run. The
pipeline implements the bridge: a step of the pipeline is one step of `PluginIpc` or
none. So `NoneForgotten` and `StopLeavesNothing` carry over to the composition without
another induction, and `PipelineImplementsCalls` says that `RemoteCalls` is
implemented. `BooksBalance` follows from `BookInv`: a log is seen as the set of its
records, none of which occurs twice (`Clean`); at each place only a few sets are
possible (`Fits`), after a cut a few more (`Short`); and the records of a remote
command fit its call (`Paired`), which nobody else moves once it is over.
`RegistryTrue` follows from `RegistryInv`, most of which is about a registry as a
value (`RegInv`), so that `Registers` and `Unregisters` can be shown for any registry
and then used for boot, for a failed load and for the web: an entry is in the books of
its plugin with all names of its command (`Entered`), books hold words the plugin
declares (`Booked`), and a name in the books leads to its plugin unless its word is
contested (`Spared`). At boot a name is claimed by the first that says it, and who was
loaded before is before it in the order (`Ranked`).

**`ConnectionsProofs`** (from `ConnectionsAssumption`: reverse connections are
connections, each client dials one of them, requests are finitely many, and the values
that stand for "none" are no adapter and no loop). Five of the six safety properties of
the run follow from `ConnInv` alone. Its parts: the types, with `Counted` (builds never
outnumber the requests begun, which gives the adapters their type); `Sane`, what a
request holds at each await; `Books`, which says when the tables may differ: the
tasks lag behind the adapters only while somebody stops tasks, BotClient's table only
between the build and the adoption of a reconfiguration; `InTurn`, for requests that
take turns: the one that stops has what is left on its list, builds what is enabled,
and a live loop is in the table or awaited; `Sockets`, which loop a socket belongs
to and what the history excludes; and `Evidence`, the reason why a bot is shown as
connected. `Evidence` is stronger than `ConnectedIsTrue`: a request that awaits a
task of a bot without an adapter has cancelled nothing and is no reason, and without
this the step that ends such an await would not keep it. `SettingsApplied` is about what
runs, and needs a second induction over `ConnInv` (`RunsInvariance`): `Driven`, while
nobody stops anything, every adapter but the `halted` ones has a loop of the manager
that is about to begin or goes on, current and not told to stop; `Handed`, the pool's
loops belong to adapters that are `halted`, so no loop but the manager's own makes
another of its adapter outdated; and `Ending`, once a shutdown has begun no
request begins, and if the requests before it took turns it leaves no task.

**`AutomationProofs`** (from `AutomationAssumption`: finitely many rules, each for a
known event, each workflow with a known trigger). `AutoInv` joins the types, what a
handler owns and owes at each await (`Phase`, `Hears`), that no two handlers own one
run (`Alone`), and the properties themselves, strengthened. `RunsAccounted` is
inductive only with `Alone`: a handler that records its result must not end
another's run. `EveryRuleHears` needs that what a check owes lies ahead of it in the
list it runs over, which a list that is replaced, and only appended to, keeps true
-- the variant that removes in place breaks just that. `QuietMeansDisabled` follows
from `Caught`: while the last runs of an enabled workflow all failed, somebody is
about to judge or to disable. `OncePerInterval` needs that a key that is not recent
has not been counted. `ChainIsBounded` is not inductive, since the run that it counts
comes several awaits after what pays for it. `ChainInv` therefore counts ahead
(`Covered`): to the runs of a workflow it adds the handlers that will still begin one
(`Due`) and the rules without an interval that a check has still before it (`Ahead`).
A pair of rule and event is paid for when it becomes recent, an input when it is
published, a change when it is made; from there every step only moves what was
counted. It needs that no list has a rule twice (`Distinct`), or a check would meet it
twice; these are objects, each of which is added once, and their names may repeat. `RunsRefinement` maps each action to one of `WorkflowRuns` or to none; that
the run a handler ends is still running is part of `Phase`, kept by `Alone`, and a
handler judges only with a positive threshold.

**`TaskHealingProofs`** (from `HealingAssumption`: finitely many executions, a
threshold and a number of kept cycles that are positive, bounds that are naturals).
The difficulty of this component is that everybody works on a copy, so `HealInv`
says what the copies remember. Its parts: the types, with no more disables than
executions that ran and short lists of cycles in every copy; `Memories` (the copy of
an execution says that the task is on, the patrol's that it is off and marked);
`Beginning` (nothing happens before the task is made); `Word`, the reason for
`LastWordHolds`: a row that is on, or was turned off by hand, bears no mark, which
every commit but a stale one keeps; `StampHasCycle` itself, for the row and for the
copies; and `Scheduling`: at most one request or patrol is between its commit and
the scheduler, and it knows what the row says, unless two of them crossed.

**`ExportsProofs`** (from `ExportsAssumption`: the first dictionary is one, the values
that stand for "none" are neither dictionary nor coroutine, bounds are naturals).
`ExpInv` joins the types; `Holdings`, what coroutines and requests may hold;
`Creation`, by which nothing happens to an export before it is submitted; `Worked`,
that a pending or running dictionary is some coroutine's or the creator's;
`Uncrossed`, that there is one coroutine until two retries cross, and that what it
assigned to the row is what its dictionary says; `RowSettles` and `Agree`, the two
halves of `ExportsSettle` while work is going on; and `DoneKept`, that nothing
invites to retry what is done. The steps that look after the record of a coroutine
are proved from `Works`, what all of them have in common; those of requests fall
into three shapes -- tidying up, restoring from the row, retrying -- and the
invariant is proved of each shape once.

Only model-checked are the liveness properties `QueuedJobsRun`, `StopReturns` (of the
pool and of the bridge) and `RequestsEnd`: they hold under fairness, whose ENABLED is
outside this prover's reach. Every safety and action property that a run checks, and
all three refinements, are proved.

## 5. What is not modelled

- The wire formats, the send path with its retry, and the adapters other than
  OneBot v11, which use the same reconnect loop.
- Listeners and tasks of a plugin in a process of its own, its reload, the conflict
  policy "skip", rule conditions of listeners, and a rollback that fails itself.
- Parsing of messages into a command and its parameters; what the gates decide
  (permissions, rules, cooldowns, rate limits): any gate may refuse any message.
- Editing an alert rule and its test button, and what the settings keep of a rule but
  its existence (`main.py` switches the first rule of the name for each that was saved
  as off); deleting a single workflow run, dry runs, and the jobs of
  workflows with a schedule. The retention of webhook rows (`services/webhook.py`
  85-111), where two overlapping prunes delete too much.
- When APScheduler fires a job; date jobs; the retention of task runs.
- What an export contains and its download; the data the other pages render.
- Sessions and the TTL cache: tables with a clock, whose hazard (eviction of a session
  while its handler awaits) lies in the handlers of plugins.
- Installer, repository, scaffold, backup and restore: sequences of file operations.
- The order ledger and the other plugins of the repository: content of the bot.
- Exceptions of `save_settings()` and of the database in the handlers of
  `Connections` and `PluginLifecycle`.
- A second `start()` of a pool that was stopped, which nobody calls.
- The other parts of section 1 that have no module.

## 6. Plan

Done, in the order of what matters most to users of the bot: the pool and start-up,
connections, plugins, scheduled tasks, alerts with workflows, the message pipeline
with a plugin process, exports. What would come next:

1. `Installer`: install, update and restore as file operations with a crash between
   any two, and the old or the new plugin as what must be left.
2. `Sessions` under a handler that awaits, with the limits of the tables.
3. What the gates decide: cooldowns and rate limits, consumed before later gates.

Parameters stay CONSTANTS with named assumptions, each operation is one action,
invariants are conjunctions of named parts, and no module uses RECURSIVE
operators, so that each can be proved about.
