# Verification of Homestead AI

TLA+ models of the parts of Homestead AI (HCS) in which several threads, processes, crashes
and other people's pushes meet; the TLC runs that check them on small instances; and TLAPS
proofs of what matters most, for every value of the constants. Paths are relative to the
repository; `lc/` stands for `src/hcs_ai/local_codex/`, and a file name without a directory is in
`src/hcs_ai/`.

`PROJECT.json` lists components, runs, mutants (a plausible bug for every checked property,
which must break it), the map from definitions to source lines, hazards and theorems.
The design document quoted below is
`src/docs/superpowers/specs/2026-09-15-local-codex-hcs-integration-design.md`.

## 1. Inventory

HCS is a desktop program (a host process with a tray, a local HTTP server and a GUI) with a
coding agent, *Local Codex*, that runs in a worker process of its own. The core logic that is
hard to get right is Local Codex, its supervision, and its e-mail and git work flow; then the
server, whose request threads share files, a database and the provider pool, and the host's
start and exit over a tree of processes.

| Component (source) | State it keeps | Operations | Hard behaviour | What makes it correct |
|---|---|---|---|---|
| Worker process (`lc/worker.py`, `lc/runtime.py`) | task state, review request, cancel flag, journal on disk | commands from stdin, a task thread, shutdown | reader and task thread interleave around `_lock` and one condition | legal transitions, every waiter can be woken, report and journal agree, a stop ends the task |
| Service (`lc/service.py`) | process slot, wanted/closing flags, deadline, restart delay, command queue, snapshot | facade calls of the GUI, supervisor loop, writer and reader threads | supervisor reads state, unlocks, acts; pipes fill; the worker hangs or crashes | one worker at a time, no command to a busy worker, no stale busy flag, the host may exit when told so |
| Event buffer (`lc/service.py`) | bounded event list, drop counter, sequence, log | publish, notify, poll | full buffer, two locks, notifications from one-shot threads | order, retention of critical events, exact loss count |
| E-mail tasks (`lc/email_worker.py`, `lc/task_queue.py`, `lc/mail_gateway.py`, `lc/models.py`) | persisted tasks, approvals, workspace locks, processed mails | recover, poll with one handler per reply, tick | a crash between any two saves; mails that cannot be sent; late and repeated replies | one task per workspace, no leaked lock, no work without approval |
| Git finalization (`lc/git_workflow.py`) | branches here and on origin, checkpoints | finalize, create branch | every command may fail, crash before a checkpoint, others push | done means published; only approved work is published |
| Coding controller (`lc/controller.py`, `lc/actions.py`, `lc/workspace.py`, `lc/state.py`) | journal, seen diff/tests, failure counter, originals | one turn: gate, model call, action, record, conclude | crash in a save, pause, stop, resume from the journal, repeated bad answers | the completion gate, originals kept, restart equals memory, bad answers end the run |
| Worker protocol (`lc/protocol.py`) | event log file | parse, emit, rotate | - | commands and event types, in the two modules above |
| Tornado provider pool (`lc/tornado.py`, `lc/prompt_optimizer.py`) | calls of the session, cooldowns and retry times (saved), outcomes per role | chat, probe, report an outcome, status | candidates chosen once a round and called much later; times run out during a call; the file survives a restart and the counters do not | session limits, cooldowns and refusals respected; failover before waiting; a chat ends |
| GitHub handoff (`lc/github_handoff.py`, `lc/email_worker.py`) | issue number, delivered events, stored warnings; comments on GitHub | publish an event | commands that time out after their effect, a search that lags, crashes, deleted issues | an event is on an issue once; none is lost in silence |
| Workspaces and project control (`lc/workspace_registry.py`, `lc/project_control.py`, `lc/worker_instance.py`) | registry, instance lock | register, look up, lock | - | - |
| Migration (`lc/migration.py`) | HCS's files, receipt | migrate at every start until done | interrupted and repeated runs, damaged files, HCS writing between runs | HCS's choices kept, no secret copied, complete when it says so |
| LM client, credentials (`lc/lm_client.py`, `lc/credentials.py`) | none | one request, one look-up | - | - |
| Cloud router (`cloud_router.py`, `cloud_provider.py`) | per task: tier and model; cooldowns shared by all | chat, approve a tier | request threads on shared dictionaries, failures during a request, late answers | no provider outside the approved tiers; the user is asked when nothing else is left |
| Internal engine (`engine.py`) | llama-server process, state file, lock | start, stop, configure, start with the server | a start holds the lock while the model loads; failures on each path | a failed start leaves nothing, every request is answered |
| Desktop host (`desktop_host.py`) | server process, worker, window, exiting flag | run, exit, restart, failed startup | exit from two threads while processes start and die | the tree is gone before HCS ends or starts again |
| Server (`server.py`) | AI mode, request threads | chat, collect, build, scan, cache, import, remove | requests overlap; the process may end anywhere | what its parts promise, whatever overlaps |
| Library and knowledge (`hkr.py`, `knowledge.py`, `knowledge_tree.py`) | SQLite catalog, object files, volumes, manifest, package cache, knowledge base | collect, scan, build volumes, export, cache packages, import, remove | files and rows are written in several steps around one write lock | rows tell the truth about files; a build leaves catalog, volumes and manifest in agreement |
| Homepage, prompt functions, diagnostics, GUI, scripts | files, widgets | - | sequential | not modelled, see section 8 |

**How they interact.** The GUI calls the *service* from its own thread and polls the *event
buffer* with a timer. The service owns one *worker* process: commands go down its stdin, events
come back on stdout, both through bounded queues and OS pipes. The worker runs one *coding
controller* per task in a thread; the controller asks a model (through the *provider pool* or
the local server) for one action at a time and saves the *task journal* after each. The *e-mail
worker* is a second user of the controller: it ticks controllers turn by turn and, after the
final approval, calls *git finalization*, which saves its checkpoints in the same task record;
each state a task reaches is published by the *handoff*. The *desktop host* first *migrates* a
standalone installation, then starts the server and the service, and ends both. The *server*
runs the *engine*, sends a chat to the *cloud router* or to the engine's model, and works on the
*library*, from which documents are imported into the *knowledge base*.

## 2. Modules

Each component has a module. The theorems are in modules of their own, which extend the modules they speak of;
components of one program that are proved apart share such a module.

| Module | Models | Used by |
|---|---|---|
| `WorkerContract` | what a worker promises to its owner, in terms of the events it writes | implemented by `LocalCodexWorker`; the service's workers behave as it says |
| `LocalCodexWorker`, `LocalCodexWorkerProofs` | `worker.py` and the tail of `runtime.py` | run `worker` |
| `LocalCodexService`, `LocalCodexServiceProofs` | `service.py` without event publication | runs `service_restart`, `service_liveness` |
| `EventBuffer`, `LocalCodexServiceProofs` | `_publish`, `_notify`, `poll_events` of `service.py` | run `buffer` |
| `EmailTasks`, `EmailWorkerProofs` | queue, gateway and e-mail worker | run `email` |
| `PublishContract` | finalizing as one atomic publication | implemented by `GitFinalize` |
| `GitFinalize`, `GitFinalizeProofs` | `git_workflow.py` | run `git` |
| `AgentController`, `AgentControllerProofs` | one run of the coding controller with its actions, workspace and journal | run `controller` |
| `Tornado`, `TornadoProofs` | the provider pool a controller asks for an answer | run `tornado` |
| `LegacyMigration`, `DesktopHostProofs` | `migrate_legacy_install` over the starts of the host | run `migration` |
| `GitHubHandoff`, `EmailWorkerProofs` | `publish` and the warning mail of `_publish_handoff` | run `handoff` |
| `InternalEngine`, `DesktopHostProofs` | `engine.py` in the threads of one server | extended by `DesktopHost` |
| `DesktopHost`, `DesktopHostProofs` | `desktop_host.py` over its process tree | run `desktop` |
| `HkrLibrary`, `HcsServerProofs` | collection, scans, builds and export of `hkr.py` around SQLite's write lock | extended by `PackageCache` |
| `PackageCache` | the package cache of `hkr.py`, under the same lock | extended by `HcsServer` |
| `CloudRouter` | `cloud_router.py` in the threads of one server | extended by `HcsServer` |
| `HcsServer`, `HcsServerProofs`, `MCHcsServer` | the requests of `server.py` over the three above and the knowledge base, and ends of the process | run `server` |

The composition is by contract. `LocalCodexWorker` abstracts the controller to the status it
returns, and `AgentController` models how it gets there. `LocalCodexService` contains no
worker of its own invention: each process follows the phases of `WorkerContract` (idle,
running, cancelled, gone) and may besides hang or crash, and the run `worker` together with
the theorem `WorkerImplementsContract` shows that the real worker keeps to that contract.
`EmailTasks` knows only the outcome of git work (pushed or refused), and `GitFinalize`
implements `PublishContract`, which is exactly that outcome. `DesktopHost` and `HcsServer` compose
by extension: the variables of the parts stay apart, a step belongs to one of them and leaves the
others alone, except where the program couples them (the end of the server ends the engine's
threads; a crash ends every request; a live import starts a chat).

## 3. How the models correspond to the code

**Worker.** `_lock` is held over a whole command handler, and over each locked section of the
task thread; each such section is one action. The reader thread is `reader` (reading, draining
after end of file, exited); the task thread is `thread`, whose values are the places between
two locked sections (in the controller, about to ask for review, waiting, reviewed, finishing).
The condition the thread waits on is `answer`/`cancel`. `created` and `journal` are the files of
the task journal; a task is named by its journal. The final save may fail, and then the task is
reported as failed. The heartbeat thread only reads under the same lock and is left out.

**Service.** Every `with self._lock` section of `LocalCodexService` is one action, and what the
supervisor reads in one section and uses in a later one is kept in `snap`. The supervisor's
place in its loop is `sup`. A process is named by its launch. `queue`, `stdin` and `stdout` are
the command queue and the two pipes, with the writer (`writing`, `pipeBroken`) between them.
Heartbeats and delays are not counted in seconds: an armed deadline or a scheduled restart
becomes due in a step of its own, and a worker that hangs stops taking steps. A terminator may raise
(`KillMayFail`); `survived` is the history of the processes one failed to end. A command that is being
written stays in the model's queue until it is in the pipe, where the code takes it out first (`lc/service.py:349`):
the queue is full one command earlier. The GUI's approve command is left out of the facade; the worker's side of it
is in `LocalCodexWorker`.

**Event buffer.** An offer is one call of `_publish`, with the place it has reached: called,
holding the publish lock, waiting for room, placed, done or lost. A verbose event is an info or
debug log line; the rest must be retained. Warnings about drops and about the disk are offers
of their own, by the one-shot notifier threads; a line of the worker's stderr is a warning in the code too, and
here an offer of a reader like any other.

**E-mail tasks.** One thread runs `recover` once and then `poll_once` and `tick_tasks` in any
order. A handler is cut at every save of the queue: `cont` names the rest of it, and
`Crash` may fall before any such rest, which loses `controllers`, `held`, `todo` and the rest of
the handler and keeps the saved records and processed mails. The lock table is rebuilt by
`recover` in the order of creation, as in the code; `displaced` is the history of the workspaces whose lock
that took from a working task. `todo` is the set of the mails of a poll, taken from the oldest on. `asked` records which approval the user was
last asked for; it belongs to the user and no handler reads it. A mail that cannot be sent
raises and ends the poll, before the mail is marked as processed. The user answers a request, also one that was
answered before, as often as they like; an APPROVE that no request preceded is not modelled.

**Git.** `pc` is the next git command of `finalize`; each command may fail; each checkpoint is a
separate step, so that a crash can fall between a push and the record of it. A commit is the
set of the commits it is made of since the commit the task started from; ancestry is set
inclusion. `ForeignPush` and `Pull` are other people's work. A git command that raises in a live worker leaves what
a crash there leaves, a task that stays finalizing until a restart; it is modelled as one.

**Controller.** A turn is begin, bootstrap or gate, chat, execute, (list, write,) record, count,
conclude, following `run` and `run_one_step`; a step ends where the journal is saved or the
model is asked. An action is its kind; a file is one that needs tests or one that does not. The
journal's variables survive a crash; `seenDiff`, `seenTests`, `observed` and the rest are lost
and rebuilt by `Resume` from `journal.steps` and `journal.tests_run` as `__init__` does. `torn` is
a save cut short: the journal is written in place, so a crash can leave invalid JSON. `owed` is
a ghost: answers of the model that its client has not been told the outcome of. An inspection stands for all of its
kind, so one of the same kind may be a repetition or not. What a command of the agent writes into the workspace is not
followed: the code does not snapshot it either, so `OriginalsAreKept` is about files edited by the edit actions.

**Provider pool.** A time in the future (`cooldown_until`, `retry_at`) is a membership (`cooling`,
`backoff`) that ends in a step of its own, also while a provider is being called. `left` is the
candidate queue of a round; scores depend on latency and learned quality, so any candidate may be
the next, except that a promoted local provider is. A failure that passes is saved twice (the
failure, then its retry time), and a restart may fall between. A delay may be zero. A retry in flight sleeps 30
seconds at most, so it may come before the time the provider asked for (`lc/tornado.py:1249`).

**Migration.** The files of an installation are entries of five kinds, each with the HCS file it goes to.
A run is cut after every file it writes (`stage`); the last write is the receipt. `bad` files cannot be
loaded. The migration preserves them and knows that it is `incomplete`. `known` are the files whose secrets
the run has learned. Between runs HCS writes and removes entries. Each document of the workspaces, the tasks and the
journals is checked by its loader on a temporary file; that the check itself cannot run is `CheckFails` (bounded with the
interruptions). The merge of two documents their loaders accept is one they accept, so "could not be merged
safely" comes from a damaged file of HCS or from a check that could not run, and from nothing else.

**Handoff.** Each `gh` command is one step; a command that fails may have had its effect (`CommandFails`
follows `PostComment` and `CreateIssue`). The stored lists are cut to their last entries. Order matters to
the code only in what is cut, so a list is a set and any other entry may be cut.

**Engine and host.** A start holds the engine's lock from its check to its end; what it writes into the
state file is read back while it waits (`port`). A llama-server is named by its start, lives on when its
parent ends, and may die at any time. The host's threads are the main thread and the tray's; a
process tree is listed, its listed members terminated, then its root, in three steps. The exiting flag is
tested in one step and set in the next. The startup may fail before Local Codex is started and after it (the window or
the tray), and then ends what it started. `unrecorded` is the history of the llama-servers whose first state file could
not be written. A failed start writes its port once more; nobody's process has it then, so the model drops it.

**Library and package cache.** `job` is what a request thread is doing: its kind, its step and its local
variables. A step ends at a file operation, at a statement that takes the write lock, or at a call of the
model or the network. `lock` is SQLite's write lock: a request that cannot have it fails after the busy timeout
(`Locked`), which a harvest inside a collection survives. A file that is being written is `partial`. `raced`,
`mixed` and `shared` are histories: two requests wrote one file, looked for one record or used one `.part`
file at the same time, which nothing in the code prevents.

**Cloud router.** A chat takes its place in `chat`, with the tier and model it read, the queue of routes it
made, and the routes it still sees as available. The code compares a route's rest with the time a chat began:
`free` is what that comparison gives, and `Backs` allows a rest that is over for chats that began later. Any
order of routes stands for weights and rotation. An approval names any tier, asked for or not (`ApproveTier`), of a task
of the chat window, whose client sends no other task. It is taken while a chat of the task has not read the task yet:
nothing else reads it.

**Server.** A request is a thread; each begins once and ends. An import reads a file as it is at that moment, also one
that no row names: what it takes from that is `stray` text, of which the library promises nothing. Files outside the
library are left out.
`Crash` ends all requests, rolls back what was not committed and forgets what is in memory.

## 4. Runs

| Run | What it checks | Bounds and why they are enough |
|---|---|---|
| `worker` | `WaiterReachable` (a review that waits can be answered or cancelled), `JournalMatchesReport`, refinement of `WorkerContract`, `StopEndsTask`, `ShutdownExits` | 3 commands: a task, and the stop, approval or shutdown that races with its end, and one more; every command can also be closed off by end of file. The safety is proved for any number |
| `service_restart` | `AtMostOneWorker`, `BusyIsJustified`, `CrashIsReported` | 2 launches, so that a restart meets the rest of the first process; 1 automatic restart; 2 commands; queue of 2 and pipe of 1, so that both fill; the terminator may fail (`KillMayFail = TRUE`). All three are proved for any number. `CrashIsReported` excepts a process that a terminator failed to end (section 6, item 10) |
| `service_liveness` | `StopEndsTask`, `ShutdownStops` | 1 launch: both are about the end of one process; the terminator works (`KillMayFail = FALSE`), since nothing else ends a worker that hangs |
| `buffer` | order of events, `OverflowIsAccounted` (critical events kept, losses counted), `CriticalIsDelivered` | capacity 2 and 2 reader events, each of which may cause a drop and a disk warning: the buffer overflows with every mix of kinds. The safety is proved for any capacity and any number |
| `email` | `OneTaskPerWorkspace`, `NoLeakedLock`, `WorkWasApproved`, `ApprovalIsActedOn` | 1 workspace, up to 2 task mails that compete for it and 3 replies, 4 mails in all: two tasks with an approval each, or one task with approval, control mail and second approval; 1 crash anywhere (and the mail that comes again because of it). `OneTaskPerWorkspace` excepts the workspaces in `displaced` (section 6, item 8). All four are proved for any number |
| `git` | `PublishesOnlyTheTask`, refinement of `PublishContract`, `ApprovalIsAnswered` | 2 foreign commits (one before and one after a push of ours), 3 crashes. The safety is proved for any number |
| `controller` | `ReadyWorkWasReviewed`, `OriginalsAreKept`, `RestartIsTransparent`, `RunsEnd` (a stop and repeated failures end a run) | failure limit 2 (below 2 the counter has no middle), 1 crash; turns are not bounded. The safety is proved for any limit and any number of crashes |
| `tornado` | `CallsAreAllowed` (session limits, cooldowns and retry times, refusals), `ChatEnds` | a local provider, a limited and an unlimited cloud provider, any of them enabled, both settings; limit 2 and 1 retry, so that a retry meets the limit. Chats, probes and restarts are not bounded. The safety is proved for any providers and limits |
| `migration` | `HcsChoicesAreKept`, `NoSecretIsCopied`, `MigrationCompletes` (and then nothing importable is missing) | two workspaces, so that one can conflict and one not, and one entry of each other kind; every set of them in the installation, with the secret in any file; 1 edit, 1 damaged file, 2 interruptions (of a run, or of the check of a document); starts are not bounded. The safety is proved for any number |
| `desktop` | `StoppedMeansGone`, `FailedStartLeavesNothing`, `RequestsFinish`, `ExitEnds` | one request thread beside the one that starts with the server, 2 llama-servers: enough for the engine to lose track of one; both threads of the host that can end it. `FailedStartLeavesNothing` excepts `unrecorded` starts (section 6, item 11). The safety is proved for any number |
| `handoff` | `OncePerIssue`, `NothingIsLost` | 2 events and lists of 1, so that a list is cut; 5 calls, 3 issues (the configured, a created and a duplicate one), 1 issue the owner ends; crashes are not bounded but by the calls. Proved for any number |
| `server` | `LibraryIsSound`, `ListedIsWhole`, `OnlyApprovedTiers`, `AskedWhenExhausted`, `BuildIsConsistent` | 2 requests of any kind, so that each pair of kinds overlaps; 2 documents, of which any may be there before; 3 routes in 2 tiers, two models in one tier, so that a chat fails over within the model, within the tier and to the question; 1 end of the process. All are proved for any number |

The type invariants are proved (section 7) and not run again.

Every bound is a guard of the action it bounds (`MaxCommands`, `MaxLaunches`, `MaxReads`, `MaxNew`,
`MaxReplies`, `MaxMails`, `MaxCrashes`, `MaxEdits`, `MaxDamages`, `MaxInterrupts`, `MaxServers`, `MaxIssues`,
`MaxCalls`, `MaxClosed`; `Requests` and `Chats` are the bound of the server). Deadlock is not checked in
these runs because all of these systems may stop: the user stops giving commands, the worker exits, all
mails are answered, all requests are served. That they do not stop *early* is what the liveness properties
say.

## 5. Fairness

* **Worker** (`FairSpec`): weak fairness of each thread. The handlers of the reader never wait
  for a task; an iteration of the controller returns because each model request and each
  command it runs has a timeout. Nothing is assumed about the owner.
* **Service** (`FairSpec`): the supervisor polls, a GUI call that left its first locked section
  goes on to the second, and an armed deadline runs out. Nothing is assumed about the worker,
  which may hang for ever, nor about the pipes, which may stay full.
* **Event buffer**: the GUI polls on a timer, and a publisher that can take a step takes one.
  Which thread gets a released lock is left open, so the delivery of a critical event does not
  depend on fair locks.
* **E-mail tasks**: safety only. The repository has no loop that calls `poll_once` and
  `tick_tasks` (its entry points are called by tests and by a host outside `src/`), so no
  scheduling can be justified. That an approval has its effect is stated as an invariant about
  the moment the mail was dealt with.
* **Git**: `finalize` is a straight line of commands that end. `ApprovalIsAnswered` also assumes
  that a crashed worker is started again; without that nobody can answer.
* **Controller**: a turn goes on, since the model's server and the commands answer or time out.
  No fairness of pause, stop or resume is assumed. With the provider pool this is as good as
  `ChatEnds`: a chat ends unless providers keep on promising capacity. While they do, `chat` sleeps
  up to five minutes at a time without looking at the cancel flag, and a stop takes effect through the
  service's forced stop only (`StopEndsTask` of `service_liveness`, which assumes nothing of the worker).
* **Provider pool**: a request is answered or times out, a sleep ends, a time that is set is reached.
  No fairness among providers, users or restarts.
* **Migration**: the host is started again and again, and a run that is not interrupted goes on. Interruptions
  are bounded; nobody is required to repair a file, so `MigrationCompletes` allows one that stays damaged.
* **Desktop**: each thread that can take a step takes one, because every wait of theirs has a time limit (30
  seconds for the server, the start timeout for the model) and terminating a process does not wait. Nothing is
  assumed about llama-server or the server, which may die or hang.
* **Handoff and server**: safety only. Their calls end because each command and request has a time limit, but
  whether they succeed is not up to the code.

## 6. What the models showed

These definitions state what a document, a test or a comment says, and TLC violates each of them. None is in a
run; to see the counterexample, name the definition (with its keyword) in place of the INVARIANT and PROPERTY
lines of the run's cfg.

1. `OnlyStoppedTasksAreKilled` (PROPERTY, `service_restart.cfg`). The design document, line 86: HCS "does not kill
   a task until the user presses Stop or exits/restarts HCS". A Stop that is accepted while the *idle* worker is
   unresponsive arms the forced-stop deadline (`lc/service.py:196`). If the worker recovers, nothing clears it, and
   a task accepted in the meantime is killed although nobody asked for it.
2. `FinalApprovalWasAsked` (INVARIANT, `email.cfg`). `src/tests/local_codex/test_integration_email_workflow.py:391`:
   "test_start_approve_never_calls_git_finalize". The reply handler looks at the task's status only
   (`lc/email_worker.py:576`). A second APPROVE of the *request to start*, handled once the task is ready, is taken
   for the final approval.
3. `RejectionsEndRun` (PROPERTY, `controller.cfg`). `src/tests/local_codex/test_controller.py:44`:
   "test_three_invalid_responses_block". Executing `finish` is a success that clears `consecutive_failures`, so the
   rejection by the gate that follows is always the first failure (`lc/controller.py:577`), and a model that
   repeats `finish` on unreviewed work is never stopped by a limit above one.
4. `RemovedStaysRemoved` (PROPERTY, `migration.cfg`). The docstring at `lc/migration.py:309`, "Copy compatible standalone state
   once", and the design document, line 96, that HCS becomes authoritative afterwards: an entry that HCS imported
   in a run that was interrupted, or that could not complete because of a damaged file, and that the user then
   removed, is imported again by the next start.
5. `ExitStopsTheModel` (INVARIANT, `desktop.cfg`). `desktop_host.py:262`: "Fully stop HCS, including the local model, to
   release its memory." A llama-server that the engine starts after the tree was listed and before the server is
   terminated survives, and so does one whose server died before the host came to list it.
6. `OneModelServer` (INVARIANT, `desktop.cfg`). A llama-server that does not answer the 0.35 second check of a later
   start is replaced without being stopped, and the engine has lost track of it.
7. `OneLogIssue` (INVARIANT, `handoff.cfg`). A search that does not find the new issue yet, after a creation whose
   command timed out, creates a second log.
8. `NeverTwoTasks` (INVARIANT, `email.cfg` with the larger bounds `MaxNew = 3`, `MaxReplies = 4`, `MaxMails = 7`).
   `lc/task_queue.py:72`, "workspace is busy", and the mail a blocked task sends (`lc/email_worker.py:630`): "The
   workspace remains reserved". A task whose branch could not be created is blocked without the lock, and a later
   task becomes active in its workspace. After a crash `rebuild_workspace_locks` goes by age and gives the lock to
   the blocked task (`lc/task_queue.py:161-173`). The CANCEL its mail asks for frees the workspace (`:149`), and a
   third task starts in it beside the second. Found by trying to prove the invariant: the smaller bounds of the run do
   not reach it.
9. `LegacyChoicesWin` (PROPERTY, `migration.cfg`). The design document, line 92: the migrator "merges field-by-field:
   explicit legacy choices win, while current HCS defaults supply missing fields". The code fills in what HCS does not
   have and keeps what it has, an explicit preference of the installation or not (`lc/migration.py:111`, "Retain HCS-owned
   choices while filling only absent values"), and the tests expect that
   (`src/tests/test_local_codex_migration.py:202`, `:324`). `HcsChoicesAreKept` states what the code, its comment and its
   tests agree on.
10. `CrashAlwaysReported` (PROPERTY, `service_restart.cfg`). The design document, line 84: "Unexpected worker exit
   creates a `worker_crashed` event". The mark of an expected exit is set before the terminator is called
   (`lc/service.py:486`) and stays when it raises. If the task then ends by itself and the worker crashes in the next
   one, the crash is reported as the stop that was expected, and no restart is scheduled.
11. `NoStartIsLost` (INVARIANT, `desktop.cfg`). `desktop_host.py:262` again, and the cleanup of a failed start
   (`engine.py:207`). The first write of the state file lies between the creation of the process and the `try`
   (`engine.py:184`). If it raises, the start fails and its llama-server goes on loading; the next start does not see
   it answer and replaces it.

These were met as well. The properties are stated so that they do not depend on them:

* `_next_retry_at` looks at retry times in the future only. A provider whose time ran out while others
  were being called is ready, but the chat sleeps until the next *future* time, or raises "all Tornado
  providers failed" if there is none. `FailoverBeforeWait` is therefore about the candidates the round
  began with.
* A crash between the two saves of a recoverable failure loses its retry time: the provider is called
  at once by the next session.
* A crash between the save of an approval and the save of the activation that follows leaves a
  task that waits for a confirmation already given: the mail comes again and is answered as no
  longer pending. `ApprovalIsActedOn` is therefore about runs without a crash.
* After a crash between the target push and its checkpoint, a foreign commit on top of the merge
  makes recovery block the task with "target branch diverged before push" although its work is
  on the target branch. The contract allows it (blocked is not a claim about the remote);
  the wording is misleading.
* If the terminator fails in a forced stop during a shutdown, nothing arms another one, though the
  comment in `lc/service.py:492` says a later stop may retry. `service_liveness` therefore sets
  `KillMayFail = FALSE`.
* When the temporary file for the check of a document cannot be written, the migration takes a sound document of the
  installation for an invalid one, leaves it out and writes its receipt: it is never imported (`lc/migration.py:218`).
  `MigrationCompletes` counts such entries as `refused`.
* The journal is written in place; a crash inside a save leaves a file that cannot be resumed
  (`torn`), although the design document (line 85) promises a resumable task.
* A task blocked by failures that is resumed blocks again at once, because the counter is saved.
* The completion gate asks for *some* diff and *some* passing test run of the task, not for ones
  after the last edit. `ReadyWorkWasReviewed` says what the gate guarantees and no more.
* Two collections that overlap (the GUI gives up after 1800 seconds, `gui.py:953`, and may start another)
  truncate each other's files, and two harvests insert two records of one algorithm or collide on its
  identifier; the failed INSERT leaves its transaction open (`hkr.py:561`), and the collection holds the write lock
  until its next commit. `raced` and `mixed` say when.
* Two builds at a time delete each other's volumes (`hkr.py:1137`), and an export writes the manifest from rows it read
  earlier, so a concurrent export can put back an older one. `BuildIsConsistent` is about a build that was alone.
* The digest of a download is that of the bytes received, not of the file (`hkr.py:971`), so two downloads that share
  a `.part` file can cache a damaged one as verified.
* A route's rest is counted from the start of the chat (`cloud_router.py:264`): a call that fails late sets a
  rest that is over already. A refused key's rest, which has no end, is overwritten by the transient failure of a
  concurrent call. A late answer, or a late choice of a model, overwrites the tier the user has just approved
  (`cloud_router.py:216`, `:227`); `OnlyApprovedTiers` holds nevertheless.
* A task without a model whose tier has no available route fails, where one with a model asks the user for another
  tier (`cloud_router.py:213`); and the classifier's chats ask a question nobody can answer.
* An issue that is remembered or configured and then deleted makes every later publication fail; the owner gets
  a mail each time (`NothingIsLost`).

## 7. Proofs

All theorems hold for every value of the constants that satisfies the module's `ASSUME`
(`MaxCommandsAssumption`, `ServiceAssumption`, `FinalizeAssumption`, `ControllerAssumption`, ...: the
bounds are naturals, capacities and limits positive, foreign commits are not ours, each configured
route has a tier, requests are numbered from one, documents and the engine's requests are finitely many, each
thread of the server can start a llama-server, "free" and "autostart" are not requests). No fact is assumed besides; TLC evaluates the
assumptions in every run.

**`LocalCodexWorkerProofs`** (any number of commands). `TypeOK`, `WaiterReachable`,
`JournalMatchesReport`, `LegalTransitions` and the refinement of `WorkerContract`. None of these is
inductive: that a waiting thread can be woken needs to know that the open request is the one
the thread waits for (`ReviewInv`), which needs that `_active`, the state and the place of the
thread describe the same task (`ThreadInv`); that a done task was approved needs to follow the
result from the review to the report (`ResultInv`); that a worker which is told to leave does leave needs that
a shutdown has cancelled what still runs (`StopInv`). `IInv` is their conjunction.
`InductiveInvariant` proves it action by action; the refinement maps each action to one step of the contract or a
stutter.

**`LocalCodexServiceProofs`** (any number of launches, commands, restarts; any capacity and events).
*The slot:* `AtMostOneWorker` and `HostMayExit`. The argument follows the ownership of the worker slot (`SInv`): the
supervisor owns it from the look that decides to launch until the process is published, `proc` owns it until the process
was seen dead, and nobody else creates a process. `StatusTellsLaunch` adds what the status line says while a launch is
wanted, scheduled or under way; without it a shutdown that overlaps a launch could show "stopped" too early.
*The claim:* `BusyIsJustified`. The claim on the worker is followed along its way (`ClaimIsHeld`): while a command is
pending it is in the queue or the pipe, or its answer is on its way back; once the task was announced the worker is
on it, or the announcement of its end is on its way. The step from the one to the other reads "started" at the head of
the pipe, and needs that nothing but an end can be behind a started task (`StartedIsFollowed`). That is why the
service does not time the claim out.
*The crash:* `CrashIsReported`, whether terminators work or not. A process whose exit is marked as expected is being
killed, is gone, or is one that a terminator failed to end (`ForcedExitIsMarked`), and the mark of such a one is taken
away when the next process is launched. For the survivor itself the claim is false (section 6, item 10).
*The buffer:* `OrderIsPreserved` and `OverflowIsAccounted`. What is under way holds `_publish_lock`
(`HolderIsUnderWay`), so the event that is being written has the last number (`NumbersGrow`) and
follows all that is buffered, delivered or in the log (`SeenWasPlaced`). A critical event is never refused, and evicting makes room among
the verbose ones only (`CriticalIsSeen`). The count: an eviction or a refusal moves one verbose event to the lost
ones and one to the counter, and a poll moves the counter into one warning. The sums over the warnings are a recursive function; that it has the expected values is
shown by the least counterexample (`MinIsLeast`), since the induction theorems cannot be used.
*Types:* `TypeOK` of the service, with its limits: restarts are counted up to theirs, and `RoomStep` shows that nothing is put
into the command queue or a pipe that is full, also by a shutdown, which puts in two commands (`ShutdownFits`).

**`GitFinalizeProofs`** (any foreign commits, any number of crashes). `DoneMeansPublished`,
`PublishesOnlyTheTask` and the refinement of `PublishContract`. The invariant says which checkpoint
holds at which step (`Progress`), what each checkpoint stands for in the repositories
(`Checkpointed`), and that a target branch holds the whole merge or nothing of the task (`Tips`).
The last one is needed because recovery decides by ancestry whether the merge has happened.

**`AgentControllerProofs`** (any failure limit, any number of crashes). `ReadyWorkWasReviewed`,
`OriginalsAreKept`, `RestartIsTransparent`, `EveryAnswerIsReported`. The invariant says, for each step of a
turn, where in the order snapshot, list, write a file is (`FilesInOrder`), in which steps the journal is
ahead of the controller's memory (`JournalAhead`), whether the answer was reported (`OwedInStep`), and how far
the failure counter can be (`FailuresInStep`). A counter above the limit is possible after a crash, which is
why its type is relative to `crashes`.

**`TornadoProofs`** (any providers, session limit and number of retries). `SessionLimitKept`,
`BackoffRespected`, `RefusedStaysOut`, `FailoverBeforeWait`. The candidates are chosen once and called later;
the invariant is that whoever is still queued is as callable as when it was chosen (`QueueIsFresh`),
because only the provider taken out of the queue is called, put off or refused (`TakenIsOut`), and that a
candidate is queued, being called, or has failed (`NobodySkipped`).

`CallsAreAllowed` is the conjunction of the first three.

**`EmailWorkerProofs`**. *Tasks* (any workspaces, mails and crashes): `OneTaskPerWorkspace`, `NoLeakedLock`,
`WorkWasApproved`, `ApprovalIsActedOn` and `OneConfirmationPerWorkspace`. The invariant says what a record can look like
at each status (`Records`), what a handler that was cut at a save has left to do and for which task (`Handlers`: the
rest of a handler is about the task its mail is about, at the status its first part left), who holds a workspace
(`Locks`: a working task does, or a restart took it away), and that while there was no crash, a task that waits for its
confirmation waits for a free workspace (`Confirmations`), which is what lets the approval go through. The exception
`displaced` of `OneTaskPerWorkspace` came from this proof: without it the invariant is not inductive, and item 8 of
section 6 is the run that breaks it.
*Handoff* (any events, issues, calls, crashes and lengths of the lists): `OncePerIssue` and `NothingIsLost`. A comment
is posted only after it was looked for on that issue (`LookedFor`), recorded only after it was there
(`IsThere`), and the stored lists never say more than is so (`ListsAreTrue`); they may say less, which is what the
search is for.

**`DesktopHostProofs`**. *Engine and host* (any requests and llama-servers): `FailedStartLeavesNothing` and
`StoppedMeansGone`. A start holds the engine's lock from its check to its end (`LockIsHeld`), so a llama-server that has
not answered yet is the one its holder is waiting for or one whose start could not be recorded
(`OnlyTheStartWaits`), and it is the holder that clears it away. A thread that ends HCS follows what it found below the server (`TreeIsFollowed`): what is to be terminated is
listed, what was terminated is dead when the root is, and the dead do not come back (`Ages`), whatever starts and
dies meanwhile. That there is a server to look below needs that nobody ends HCS before the main thread has started
one (`ServerComesFirst`).
*Migration* (any entries, edits, damages and interruptions): `NoSecretIsCopied`, `HcsChoicesAreKept` and
`CompletedIsComplete` (the safety half of `MigrationCompletes`). The invariant follows a run through its stages: what
lies behind the stage is settled unless the run knows that it is incomplete (`BehindIsSettled`), no journal is left
when the later files are written (`JournalsAreDone`), and all secrets are learned before the first write
(`SecretsAreKnown`). Between two runs only the receipt speaks, which is why HCS's own writes cannot break it.

**`HcsServerProofs`** (any requests, documents, routes and ends of the process). `LibraryIsSound`, `ListedIsWhole`,
`OnlyApprovedTiers`, `AskedWhenExhausted`, `BuildIsConsistent`. The invariant has one part for each part of the server, and each step of one
part is shown to leave the points alone that the other parts speak of (`Moves`, `Away`, `Alike`). Library: what a
collection is about to insert has its file written, or the history says it was raced (`JobsAreSound`); a harvest
that found no record is the only one, or the history says so (`HarvestsAreApart`). Package cache: what is being verified
is not partial unless shared, and what is being listed is there (`PackageInv`). Providers: each task is pinned to
a tier it may use (`PinsAreAllowed`), each chat works in such a tier on routes of it, and every route that was
available at its start is queued or has failed (`IsSound`). The last needs that an order of routes lists each of
them, for any finite number (`OrderFacts`, `ConcatFacts`, `TailFacts`). Builds: of a build that no other one
overlapped, every document it has dealt with is in a volume before its next one, and in the one its row names
(`BuildIsSound`), so opening the next volume empties none of them; collections only add rows of documents the build does
not know. That each document's volume exists needs that a build makes no more volumes than there are documents
(`NextVolume`: each holds at least one). The same count for any build, overlapped or not (`BuildsHaveRoom`), gives `TypeOK`:
a row never names a volume beyond the last.

**Only model-checked.** Liveness (it needs fairness and ENABLED, which the prover does not handle): `StopEndsTask` and
`ShutdownExits` of the worker, `StopEndsTask` and `ShutdownStops` of the service, `CriticalIsDelivered`,
`ApprovalIsAnswered`, `RunsEnd`, `ChatEnds`, `MigrationCompletes`, `RequestsFinish`, `ExitEnds`. Every safety property of
the runs is proved. `LegalTransitions`, `HostMayExit`, `DoneMeansPublished`, `EveryAnswerIsReported`, `FailoverBeforeWait`,
`OneConfirmationPerWorkspace` and `CompletedIsComplete` are proved and not run.

## 8. What is not modelled

* Wording, prompts, MIME, credentials, redaction, layout of the GUI: no property is about them.
* Path resolution and the allow list of commands: functions of data without state.
* Heartbeat times in seconds, file system errors other than a failed or torn save.
* Parsing, chunking, embedding, ranking and the layout of the knowledge tree: functions of data. The tree's
  nodes are rebuilt from what the classifier says and no other part depends on them.
* Downloading and choosing local models and ports (`model_manager.py`, `internal_ai_setup.py`, `ports.py`): run once, by
  the owner, with nothing beside them.
* The homepage editor (one compare-and-replace with a backup from one window), the instance lock (one call of
  the operating system), the rotation of the event log, prompt functions, diagnostics and speech: sequential
  code over a file or memory.
* The GUI's widgets: their calls are the users of the service, the buffer and the server.
* Installation and update scripts: they copy files.

A natural next step is the safety half of the liveness properties as theorems of their own: that the service's
deadline is armed whenever a stop waits for it, and that an event under way is never stuck behind a full buffer.
