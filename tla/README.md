# Verification of tumult

Tumult is a chaos-engineering platform. Its daemon (`tumultd`) accepts
experiments over HTTP, asks people to approve the risky ones, executes them on a
pool of workers, undoes what they broke, and keeps the evidence; a command line
and an MCP tool server do the same for one person or one agent. This directory
holds TLA+ models of these parts, TLC runs that check them on small instances,
and theorems about the core of them that hold for every instance.

    RunnerContract  <--implements--  Runner        (threads, gate, guards, load)
          ^  the same promises, as actions of
    RunQueue        --implements-->  RunLifecycle  (the life of one run's row)
          ^  its child runs move as
    Campaign                                       (the GameDay supervisor)

    Daemon: the writer whose closures are the atomic steps of every row model
    Schedules, Webhooks, Telemetry, Executors: the daemon's other loops
    Definitions, Authoring, Sampling: what is executed, and what is seen of it
    Auth, LoginLimiter, ReadApi, McpServer: who may do and see what
    ManualEvidence, AuditChain, Store, Lake, Graph, Compliance: the evidence
    Ssh, NetProxy, Targets, LocalRun, GamedayCore: drivers and the command line
    Autopilot, Agentic, Evaluations: agents
    Tui: the terminal's screens over the store

## 1. The system

The core, where a wrong interleaving leaves a fault in somebody's system:

| Part | State it keeps | Operations | What is hard |
|---|---|---|---|
| Run queue (`tumult-ingest/src/runs/queue`) | a bounded `mpsc` channel, a semaphore of waiting permits, a map of cancellation tokens | `enqueue`, `request_gated`, `dispatch_approved`, `stop` | a permit travels through three owners; a token is looked up in one step and a row written in another |
| Workers and sweeper (`runs/worker.rs`) | the item in hand and its journal | dequeue, verify, claim, validate, begin, run, record; expire lapsed requests | every decision is re-checked by a guarded write, and every write may fail or be refused |
| Reconciliation (`runs/reconcile.rs`) | the list of active rows it read | mark orphaned, roll back, finish | it can itself fail or be killed half-way |
| Run and approval rows (`tumult-lake/src/{runs,approvals}.rs`) | `runs`, `approval_requests`, `approval_decisions`, `run_audit` | guarded `UPDATE`s, each one closure on the single writer | some updates do not look at the old state; the audit chain is ordered by the wall clock |
| Approval handlers (`tumult-api/src/approvals.rs`) | nothing | `approve`, `reject`, `break_glass` | several writes per request; axum drops the handler when the client goes |
| GameDay supervisor (`tumult-ingest/src/gamedays.rs`) | the snapshot of one tick | advance each active campaign: verdict, next child, link | works from a stale read; enqueues and links in two writes |
| Experiment runner (`tumult-core/src/runner`) | phase, results, fault gate, guard counters, load process | one thread for the phases, one per background activity, one guard monitor, one sampler | the token may fire between any two steps; slots and threads must come back |
| Definitions (`tumult-core/src/engine`, `tumult-ingest/src/runs`) | resolved text, hashes, recovery plan | resolve, substitute, validate, classify, approve, execute, roll back | the host's variables and files change between approval and execution |

Around it:

| Part | State it keeps | What is hard |
|---|---|---|
| Ingest writer and daemon | channel, holders of its sender, phase of `serve()` | an order of shutdown in which nobody waits for somebody who waits |
| Schedules | rows with `next_fire`, the tick's snapshot | fire and advance are two steps; a crash between them |
| Webhooks | cursor per hook, backoff, dead letters | the cursor is a time; a dead receiver; the budget of a tick |
| OTLP receivers | rows of three signals | a batch of several tables that fails half-way; exporters that send again |
| Executors | child, process group, pipes | grandchildren that keep the pipes open; a deadline around the wrong thing |
| Authentication | users, sessions, tokens, buckets | argon2 lies between the read and the write |
| Manual evidence | records with their audit chains | four eyes over a sequence of edits |
| Read API, reports | rows that arrive in any order, artifacts | only a root span names its environment; everything else is linked |
| Store and lake | schema version, tables, locks, manifests | a crash between any two statements; several processes |
| Graph, lineage, advice | nodes and edges by run | re-mapping, purges, refreshes that die half-way |
| Scores and documents | score cards, org tree, documents in parts | late or repeated telemetry while a document is built |
| Authoring, plugins, registry | search paths, catalog, definitions | plugins come and go between validation and execution |
| Samples, controls, baselines | rounds of samples, handlers, bounds | a sampler thread that is stopped in mid-round; handlers that panic |
| Target drivers | nodes, pods, delays, blocks, cloud requests | overlapping activities on one target; lost answers |
| SSH, network proxy | pool, host keys, pidfile | sessions that race for a place in the pool; a stale pidfile |
| Command line, core gameday runner | journal path, load process | the load must end however the call does |
| Autopilot, MCP server, agent tools | decisions, budget, permits, pages, packs | calls side by side over one reading of the store |

How they interact:

- **The writer.** Every change of a row is a closure sent to one writer thread.
  One closure is therefore one atomic step of a model, however many statements
  it holds. What a handler or a worker does between two closures is not atomic.
- **The channel and the permits.** `enqueue` takes a permit, inserts the row,
  and sends the item with its permit; the worker drops the permit when it takes
  the item. A full queue refuses at the permit.
- **The tokens.** A worker registers a token for its run; `stop` looks it up,
  cancels it if it is there, and then writes the row.
- **The runner.** A worker calls it on a blocking thread, shares the token with
  it, and gets a journal back, or a panic.
- **Campaigns and schedules** enqueue runs like any other client.
- **A crash** loses channel, permits, tokens and tasks. Rows and faults in the
  target survive. On restart the daemon reconciles before it serves.

`PROJECT.json` lists every component, every hazard at its line with the
properties that would catch it, and the source lines of every definition.

## 2. The modules

| Module | Models |
|---|---|
| `RunQueue` | queue, workers, sweeper, reconciliation, approval and control handlers, rows |
| `RunLifecycle` | abstract: what a run's row and fault may do |
| `Campaign` | supervisor, campaign launch and stop, the children as states |
| `Runner`, `RunnerContract` | `run_experiment` and its threads; abstract: the runner as the worker sees it |
| `Schedules`, `Webhooks`, `Daemon`, `Executors`, `Telemetry` | the daemon's loops, its writer, its child processes and its receivers |
| `Auth`, `LoginLimiter` | users, sessions, tokens; the limiter in front of them |
| `ManualEvidence`, `AuditChain` | hand-entered records; the hash chain of a run's audit trail |
| `Autopilot` | the gate as operators; the passes, answers and enactments as actions |
| `Ssh`, `NetProxy`, `Targets` | drivers |
| `LocalRun`, `GamedayCore` | `tumult run` with its journal; a gameday of the command line or the tool server |
| `Agentic`, `Evaluations` | faults in agent traffic; scores, smoke runs and rows of agent evaluations |
| `McpServer` | admission, permits, workspace files and pages of the tool server |
| `Store`, `Lake` | the store file and its migration; snapshots and backups |
| `ReadApi` | what a principal is shown |
| `Graph` | ChaosGraph, lineage, topology, gaps, advice, traversal |
| `Definitions`, `Authoring`, `Sampling` | from a definition to what runs; how definitions are made; what is measured |
| `Compliance` | scores, org tree, documents, verdicts, trends |
| `Tui` | the terminal UI's keys, reads and screens |
| `RunQueueProofs`, `RunQueueItemsProofs`, `RunLifecycleProofs`, `CampaignProofs`, `RunnerProofs` | theorems about runs, campaigns and the runner |
| `ServicesProofs`, `ToolsProofs` | theorems about the components of `MCServices` and of `MCTools` |
| `DataProofs` | theorems about the store, the lake, the tool server, the read API, the drivers, definitions, authoring and the controls of `MCData` |
| `MCRunQueue`, `MCCampaign`, `MCRunner` | constants and symmetry for TLC |
| `MCServices`, `MCTools`, `MCData` | several components that share no state, one at work in each behaviour |

Operators named `X_Something` next to a definition `X` are faulty variants of it
(a dropped guard, a missing reset, an off-by-one). No specification uses them;
`PROJECT.json` lists those that a property is shown to catch.

### RunQueue

State: the columns of the rows (`state`, `started`, `rollback`, `decisions`,
`breakGlass`, `consumed`, `lapsed`, `draft`), what the ingested journal says
(`journal`), whether the run's fault is live (`fault`), the queue (`permits`,
`channel`, `token`), a program counter for each worker and each handler, and the
progress of the reconciliation. `stopAck` is history: what a stop that was
acknowledged met, a token it cancelled (`heard`) or none (`missed`); the constant
`Watched` names the runs it is kept for.

| Code | Actions |
|---|---|
| `RunQueue::enqueue` | `EnqueueAcquire`, `EnqueueInsert`, `SendItem` |
| `request_gated` | `RequestGated` |
| `approve` | `ApproveRead`, `ApproveExpire`, `ApproveDecide`, then dispatch |
| `reject` | `Reject` |
| `break_glass` | `BreakGlassMark`, `BreakGlassDraft`, then dispatch |
| `dispatch_approved` | `DispatchRead`, `DispatchRequeue`, `SendItem` |
| `RunQueue::stop` | `StopCancel`, `StopWrite` (with `request_run_stop`) |
| axum drops a handler | `HandlerDropped` |
| the worker's `process` | `Dequeue`, `VerifyApproval`, `ClaimRun`, `ValidateDispatch`, `BeginRunExecution`, the runner's five actions, `RecordCheck`, `RecordIngest`, `RecordFinish`, `LateStopCleanup`, `RecordFailure` |
| the sweeper | `Sweep` (and `Lapse` for the clock) |
| `reconcile_orphans` | `OrphanMark`, `OrphanRollback`, `OrphanFinish`, `Serve` |
| the process dies | `CrashRestart` |

`fail_run`, `finish_run` and `terminal_state` are the writes of the same names.
The closure that records a completion is three steps: it looks at the token,
ingests the journal and finishes the row, and a stop cancels the token from
another thread in between. `WriterFree` keeps every other closure out until it
has ended; all other closures touch nothing but rows and are one step.
The clock is one flag per request (`lapsed`): nothing in the code compares two
times of one run otherwise. Preparing, parsing and hashing a definition is a
choice to go on or to refuse; `Definitions` has what it does.

### Campaign

State: the rows of campaigns and children (`pstate`, `gameday`, `cstate`,
`parent`) and the supervisor's tick (which parents are left, which one is in
hand, what it is about to write). `origin` and `late` are history.
`StartCampaign`, `StopCampaign`; `TickBegin`, `AdvanceRead`, `FinishParent`,
`EnqueueChild`, `EnqueueRefused`, `LinkChild`, `TickEnd`; `CrashRestart`.
`ChildMoves` is the life of a child's row as `RunLifecycle` has it, with every
state that the daemon will move by itself folded into `queued`.
`scoring.pass_threshold` is a fraction, compared by cross-multiplication: the
code divides floats, but parsing and division both round to nearest, so the
fraction that equals the threshold still passes.

### Runner

State: the runner thread's place (`rpc`), each activity's place and result, the
gate (`active`, `peak`), the monitor (`mon`, `idx`, `consecutive`), the load, the
token and its child (`plug`: the monitor cancelled it), the journal's `status`
and rollback results. `injected`, `recent` and `most` are history.

| Code | Actions |
|---|---|
| `run_experiment` | `Start`, `HypothesisBefore`, `BeginMethod`, `MethodEnds`, `MonitorJoined`, `PostPhase`, `CollectLoad`, `Judge`, `LastLook`, `ReturnJournal`, `ReturnEarly`, `ProbePanics` |
| `execute_pending_activity`, foreground and background | `TakeTurn`, `PauseBefore`, `Dispatch`, `ProviderReturns`, `PauseAfter` |
| `FaultGate` | `GateAcquire`, `release` |
| guard monitor | `GuardEvaluate`, `GuardRoundEnds`, `GuardWaits`, `GuardPanics` |
| the caller | `Cancel` |

Pauses, probes and providers take time and no memory: a step ends them, with any
result the code can see (success, failure, panic).

### The services of the daemon

- `Schedules`: a tick reads the clock and the due rows, then for each one fires
  it, looks whether the row is still due, and advances it. A tick may be lost at
  any step (crash, refused write); handlers create, pause and delete between the
  steps; the definition may break or mend.
- `Webhooks`: a task per endpoint reads its cursor and a batch, posts event by
  event, and writes cursor, dead letters and backoff in one closure. The task
  may lose its tick, and its backoff with a crash; events share clock ticks, and
  are inserted with a clock that may be behind by `ClockSkew`.
- `Daemon`: the servers, supervisors and run tasks that hold senders, the
  channel with its buffer, the writer with its reconnects, and `serve()` from
  the signal to the drain. Callers may go away while they wait.
- `Executors`: the four ways to run a child process (`process`, `script`, agent,
  `k6`), each with its own place for the deadline and the kill; what the child
  forks may leave its group and may keep its pipes.
- `Telemetry`: bind guard and bearer of the two ports, the conversion of spans,
  logs and points to rows, one transaction per table, and exporters that repeat.

### Access and evidence

- `Auth` keeps the read and the write of each handler apart, because the argon2
  time lies between them. `LoginLimiter` is the bucket in front of `login`.
- `ReadApi` has one operator per handler: from the scopes and the rows that have
  arrived to the rows shown. Rows arrive in any order.
- `McpServer`: the session's header, the bucket, the permits, the enactment
  slot, and the tools by what they do to a file.
- `ManualEvidence`, `AuditChain`: a hash is the pair of what it covers, so two
  hashes are equal exactly when their inputs are.
- `Store`: open, retry, migrate, ingest, purge, merge, export and import, one
  statement per step. `Lake`: exporters under the lock file, the manifest,
  damaged files, backup and restore.
- `Graph`: the statements of each refresh as a sequence that may be cut anywhere;
  lineage, advice and traversal are operators over what is left.
- `Compliance`: score cards and the org tree as operators; a document is a
  sequence of queries between which telemetry and reviews arrive.

### Definitions and what is seen of a run

- `Definitions` follows one run from preview and request through approval, claim
  and recovery plan to each activity and each rollback, while variables, files,
  bindings and owners change. A hash is the value it is computed from.
- `Authoring`: discovery on the search paths, catalog, scaffolds, templates,
  validation, and the resolution of activities while plugins change.
- `Sampling`: three small machines (samples, controls, baselines).

### Drivers, command line, agents

- `Targets`: activities of Kubernetes, clouds and Windows, request by request,
  on shared nodes, pods, delays and firewall rules. Evictions and
  deletions are accepted by the API and carried out later (`Terminates`). `Ssh`
  and `NetProxy` have one pool key and one listen address.
- `LocalRun`: runs of several shells share a journal path and a store, with and
  without a daemon (whose rejection of a journal and whose silence are told apart).
  `GamedayCore`: both front ends around one loop. A load process whose state
  cannot be read is not killed (`unwatched`): the call waits for its pipes to
  close and goes on without a result.
- `Autopilot`: the gate is pure; the tool calls go side by side, with crashes,
  edits of the policy and the change of the day. An answer reads the policy before
  it is recorded, and gates again with what it read.
- `Agentic`: the offline engine is the reference of the live proxy, whose
  answers go out with a journal line or, when the append fails, without one; the
  trajectory executor is stepped. `Evaluations`: scores, headlines of every
  bundled pack, the commands' files and rows, the pipes of a live run.
- `Tui`: one key at a time (`on_key`) over an `App`, while other processes lock
  the store, ingest, purge and refresh the graph. A graph key reads nodes and
  neighbours by two opens (`load_graph`, `load_graph_neighbors`).

### How they fit

`RunQueue` has the runner as five actions of a worker: `InjectFault`,
`RunnerStopsEarly`, `RunnerJudges`, `RunnerReturns`, `RunnerDies`.
`RunnerContract` states exactly these, on their own, and `Runner` implements it
(`KeepsContract`, theorem `ContractKept`), so what the worker relies on is what
the threads do. `RunQueue` implements `RunLifecycle` (`ImplementsLifecycle`,
theorem `Implementation`). `Campaign` uses of `RunQueue` that its children move
along that life cycle, and, for liveness only, that they settle (`RunsSettle`).
`Daemon` justifies the unit of atomicity of all of them: the writer applies one
envelope after the other. `Evaluations` extends `Agentic`. The other modules
share no state with each other, so the composed MC modules let one of them move
in each behaviour (`part`) and leave the rest at one initial state.

## 3. The runs

| Run | Instance | Shows |
|---|---|---|
| `gated` | 1 gated run, quorum 2, 3 users, 2 handlers, 1 worker, depth 2, 2 crashes, failing writes, disconnects | `ApprovedBeforeExecution`, `CancelledStopHolds` (an acknowledged stop that was heard holds), `ImplementsLifecycle` |
| `direct` | 2 ungated runs, 2 workers, 2 handlers, depth 1, 1 crash, failing writes, disconnects | `FaultOwned`, `PermitsConserved`, `TerminalIsFinal` |
| `live` | 1 ungated and 1 gated run, 1 handler, 1 worker, depth 1, 1 crash | `RowsHaveOwners`, `RunsSettle`, `LapsedSettles` |
| `campaign_safe` | 2 gamedays of 2 steps, 2 campaigns, 3 children, threshold 1/2, 1 crash, failing writes | `OneActiveCampaign`; `CampaignSound`: steps in order, earned verdicts, at most one late child |
| `campaign_live` | 1 gameday, 2 campaigns, 4 children | `OneStepAtATime`, `CampaignsSettle` |
| `runner` | 1 foreground and 3 background activities, cap 2, a guard of 2 breaches, load, hypothesis, `OnDeviation` | `BlastRadiusBounded` (cap and peak), `CleanupSound` (quiet before rollbacks, rollbacks when needed), `HaltIsEarned`, `CancelledHasNoVerdict` (up to the last look at the token), `KeepsContract`, `RunnerEnds` |
| `services` | 2 schedules; 1 hook with 3 events; 2 envelopes over a buffer of 1; 2 forked children; 1 exporter of 3 tries | `SchedPaced`, `SchedDueServed`, `HookLossAccounted`, `HookProgress`, `IntakeSound` (`CleanStopLosesNothing`, `TelemetrySound`), `DaemonStops`, `ExecBounded` |
| `tools` | 2 or 3 callers each, see the cfg | `CredentialsSound`, `RecordsSound`, `ApRunsEarned`, `DriversSound`, `LocalIngestOnce`, `GdSound`, `AgentsSound`, `EvaluationsSound` |
| `data` | see the cfg | `StorageSound`, `DisclosureSound`, `KnowledgeSound`, `ExecutionSound`, `TargetsSound`, `EvidenceSound` |
| `lost_stop`, `webhook_silent_loss`, `one_enactment` | as `direct` (1 run), `services`, `tools` | section 6 |

A property named `...Sound` is the conjunction of what one component, or the
components that guard one thing together, promises; the module states each part
with its comment:

- `CredentialsSound`: a live session or token stems from the current password
  (or from a request that was in flight when it changed), a forced reset stands,
  guesses are bounded although the limiter looks before argon2 and pays after;
- `RecordsSound`: nobody reviews what they contributed to, what was reviewed is
  what was submitted, and the verdict on an audit chain is right while the clock
  is not set back;
- `ApRunsEarned`: nothing runs without its recorded decision, and the daily
  budget is overrun by at most what the passes that read it together may add;
- `DriversSound`: no two commands share an SSH session, no session leaks, trust
  on first use is anchored; while calls do not overlap, every proxy that a start
  left is found by its stop, except one whose pidfile could not be written or was
  overwritten by a later start, and one whose kill failed;
- `ExecutionSound`: what runs is what was approved, and the recovery rolls back
  the same targets; secrets stay on the host; every control is told of every
  event; what authoring produced runs;
- `StorageSound`: crashes leave no half experiment, and a snapshot or a restored
  backup is one state that the database was in;
- `DisclosureSound`: a scoped principal sees no row without a link to one of its
  environments, and a viewer's token changes nothing;
- `KnowledgeSound`: every run is mapped once, a control is evidenced only by the
  latest runs, the declared parts survive, advice follows the lineage;
- `TargetsSound`: a refused call sent nothing, a clean drain left on the node
  only DaemonSet pods and pods that the API has agreed to end, delays and blocks end with what made them;
- `EvidenceSound`: samples, recovery times and baselines are what was seen;
  scores, rollups, verdicts and trends against reference
  definitions, and documents that agree with themselves; on the terminal, rows in
  the order and the filter shown, a cursor that a refresh keeps, and edges that
  are those of the highlighted node (`ScreensSound`);
- `AgentsSound`: injected faults show in bodies, journal lines and verdicts (a
  line is of one answered request, judges the body its agent got, and lists what
  was done to that body), the rows are of one evaluation, and a live run does not hang on its pipes;
- `EvaluationsSound`: headlines, gates and the journal's figures follow the
  contracts. Headlines and scores have no variable in them: TLC decides those
  once, for all the packs.

Why these bounds reach the cases that matter:

- A quorum of two with two handlers makes two approvals complete it at the same
  time, or an approval race a break-glass; three users are a requester and two
  others. Depth 1 with two runs makes the queue refuse. Two workers are needed
  for two owners of one run. Runs meet only in the channel and the permits, so
  two are enough for what one can do to another.
- One crash falls between any two steps of a request, a worker or a stop; the
  second crash of `gated` falls into the reconciliation after the first, or
  makes a restart retry a rollback that failed. A third meets no new state,
  since a restart keeps nothing but rows and faults. The theorems put no bound
  on crashes.
- Two steps are a first and a last; three children are one more than a campaign
  needs, so a lost link can enqueue a step again. With a threshold of 1/2 one
  passed child of two decides.
- Three background activities behind a cap of two are two inside and one that
  waits. Two breaches in a row tell a reset counter from one that is not.
- Two schedules with different intervals, and one lost tick in the life of
  each, make a fire that is repeated and a neighbour that waits.
- Three events with a batch of two and two attempts: an event behind a batch's
  end, one behind a refused one, and one that becomes a dead letter.
- A buffer of one with two envelopes: one that is queued, one that waits to be.
- Two requests, calls, commands or processes wherever a race takes two; two
  SSH sessions, so that two tasks can race for a pool with one in it.
- Two tables in `Lake` and in `Store`: one that is copied and one that is not.
- In `Definitions` a variable has two values, one malformed; three documents put
  it into a command, an argument and a secret. In `ReadApi`, `Graph` and
  `Compliance` the rows, runs and org files are chosen in `MCData` so that
  each link, attribution and rollup has one case for and one against it.
- `live` has no failing writes and no disconnects: a row whose last write was
  refused waits for the next restart, which nobody must cause. The direct and
  gated runs have both.
- `campaign_live` has no crash and no failing write: with them two children of
  one step may run (section 6).

Symmetry (handlers, workers, users other than the requester; campaigns and
gamedays; background activities; the requests and calls of `tools`) is used in safety runs only. Deadlock is checked in `Campaign` and
`Runner`: the supervisor ticks for ever, and the runner may stop only after its
call has ended (`Ended`). It is not checked where the finite set of requests,
runs or events is used up and the system waits for new ones (`RunQueue` and the
composed runs).

Bounds that the program does not have are named `...Max...` (`MaxCrashes`,
`SchedMaxTime`, `HookMaxEvents`, `AuthMaxPasswords`, `ChainMaxRows`,
`GrMaxCuts`, ...), besides `TmTries`, `ApMaxAnswers`, `MaxEdits`, `EvTalk` and
the finite sets of actors. Queue depth, quorum, cap, `min_breaches`,
`BatchLimit`, `MaxAttempts`, `LoginBurst`, `DailyBudget`, `McPermits` and the
like are parameters of the program.

## 4. Fairness

- `RunQueue`: weak fairness for each handler's and worker's next step, each
  expiry by the sweeper, and the reconciliation. Tokio runs ready tasks, the
  sweeper is a periodic loop, and a provider has a timeout. Nobody must send a
  request, approve, lapse, crash or disconnect.
- `Campaign`: weak fairness for the supervisor (a periodic loop) and for each
  child that the daemon moves by itself (what `RunsSettle` shows). Strong
  fairness for enqueueing a step: the queue may be full at one tick and free at
  the next, again and again; a supervisor that retries on each tick meets it
  free, since workers drain it. A child that waits for approval need not move.
- `Runner`: weak fairness for the runner thread, each activity and the monitor.
  Threads are scheduled, and pauses, probes and providers end. Nobody must
  cancel.
- `Schedules`: weak fairness for the scheduler's next step, strong fairness for
  the enqueue of each schedule, for the same reason as in `Campaign`.
- `Webhooks`: weak fairness for the tick and for each endpoint's task; a post
  ends because it has a timeout, whatever the receiver does.
- `Daemon`: weak fairness for the writer, for `serve()` and for each task; a
  signal need not come.
- `Executors`: weak fairness for the executor and for the clock. The child and
  what it forks need not exit.
- The other components have safety properties only.

## 5. The proofs

All theorems hold for every value of the constants that satisfies the named
assumptions: any number of runs, workers, handlers, users, crashes, steps,
activities and guards. The assumptions are what the code checks or is typed to:
a queue depth, a quorum, a cap and a `min_breaches` of at least one, a requester
who is a user, a non-empty method (`validate_experiment` refuses an empty one),
a batch limit, an interval, a burst, a daily budget and a pass limit of at least
one. Where a proof counts actors, the set of them is finite: login attempts,
tool calls; so are the articles of an experiment and the files of a workspace.
The finite sets are as large as one likes. Of the rows that may arrive
`RaAssumption` says that the spans of one experiment id are of one trace, since
the id is made afresh for each execution, and that digests and v2 reports have
directories of their own. `TargetsAssumption` says that `"-"`, which stands for no
node, is no node, and that a pod starts on one.

Each safety theorem follows from an inductive invariant `IInv` of its module,
with one step per action.

- **RunQueue.** `FaultOwned` says: a live fault belongs to a started run that is
  not terminal, or whose journal says that no rollback was run. It is not
  inductive. A completed run is terminal because the worker held a journal; to
  know that a journal with successful rollbacks means no fault, one needs that
  the worker's run is started, in state `running` or `stopping`, and nobody
  else's (`WorkerInv`), that a reconciliation runs alone and on active rows
  (`BootInv`), and that the writes between them never return a started run to a
  waiting state (`RowInv`). `ApprovedBeforeExecution` needs that decisions, once
  they meet the quorum, still do when the run is requeued, claimed and begun
  (`ApprovalInv`), because the read, the requeue and the start are three steps.
  `HandlerInv` keeps two inserts from sharing an id.
  `CancelledStopHolds` is about a stop and not about a step: after it was
  acknowledged the run's journal may wait in the worker, be retried, or be lost in
  a crash. `HeardInv` says what holds meanwhile: the row is stopping, being
  recovered or ended without a verdict, and a worker that still executes the run
  has a cancelled token, which it has looked at only with an interrupted journal.
  Theorems: `TypeCorrect`, `FaultOwnedAlways`, `ApprovedAlways`,
  `TerminalForEver`, `CancelledForEver`.
- **The items of RunQueue** (`RunQueueItemsProofs`). `PermitInv` adds to the
  count of the permits that the handlers which hold one are finitely many.
  `ItemInv` says where a run's only work item is (channel, a handler about to
  send it, a worker), `StageInv` which rows a handler or worker may meet at each
  of its steps, `TokenInv` that a registered token has its worker. Of these
  `OneItemAlways` is a corollary: two approvals cannot make two items, because
  the second finds the row moved. `RowsHaveOwners` needs in addition who moves
  each row on (`Owned`): a worker, an item, a handler in between (`RetryInv`), a
  stop whose token was cancelled (`StopInv`), or the reconciliation
  (`ReconInv`). It assumes, as the run does, a store that accepts writes and
  clients that stay: a row whose last write was refused waits for the restart.
  Theorems: `PermitsConservedAlways`, `ItemsAlways`, `OneItemAlways`,
  `RowsOwnedAlways`.
- **RunLifecycle.** `Implementation`: from `IInv`, every step of `RunQueue` is a
  step of the abstract life of one run, or leaves it alone. The invariant rules
  out the steps the abstract run does not have: an item of a started run that is
  claimed again, a reconciliation of an ended one.
- **Campaign.** The verdict and the next step are decided from a read and
  written later. `TickInv` says what of that read is still true at the write:
  nobody else links children or gives verdicts. A stop may end the parent in
  between, which is why it does not say that the parent is active. `LateInv`:
  a campaign with a late child is out of every tick but the one that enqueued
  it, so there is never a second. `OriginInv`: without crashes and failing
  writes a child that exists is linked, or the tick that enqueued it is about to
  link it; so a step that looks free is free. Theorems:
  `OneActiveCampaignAlways`, `CampaignSoundAlways` from `StepsInOrderAlways`,
  `OutcomeSoundAlways` and `AtMostOneLateChildAlways`, and `OneStepAlways`.
- **Runner.** `ActivityInv` (who may be past the gate in which phase, and which
  results an injected action may have), `GateInv` (the counter is the
  cardinality of the holders, and the peak is never below it), `CountInv` (a
  guard's counter is the length of the run of breaches that ends its
  observations), `JournalInv` (who cancelled what, and what the status may
  therefore be). Theorems: `BlastRadiusBoundedAlways` (from `FaultsCappedAlways`
  and `PeakCoversAlways`), `CleanupSoundAlways` (from `QuietBeforeRollbackAlways`
  and `FaultsCleanedAlways`), `HaltIsEarnedAlways`, `CancelledHasNoVerdictAlways`.
- **RunnerContract.** `ContractKept`: every step of the threads maps to a step
  of the contract or to a stutter, under the mapping `ContractPhase`,
  `LiveFault`.

- **Schedules.** The tick reads the due rows, fires, and advances them later.
  `SchedTickInv`: what it holds was due at its own clock, and nobody else moves
  a next fire. `SchedPaceInv`: the intervals that the fires of a schedule have
  used up end before its next fire, less those whose advance was lost. The
  bound of `SchedPaced` is the quotient of that sum. `SchedLateInv`: a fire is
  late only if the row was paused after the tick had read it. Theorem:
  `PacedAlways`.
- **Webhooks.** The cursor is a time, so what it has passed cannot be read from
  it. `HookTaskInv` ties an endpoint's task to the cursor it began from,
  `HookBatchInv` says that its batch is a prefix of what was undelivered at the
  read, `HookUpToInv` what the new cursor will have passed, and `HookLossOK` is
  the property for one endpoint. That a set of events has a latest one is by
  well-founded descent below the clock. The clock may be set back. Theorem:
  `LossAccountedAlways`.
- **Daemon.** `DaemonChannelInv` (the channel holds each queued envelope once),
  `DaemonCallerInv` (what a caller was told is true of its envelope) and
  `DaemonHeldInv` (a task that waits for an answer holds its clone of the
  sender) give `DaemonEndInv`: the writer ends only when nobody can send and
  nothing is queued. Theorem: `CleanStopAlways`.
- **Telemetry.** That a row is stored no more often than its export was admitted
  is not inductive: batches wait in the queue, and a batch may fail between its
  tables. `TmRowsInv` bounds, per export and table, the rows that are there,
  plus the tries that may still add one (`TmLeft`: those queued, less the first
  one if its table was written), plus the request being decoded, by the number
  of admissions. `TmToldInv` says what an answer was drawn from. That conversion
  drops and invents nothing (`ConversionsHold`) is proved attribute by attribute
  (`TmColumns`, `TmOthers`, `TmRowHolds`). Theorems: `TelemetrySoundAlways`;
  `IntakeSoundAlways`, with the daemon's, for the composed services.
- **LocalRun.** `LocalIngestInv`: nobody adds the row that a run's own count has
  missed, because a run offers its journal from one place at a time; the
  transaction of DuckDB does the rest. Theorem: `IngestOnceAlways`.
- **GamedayCore.** `GdLife` (a load process lives only inside the gameday) and
  `GdData` (the journal is what was run), with lemmas on the shares of passed
  experiments, covered articles and failed checks. Theorem:
  `GamedaySoundAlways`.
- **ManualEvidence, AuditChain.** `MeChain` (a trail is a chain of hashes that
  ends in the row's) and `MeTrail` (each state of a record leaves its traces:
  who entered it, no submission of a draft, no review before the last link) give
  `EvidenceTrusted`. For the audit chain `ChOrdered` and `ChLinked`: while the
  clock is not set back the order of the times is the order of the links; and
  `ChBroken`: where the chain was tampered with, one of its links does not
  recompute, for ever after. No two rows share a hash, since a hash contains the
  one before it and they do not share that.
  Theorems: `EvidenceTrustedAlways`, `ChainVerdictAlways`, `RecordsAlways`.
- **Ssh, NetProxy.** `SshHeldInv` (a task has a session exactly where it uses
  one) and `SshTaskTrust` (a key that was accepted is a line of known_hosts, and
  the first one if there was one when the check began). A step of a task is one
  of a few moves of its session (keep, take, drop, give, open), each shown to
  keep the pool sound. For the proxies `ProxyCallInv` and `ProxyNamedInv`, while
  calls do not overlap; the daemons out of their reach (`pxLost`) are those whose
  pidfile write or kill failed and those that a later start, which overwrites the
  pidfile, found running. Theorems:
  `SshSessionsAlways`, `RollbackFindsAlways`, `DriversAlways`.
- **Auth, LoginLimiter.** `AuthReqInv`: what a request read of a user is still
  so, unless it was overtaken by a change of the password. `LoginPaid` counts:
  while a bucket has tokens nobody guesses beyond them, and once it has none
  only those who passed before do, at most one per other attempt. Theorem:
  `CredentialsAlways`.
- **Autopilot.** `ApFits` (what each call is about), `ApEventInv` (a decision's
  events, and the calls about to add one, are one start at most) and
  `ApBudgetInv`: runs of the day and enact verdicts that wait in queues, counted
  from the ends of those, stay within the budget and one pass of every call.
  Theorem: `RunsEarnedAlways`.
- **Agentic, Evaluations.** The engine folds all faults of a pack over a
  response, the proxy only those of a body; unrolled for the one or two faults a
  bundled pack has, both leave the same body where nothing short-circuits
  (`AgBodiesAgree`). `AgLinesInv`: a line is written with the answer it judges, and
  nothing touches either afterwards. `AgIInv` adds that a short-circuiting pack never reaches the
  upstream, and that the documents stay poisoned from the faulty step on.
  `EvCommandInv`: a command at work alone holds the store, has stored the
  statements before its next one, and no other command has a row of its run;
  `EvInsertsShaped` says that the run's row is the first statement and a replay's
  verdict the last. `EvLiveInv`: what the agent said is in the pipe or read.
  Theorems: `AgFaultsSeenAlways`, `RowsAlways`, `AgentsAlways`.
- **Store, Lake.** `StMigration` says what of a migration is done at each of its
  steps and stays done when a later process begins it again, `StBetween` what
  holds between the two statements of a purge or a merge; a process that writes
  is alone (`StAlone`). For the lake `LkWorkInv`: an exporter at work holds the
  lock, and all it has copied is of the one past state it took its fingerprints
  from; `LkFilesInv`: a file is what it is named for, or its digest shows that
  it is not. Theorem: `StorageAlways`.
- **McpServer, ReadApi.** The permits are counted with the calls that hold them.
  `McWalkInv`: of what was there when a listing began nothing is ranked before
  its cursor and unseen. Each read handler is shown
  to return only rows linked to the scopes (`RaDetail`, `RaTrace`, `RaShown`,
  `RaTopology`, `RaRunScope`), and `RaGenInv`, `RaShelfInv` carry that from the
  rows a generation read to the files it leaves, in the order in which it writes
  them, although it may die between two of them. Rows only arrive, so what was
  linked stays linked. Theorem: `DisclosureAlways`.
- **Targets.** `TgCallOK` says for each place a call can be at what it has sent
  and what its result can be. `TgDrainsInv`: a drain that nobody undid has its
  node cordoned, and once it has listed the node every pod there is a
  DaemonSet's, still to be evicted, refused by its budget, or on its way out;
  nothing is scheduled to a cordoned node and an accepted termination is not taken
  back, so the node has no other pods when the drain ends without a failure. The
  code does not wait for them to be gone. That is false of a drain that lists before it
  cordons. A pod that leaves takes its containers and its delay along
  (`TgPodGone`). Theorem: `TargetsAlways`.
- **Definitions.** `DfMade` says of an experiment that it comes of a definition,
  its variables and a configuration, whatever the secrets were. `DfPlans`: the
  stored plan keeps the definition and the configuration that the approved hash
  was computed from, what was prepared comes of that plan and may run
  (`DfRunnable`), and until a crash it is what was hashed. Two experiments made
  of one plan differ at most where a secret stands (`DfSameTargets`), so the
  recovery has the targets of the execution although the host moved twice since.
  That nothing of the host is shown assumes that its values are told apart from
  what the documents and the answers say (`DfValuesAssumption`).
- **Authoring, Sampling.** `CtActivities`: an activity whose beginning was told
  is under way, or its end was told after it and the method ended later still.
  For authoring, the listing and the execution are both unfolded to the first
  root that has a plugin of the name (`AuLeast`, `AuListed`), an environment has
  one variable per argument and per injected name (`AuExecuted`), a document that
  was written holds only what the catalog of its version offered (`AuDoc`,
  `AuGood`), and an insertion is later than every row its lookup saw
  (`RgInv`). `AuAssumption`: roots are numbered, lists are finite. Theorem, with
  the definitions': `ExecutionAlways`.

Each of the invariants of the composed modules was checked by TLC before it was
proved, and holds whatever the other components of the run do.

Only model-checked: the liveness properties (`RunsSettle`, `LapsedSettles`,
`CampaignsSettle`, `RunnerEnds`, `SchedDueServed`, `HookProgress`, `DaemonStops`,
`ExecBounded`), because the prover has neither fairness nor `ENABLED`;
`EvaluationsSound`, which speaks of the packs and samples by name, so that TLC's
answer is already complete for them; and of the `data` run `KnowledgeSound` and
`EvidenceSound`. The scores, rollups and
globs of `Compliance` and the traversals of `Graph` are recursive functions over
data, which would need an induction.

## 6. Findings

Three runs end in a counterexample: what a comment says, and the code does not
always do. `PROJECT.json` quotes the lines.

1. `lost_stop`. A stop looks for the token before the worker registers it and
   writes its row after `begin_run_execution`: the run is marked `stopping`, its
   token is never cancelled, and it passes.
2. `webhook_silent_loss`. The cursor is a time: of two events of one clock tick,
   the one beyond a batch's end, or behind a refused one, is passed without
   delivery and without a dead letter.
3. `one_enactment`. A call that finds the slot taken reads the count before the
   holder has raised it or after it has dropped it, gates against 0, and
   executes next to the holder.

The proved and checked properties are stated so that they hold with these
behaviours in the models: `CancelledStopHolds` speaks of the stops that found a token, `HookLossAccounted` excepts events of one tick.

Other disagreements met while modelling, each reachable in the models where a
definition is named (the definition states the comment, and no run uses it):

- *Runs.* A cancellation between the runner's status decision and its second
  look at the token turns `Completed` into `Interrupted` after the rollbacks
  were skipped (`AbortedIsClean`). A cancellation after that look, while the
  AfterExperiment controls run, leaves the verdict in the journal, although a
  comment says that a cancelled run is never reported `Completed`
  (`runner/mod.rs:158`); a worker looks at the token once more, `tumult run` does
  not. A break-glass is marked and its draft opened
  in two writes (`BreakGlassHasDraft`). `finish_run` does not look at the row, so
  a verdict decided before a stop overwrites an aborted campaign
  (`EndedCampaignIsFinal`). A campaign child is enqueued and linked in two
  writes; after a crash between them two children of one step run. The journal's
  `peak_concurrent_faults` counts slots, not providers: never too low, sometimes
  too high. A load that fails to start returns after `before_experiment` without
  `after_experiment`.
- *Evidence.* A clock set back makes an untouched audit chain fail its
  verification (`UntouchedVerifies`). A crash during migration may seed two
  legacy users (`LegacyUserOnce`). `cmd_store_migrate` inserts rows it counted as
  already there. A purge leaves `load_results`, so a re-ingest doubles them. A
  legacy import drops metric points that differ in attributes only. A reader
  re-reads the lake's manifest for each table. A crash inside
  `refresh_coverage_gaps` leaves edges without nodes, and Cypher queries fail
  until the next refresh. A service removed from a topology document keeps its
  declared attributes. The `before` cursor of the event list skips events of one
  time. Metric points are linked by experiment name only. Digests of one second
  share a file name.
- *Telemetry.* A metrics batch that is retried or fails half-way doubles rows.
  "Everything else lands in the attribute maps" excepts a title next to a name,
  a plugin alias next to `fault.plugin`, a verdict that is no boolean and, for
  logs and metrics, the resource's experiment and service version.
- *Scores.* `glob_match` without a star also takes longer names that begin and
  end with the pattern. "Never run scores 0" does not occur in a card. A
  completion log delivered twice doubles the issue counts. A run at the instant
  of a card is in the card and not in its window. The appendix lists
  inconclusive verified records and ignores the period. A game-day report takes
  every span of a shared trace. `tumult trend`'s summary ignores its filters.
- *Definitions.* Without variables the template pass is skipped and `$${x}`
  stays as it is. Declared arguments "always win", but a difference in case only
  is an error. Two hypothesis probes of one name share their samples. A scaffold
  offers a rollback `start-container` that does not exist, and block-dns's for
  redirect-dns. A script plugin named like a native one is listed and never
  runs. `tumult new` and a journal path are checked and written in two steps
  (`JournalNotOverwritten`).
- *Drivers.* A proxy start whose pidfile cannot be written fails and leaves its
  daemon running, where no `stop_proxy` finds it. A drain reports a node drained
  while the pods it evicted still run out their grace periods. A second `pod_network_latency` on a pod ends the first one's delay.
  `drain_node` reports success when evictions failed; its rollback uncordons a
  node that was cordoned before. A cloud start whose answer is lost is reported
  failed. A port out of range silently blocks the whole host (Windows). An
  upload or a command without an exit status succeeds (`SshSuccessIsReal`). A
  proxy start may be answered by an older daemon (`StartedProxyAnswers`). A
  gameday with an experiment that could not be executed still returns a journal
  and a status (`GdErrorReported`).
- *Agents.* A decision can take two responses (`OneResponse`). The live proxy and
  the engine may judge a contract of one pack differently
  (`ProxyJudgesAsEngine`). A live agent run has no deadline and is scored with
  zero costs. A second agentic run of one scenario is never stored. A
  trajectory's journal lists every fault of its pack as applied, and the proxy's
  lists body faults when the upstream could not be reached; a line that cannot be
  appended is dropped in silence. The coverage
  tool counts probes that the gap refresh does not.
- *Terminal.* Ctrl-C in the title filter types a `c`. A refused read of the graph
  empties the nodes and leaves the neighbours of the old one. A change of the
  sort keeps the cursor's place, not its row, and the detail page of an
  experiment that was purged is headed by another.

## 7. What is left out, and the plan

Not modelled, because no control depends on it or it is text:

- parsing and encoding of documents, SQL and its guard (`sql_guard.rs`), prompt
  building, citation texts, request signing, TLS;
- HTML, SVG and PDF rendering, the drawing and the help overlay of the terminal
  UI, and the web UI, which draws what the read API returns;
- the spans and counters the program emits about itself;
- demos, examples, the chaos lab and fixtures;
- the bytes that pass the network proxy, the SSH wire protocol;
- the DELETE of run retention, which removes terminal rows that no model reads;
- `HttpAgentAdapter`, `validate_target` and `validate_experiment` of the agentic
  crate, which only tests call.

Hazards that `PROJECT.json` lists and no property covers, or covers in part, each
with its reason there: the audit chain under a clock set back, what the eviction
of a login bucket hands back, a header that another request replaces, edges
without nodes and overlapping refreshes of the gaps, an evaluation whose rows were
cut, an agent that never ends, a legacy owner that is seeded twice, a reader that
resolves the manifest table by table, the second enqueue of a campaign's step, and
for runs the owner and the end of a row after a disconnect or a failing write.

Inside the modelled parts: lines of the agents' journal that two handlers write
side by side and that may be glued (each write is one step), overlapping starts
and stops of a proxy, roles of the HTTP handlers beyond environment scopes
(a handler is called or not), the probe-only mode of the runner, limits and sort
orders of lists, floating-point rounding (fractions are exact).

Next, in this order:

1. theorems about the rest of the `data` run that needs no induction: the
   sampler of `Sampling`, the refreshes of `Graph`, the screens of `Tui`;
2. `Definitions` and `RunQueue` composed: the hash that is approved and the row
   that is claimed in one model.
