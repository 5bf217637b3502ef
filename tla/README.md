# Verification project: unknown-file threat agent

TLA+ models of `src/src/threat_agent` (below: `threat_agent/`), TLC runs on small
instances, and TLAPS proofs. Paths in this file are relative to
`src/src/threat_agent` unless they begin with `src/`.

1. The system · 2. Modules · 3. Runs and bounds · 4. Properties · 5. Fairness ·
6. Findings and divergences · 7. Proofs · 8. Not modelled, and the plan

## 1. The system

A workbench for the investigation of unknown files. An alert (or a reference
case) becomes a *run*: a LangGraph case graph that plans and calls investigation
tools, writes a judgment and a report, and advises a response that a human may
have to approve. Everything a person sees of a run is read from one SQLite store.

| Component | State | Operations | Hard behaviour |
|---|---|---|---|
| `case_management`: run service, runtime store | runs, run events, audit events, artifacts (SQLite); two `threading.Lock`s | start, start_alert, replay, recover_orphans, complete_after_approval, `_execute`, `_fail`, `_emit`, `_audit` | one execution slot for many threads; whole-row read/modify/write; sequence numbers allocated by a read; a crash between any two store calls |
| `case_management`: approval desk | none (the graph's checkpoints and the row) | list_pending, decide | two approvers; a long call between check and write |
| `case_management`: debug service | none | checkpoints, resume | a background thread emits on a run that may be executing |
| `case_management`: alert intake | dedup table, watermark (SQLite); `_disabled`, a lock | poll_once, run_forever, manual poll | moving window, retries, caps, crash between run and record, two polling threads |
| `case_management`: case graph | the graph's state (checkpoints) | judge, gate, advise, route, approve | several bounded retry loops inside each other, then a human |
| `case_management`: boundary policy, intake mapping | none | authorize_call, validate_result, identifiers of a case | authorization against a ledger of observed identifiers; optional arguments |
| `agent_middleware`: budget, boundary, safety net | counters and ledger in the agent's state (merged by reducers) | wrap_model_call, wrap_tool_call | parallel tool calls of one step share one snapshot |
| `agent_middleware`: archive, compaction, hygiene; `judgment`: memory store, reporting | the history, pending directives, the archive store | archive_context, the rewrite before a model call, recall, report_context | overlapping spans, handles drawn without a lock, summaries in between |
| `judgment`: tool gateway | the ledger of the run: results, traces, authorized references | invoke | parallel threads on one unlocked ledger; what may be shown in full |
| `judgment`: report pipeline | the draft and its issues | compose, assemble, validate, rejudge, gate, publish | bounded repair, degradation, two pipelines with different checks |
| `response_advisory` | the plan, counters of rounds, repairs and writes | propose, repair, validate, finalize, approve | retry loops, deny, edit, fallback |
| `knowledge` | static corpora, consultation ledger | consult, route, retrieve, merge | a failing source must not look like an empty one |
| `data_foundation`: ingestion, reference store | raw records, activities, entities, relations, quarantine (SQLite) | ingest_payloads, put_record_with_activities, quarantine_record | two ingesters between check and insert, key collisions, crash between commits |
| `data_foundation`: queries | none | typed queries, entity timelines, relations, raw records | cursors over a store that changes |
| `agent_eval`, `bootstrap/eval_tasks.py` | run records on disk, the import lock file, the request bucket | run_suite, score, aggregate, diff | processes over one store, a lock file with takeover, resume after a crash, rate limit |
| `capability_validation` | files of a case | project, load, pin, derive, load_suite | interleaved audit records; templates |
| `bootstrap`: execution and runtime | wiring | execute, resume_case, serve | where the other parts are called from |
| `bootstrap`: settings | the `.env` file | load, save | duplicates, overrides, a restart between save and use |
| `presentation`: run page, event stream | the page in the browser, the connection | render, deliver, reconnect, poll, reload | snapshot and stream overlap; the end may never be streamed |
| `presentation`, rest; `contracts`, `shared` | none | HTTP endpoints, read models, data classes, model clients | the threads that call the services |
| `observability` | trace sink | record | none: failures degrade to no trace |
| `attack_lab`, scripts | files | record a laboratory attack | none |

How they interact: an HTTP request (or the alert poller) calls `RunService.start*`,
which inserts a row and spawns a daemon thread; that thread waits for the
execution lock, runs the case graph through `bootstrap/workbench_bindings.py`, and
writes events through a callback of the graph's tool calls. Inside the graph,
`bootstrap/middleware_runtime.py` runs an agent whose tool calls pass the middleware
stack on their way to the tool gateway and the archive store; the gateway asks the
data foundation and, for relations and timelines, the entity projection of the
ingestion. The report is composed from the gateway's ledger as far as the archive
leaves it, validated, and published; the response advisory reads it and leaves a plan.
A risky plan stops the graph at an interrupt. An approver's request resumes the same
graph on *its* thread, outside the lock, and then calls back into `RunService`. The
debug service replays a checkpoint on a thread of its own, and emits through the
same callback. The poller calls the intake connector, whose sink is
`RunService.start_alert`. The run page reads the row, the events and the trajectory
and then follows the events. The evaluation kernel runs the same graph from worker
processes that share one reference store.

What makes each part correct: section 4; the hazards with their lines are in `PROJECT.json`.

## 2. Modules

| Module | Models |
|---|---|
| `RunLifecycle` | the run service, its store, the two locks, approvals, debug replays, crash and recovery |
| `RunContract` | the abstract promise of a run's status column, which `RunLifecycle` implements |
| `AlertIntake` | the alert poll, the dedup table, the watermark, retries, crash |
| `AgentTools` | the agent loop: model calls, parallel tool calls, budget, boundary, gateway, ledger |
| `ToolGateway` | one call of the gateway in detail, as a function |
| `ContextArchive` | the agent's history: archive calls, directives, cards, markers, the archive store |
| `ReportContext` | extends it: what recall and the report composer see of the archive and the ledger |
| `ReportGate` | composition, validation, rejudgment, backstops, evidence floor, publication |
| `CaseGraph` | extends it: the response advisory, the plan, the approver |
| `ActivityStore` | ingestion into the reference store, and paged queries of it |
| `EvalRunner` | worker processes, the import lock, the pool, the bucket, records and resume |
| `LiveView` | a run page, its event stream, reconnection, reload |
| `EvalScoring`, `AuditProjection`, `CaseValidation`, `KnowledgeService`, `DraftEditor`, `MessageShaping`, `ServiceSettings` | pure algorithms, as functions with reference definitions |
| `MC...` | instances for TLC: `MCRunLifecycle`, `MCContextArchive`, `MCCaseGraph`, `MCActivityStore`, `MCEvalRunner`, `MCLiveView`, and `MCAlgorithms`, which puts the functions over their inputs |
| `...Proofs` | `RunLifecycleProofs`, `AlertIntakeProofs`, `AgentToolsProofs`, `ReportContextProofs`, `CaseGraphProofs`, `ActivityStoreProofs`, `EvalRunnerProofs`, `LiveViewProofs` (section 7) |

`CaseGraph` composes `ReportGate` with the advisory; `ReportContext` composes the archive
with the ledger and the composer; `LiveView` takes of `RunLifecycle` the order in which a
run writes its row and its events. The module of an abstraction is where another
component appears only as what it may do: the graph inside `RunLifecycle`, the ledger
inside `ReportGate`, the source inside `AlertIntake`.

### RunLifecycle

Threads are program counters with local variables (`thr[t]`): one executor per
run, the request threads (`Workers`: HTTP threads and the poller), and the thread
that starts the process. A step is one call on the store (each holds the store's
own lock and is therefore atomic) or one operation on a `threading.Lock`. So every
interleaving of two store calls of two threads is a behaviour of the model.

| Code | Definition |
|---|---|
| `InvestigationRun` row (status, stage) | `row[r]`, `"absent"` before `create_run` |
| event and audit tables, in sequence order | `events[r]`, `audits[r]`; their lengths are the highest number |
| artifact table | `artifacts[r]` |
| newest checkpoint of the graph thread | `head[r]` |
| `_execution_lock`, `_emit_lock` | `execLock`, `emitLock` |
| `start`, `start_alert`, `replay` | `LaunchCreate`, `LaunchPayload`, `LaunchSpawn` |
| `_execute_locked`, `_execute_alert_locked` | `XAcquire` ... `XExit` |
| `_fail` | `XFailRead`, `XFailWrite`, `XError` |
| `_emit`, `_emit_locked` | `EmitRead`, `EmitStage`, `EmitSeq`, `EmitAppend`, `EmitRelease` |
| `_audit`, its primary-key collision | `AuditSeq`, `AuditAppend`, `AuditCollide` |
| `ApprovalService.decide`, `complete_after_approval` | `ApCheck` ... `ApWrite` |
| `DebugService.resume` | `DbStart`, `DbEmit`, `DbEnd`, `DbRaise`; `replayed`, a history variable, collects the runs it was requested of |
| process death, `recover_orphans` | `Crash`, `RecoverNext`, `RecoverWrite`, `RecoverDone` |

Abstractions. Two executions (reference case and alert) share their code path in
the model; `Alerts` says which runs are alerts, and the places where they differ
(payload artifact, the `result` event, parking against the demo policy's denial)
test it. The graph is external: it emits up to `MaxEmits` events of `BodyKinds`,
then finishes with or without a plan, stops at the approval interrupt, or raises.
LangGraph's `Command(resume=...)` loads the newest checkpoint and then works from
it; on a finished graph it does nothing. An audit insert whose number was taken
raises; inside a tool call the safety net may turn the exception into a tool
error, so both continuations exist (`Unwound`). Errors of SQLite itself, a thread that
does not start, and the reads that change nothing are left out here; what a start that
raises after its row is stored means for the intake is in `AlertIntake`.

A debug replay may be asked for any run that exists: the endpoint looks for the row and not
for a checkpoint (`routes.py:445-464`), so it may meet a run that is still queued, or whose
launch has not started its thread. Which checkpoint the request names is not seen; a replay
may emit, end or raise at any time. It writes whole rows and checkpoints of its run beside
the threads that own them, so a run keeps from its first replay on only the locks and the
numbering (section 6, item 2). The properties of a run's status are therefore about
`Unreplayed`, the runs nobody has replayed, next to any number of replays of others;
`RunContract` calls the rest "replayed" and promises nothing more of them.

### AlertIntake

`poll[p]` is the poll a thread is in. One action per step that another thread or a crash can
separate: begin, fetch, unsupported, fail, known keys, and for each alert skip, start,
failed start, record, audit. A start that raises may have stored its run before
(`RunService._launch` stores the row, then its artifact and its audit, then starts the
thread); `stray` counts those rows, `runs` the runs a start has returned. The pages of a
fetch are one step that returns the whole window if it fits into `FetchLimit` and any subset
of that size otherwise (the source chooses the order). `sorted(..., key=detected_at)` is the
set of orders it may return for equal times (`Oldest`). The clock, the arrival of alerts and
the sink are the environment. Polls that return at once (lock busy, disabled) change nothing
and are stutters.

### AgentTools and ToolGateway

The agent loop between `agent.invoke` and the report. A model answer names tool
calls; each call is a thread (`call[c]`), and the step ends when all have answered.

| Code | Definition |
|---|---|
| `budget_model_calls`, `budget_tool_calls` | `modelCalls`, `toolCalls` |
| `InvestigationToolLedger` | `authorized`, `returned` and `used` (what its results contain and were asked for with), `traces` (their number) |
| `wrap_model_call`, `BudgetExhausted` and the degraded exit of `_run_node` | `ModelCall`, `ModelConcludes`, `ModelExhausted`, `ModelRaises` |
| budget and boundary around a tool call | `BudgetDenies`, `BoundaryAuthorizes` |
| `InvestigationToolGateway.invoke` | `GatewayAuthorizes`, `QueryFails`, `QueryAnswers`, `QueryLeavesScope`, `RecordResult` |
| the reducers at the end of a step | `StepEnds` |

The budget is checked against the counter the step started with, so the check is
part of the first step of a call. The gateway checks the ledger again on its own,
appends the result, reads the authorized references and assigns them extended in a
later step: another call may come between any two of these. A refusal that is an
answer counts against the budget; an exception that only the safety net turns into
an answer does not. A reference stands for an activity (or relation) with the
entities it names; the policy's checks of hosts, domains and time windows are the
set `Foreign`. The token budget is not wired.

`ToolGateway` opens that set up: one call with its domain, hosts, window and references,
the checks of `authorize_call` and `validate_result` in their order, the window of an
entity timeline, and the split of relations into those shown in full and those reduced to
a clue, with the host of an endpoint taken from attribute, reference and aliases
(`EndpointHost`).

### ContextArchive and ReportContext

One item of `history` per model round (its AI message with the tool messages) or
card; a round's number stands for the records it produced. The hooks run in the
order of the stack: summarization (external: it may replace any prefix), then the
rewrite by the pending directives, `ApplyDirective` for one after the other (`Rebuild`), then
the model. An
archive call computes its span from the history the step started with, draws a
handle (`ArchiveBegins`) and writes its block under it (`ArchiveStores`). The token
threshold makes any refusal possible (`ArchiveRefused`). The budget of the loop is
`AgentTools`'; here the number of rounds is bounded.

`ReportContext` adds no step. `Ran` says which tool each round called and what it found;
from the store and the ledger follow the coverage the composer computes
(`_ArchiveCoverage`: `CoveredQueries`, `ActivityRefsAreCovered`, `EntityResultIsCovered`,
`TraceIsArchived`), the tail it is given in full, the references it may cite
(`EvidenceCatalog`: authorized activities and resolved relations, `reporting.py:247-280`), and
what `recall` answers by identifier and by handle. An exploration has resolved, candidate
and out-of-scope relations. In `archive` these are
evaluated in every state, so against every order of archives, collisions and summaries.

### ReportGate and CaseGraph

The ledger is finished when the report is written; it is the constants. A draft is what
the checks tell apart: verdict references, counter references, cited references, the
units of the sections with their references, whether plan and scope are named, and the
relations it calls confirmed.

| Code | Definition |
|---|---|
| `consult` for the baseline before the report | `ConsultBaseline` |
| model judgment with pointers, `assemble_report_draft` | `ModelJudges`, `Assemble`, `Assembled` |
| the composed draft of the other pipeline | `ModelDrafts` |
| parse and transport retries around a model call | `RetryParse`, `RetryTransport`, `ModelRaises` |
| `validate_grounding` | `Issues`: references, support, boundary, relations |
| `apply_assembly_backstops` | `Backstop`, `Strip` |
| rejudgment, degradation | `Settle` |
| `apply_evidence_gate` | `GateVerdict` |
| publication with a second validation, `DeterministicFallbackBuilder` | `PublishReport`, `FallbackDraft` |
| response context, proposal, whole-proposal retries, draft repair | `LoadContext`, `ContextFails`, `PlannerAnswers`, `PlannerWritesAgain`, `PlannerLeavesDraft`, `DraftStillBroken`, `PlannerRaises` |
| policy validation, plan and its approval status | `ValidatePlan`, `FinalizePlan` |
| the interrupt and its decision | `Approve` |

A model may answer anything: every judgment over `Cites`, `Claims` and `Threats`, every
set of proposals over `ActionCites`, an answer that does not parse, an error of transport,
an exception. Wording, scores and the order of sections are left out.

### ActivityStore

Two parts over the same four tables. An ingester reads the digest of a record, then
parses, projects and inserts in one transaction, or quarantines in another: two steps per
record, so a second ingester comes between them, and a crash does. A client opens a
query and takes pages: a typed query continues after the last row (a keyset cursor), a
timeline at an offset into the list as it is now.

| Code | Definition |
|---|---|
| `ingest_payloads` | `ReadDigest`, `Insert`, `Quarantine`, `Stepped` |
| `ReferenceEventParser` | `Parse`, `Activity` |
| `DeterministicEntityProjector` | `Related`, `Identified` |
| `put_record_with_activities`, `put_entity` | `StoreRecord`, `Collides`, `Merged` |
| `SQLiteActivityQueryAdapter._query` | `Authorized`, `Matches`, `Rest`, `Page` |
| `list_entity_timeline` | `OnTimeline`, `Rest` |
| `find_relations`, `get_raw_record` under a source profile | `ShownRelations`, `ShownActivities` |

A moment has two sides: the instant it means (`time`) and the ISO text it is kept as
(`text`, its place among all texts). Offsets are kept as they come (`ingestion.py:24-33`),
so the two orders agree only in UTC (`InUTC`). Typed queries compare and order by text
(`activity_query.py:132-148`), timelines filter by instants. A typed query filters by host
only if the request or the scope names one (`activity_query.py:113, 129`).

Identifiers are numbers made from the record's (the twin of an executed file has the
next one), as the code makes them from the record's identifier and a position. A process
has a start time or not (`Known`); what else an activity carries is its references.

### EvalRunner

Each process is the main thread (`pc`) and its pool (`task[p][r]`). The processes have one
output directory (`--name`), which holds the reference store, its lock file and the
directories of the runs, and each is given some of the runs: two may have the same ones, as
when one runs the suite and another a single case of it (`--smoke`). The lock file, the
store (`table`, a dataset in parts), and the directories (`record`: gone, without a record,
empty, torn, or a result) survive `Crash`; memory does not. A file that is being written is
the one its writer has opened (`opened`): if its directory is removed, what it writes is
gone.

| Code | Definition |
|---|---|
| `_import_lock`: O_EXCL, waiting, takeover after the deadline | `Open`, `CreateLock`, `DeadlinePasses`, `TakeOver`, `Unlock` |
| check and import of a dataset inside it | `Recheck`, `ImportNext`, `ImportPart`, `ImportEnds` |
| resume: which records count as done | `Scan`, `Unreadable` |
| worker threads: `rmtree` and `mkdir` of the run's directory, the bucket and its refill | `StartRun`, `MakeDirectory`, `Acquire`, `Refill` |
| a run, its record opened and written, the pool joined | `RunCase`, `WriteRecord`, `Finish` |
| `_fill_artifacts`: the rewrite of every record at the end | `FillOpen`, `FillWrite`, `FillEnds` |

What raises ends the process as `aborted`: a record that does not parse, a directory that
another process has removed or is filling (`Contended`), in a pool thread after the pool is
joined. The scan of all records is one step. All processes have the same datasets; a
`mkdir` that fails because another process removes its parent in between is left out.

### LiveView

`run_page` reads the row, the events and the trajectory in three steps; its script opens
a stream if the row was live; the stream starts from the first event, each time it is
opened; the page skips what is at or below `LAST_SEQ`, asks for the status from a timer, and
reloads after an end. The run is status and ledger, the row written before the final event.

### The pure algorithms

`MCAlgorithms` draws one input per behaviour and has nothing else to do; its invariants
compare each function with a definition that says what it is for, written from the
input instead of along the code.

| Module | Code |
|---|---|
| `EvalScoring` | scorers, outcome of a run and of a case over its epochs, diff of baselines (`agent_eval/scoring.py`, `reporter.py`, `bootstrap/eval_scorers.py`) |
| `AuditProjection` | audit records grouped into envelopes and projected to events, with process identities and parent relations (`projection_auditd.py`) |
| `CaseValidation` | loading and checking of a case, pinning, derivation of variants, loading of a suite |
| `KnowledgeService` | one consultation over routing, reference retrieval and the corpus, with faults, ranking, merging and the overall status |
| `ToolGateway` | see above |
| `DraftEditor` | `apply_edits` with anchors, negative positions and paths into scalars |
| `MessageShaping` | the cleaning of provider leftovers in the history, the shortening of tool results |
| `ServiceSettings` | `save` line by line, `load` at the next start, `restart_required` |

## 3. Runs and bounds

| Run | States | Instance | Question |
|---|---|---|---|
| `runs_core` | 2 082 000 | an alert run and a reference run, 2 request threads | what every interleaving of executions, launches and approvals keeps |
| `runs_restart` | 1 144 000 | both runs, 1 request thread, up to 2 crashes, recovery at start | what a crash may lose; that only a decision closes a pending run; that the status column implements `RunContract`, liveness included |
| `runs_debug` | 7 251 000 | one alert run, 2 request threads, 1 debug replay at any time from the launch on | numbering and the emit lock with a replay emitting beside the executor or an approval; the contract of a status up to its first replay |
| `run_orphan` | 4 000 | one run, 1 crash, no recovery at start (as `bootstrap/demo.py` starts) | finding 1: expected to be violated |
| `intake` | 150 000 | 3 alerts (one unmappable and undated), poller and manual endpoint, 1 crash | the runs an alert can get; retries; that visible alerts settle |
| `agent` | 871 000 | 2 parallel calls, 4 references (one foreign), 4 model calls, tool budget 2 | scope and provenance of the ledger; the exhausted budget; that investigations end |
| `archive` | 1 648 000 | 2 parallel archive calls, 6 rounds (one an exploration), 2 summarizations | that no round is lost, and that recall and composer reach everything |
| `case` | 31 000 | 2 activities, an evidence reference, a resolved and a candidate relation, a clue; 1 rejudgment, 2 parse and 2 transport attempts, 2 rounds, repairs and writes of the planner | what a published verdict and a closed plan rest on; that a case concludes |
| `data` | 87 000 | 2 ingesters with 6 and 5 records, 7 queries, two offsets, page size 1, 1 crash | that the tables agree, no record vanishes, pages are complete and in scope |
| `eval` | 538 000 | 2 processes on one directory, 2 runs (one shared), 2 datasets, 2 threads, bucket of 1, 1 crash, 1 overrun deadline | lock, records, resume and rewrite; that every start ends |
| `live` | 42 000 | a ledger of 4 events | that a page misses nothing and shows the end |
| `algorithms` | 319 000 | one state per input | the algorithms against their reference definitions |

Every passing run explores its whole state space.

Bounds and why they suffice.

* Runs: two runs are enough to compete for the execution slot, one of each kind covers
  both code paths, and everything else in the store is keyed by the run. Two request
  threads are the smallest number at which two approvals, or a replay and the launch or the
  approval of its run, overlap. One body event
  per execution lets an emission fall between any two other steps. Two crashes let the
  recovery itself be interrupted. A replay beside another run, with crashes, is left to the
  theorems, which bound neither. Symmetry is used in safety runs only, over request
  threads, which no definition distinguishes.
* `intake`: two retries distinguish failed from abandoned, three alerts against
  `MaxRuns = FetchLimit = 2` overflow both limits. A clock tick is longer than the overlap of
  the windows (`Overlap = 0`), so one tick lets an alert fall out of the window, while alerts
  of one tick are shown again and again.
* `agent`: four model calls exceed the tool budget of two by two steps and reach the
  exhausted model budget; two calls per step are enough for a read and a write of the
  ledger to straddle another call's, and three references in scope let a reference be
  known, returned by the same step, or returned before.
* `archive`: six rounds allow archives of archives' neighbours, overlapping spans of two
  calls, colliding handles, and a summary before and after them; the minimum span is one
  round so that short histories already have many spans. The six rounds hold two queries of
  one tool, the second without a hit, the raw record of what the first one found, an exploration
  with a resolved, a candidate and an out-of-scope relation, a metric over what was found,
  and a round without a data tool.
* `case`: two activities, one known by an evidence reference too, give a verdict that
  reaches the floor of a threat type, one that does not, and one that would only if uncited
  data counted. Limits of two let each retry be used, and each be exhausted; the two
  counters of a model call meet there, because a transport error restarts neither.
* `data`: the batches hold a record sent twice, a changed one, an identifier two sources
  use, one that violates the contract, one that cannot be read, and two written with another
  offset, so that texts and instants are in different orders, as they are in the windows of
  two queries; page size one puts an ingestion between any two rows of a query. A third
  ingester adds nothing, because an ingester meets the others only through the keys of one record.
* `eval`: two processes are a holder of the lock file and a waiter; one crash leaves a
  lock file, a torn record or part of an import behind, and one overrun lets a waiter take
  over from a live importer. One process has two runs on its two threads with a bucket of
  one, so a thread waits for a refill; the other has one of these too and removes, fills or
  rewrites its directory at any time, while the second run is the first process's own.
* `live`: three reads and a stream over four events: before, between and after the reads,
  and the final one.
* `algorithms`: lists of two or three items and names from two or three, chosen so that each
  branch of the code is taken; a draft or capture of three shows duplicates, order and the
  position in the middle.

`CHECK_DEADLOCK FALSE` is set where the system may stop: a page whose stream is closed and
whose run is over and shown (`live`), and `algorithms`, where a behaviour is one input.

Some type invariants are in no run's list of properties: those of `RunLifecycle`,
`AgentTools`, `AlertIntake`, `ContextArchive` and `LiveView` are proved (section 7); those
of `CaseGraph`, `EvalRunner` and `ActivityStore` hold of the instances above when they are
added to a cfg.

## 4. Properties

Safety of runs. `SingleExecutionSlot`: the execution lock is held exactly by the
one run between acquisition and release, on every way out. `EmitLockHeldByEmitter`
and `EventNumberStillFree`: the number an event was given is still free when it is
inserted. `TerminalEventMatchesRow`: the event stream announces an end only after
the row says so. `ApprovalFollowsGraph`: a run is offered for approval only with a
graph that is stopped there, and closed as advised only after the graph took a
decision. `PublishedAfterArtifacts`: a crash loses the status, never the report
behind it. `NoOrphanRun`: after recovery every active row has a thread.
`PendingClosedByDecision`: a parked run survives restarts and only a decision closes
it. `ImplementsContract`: the refinement of `RunContract`, which also says that an
accepted run settles; `KeepsContract` is its safety half, for each run until its first
replay. From `TerminalEventMatchesRow` on all of these are about the runs nobody has replayed.

Intake. `OneRunPerAlert`: of the runs that starts have returned an alert has one, and one
more per crash; of the rows that failing starts have left behind it has no more than the
failures on record, fewer than the retry limit once a start succeeds. `RetriesCounted`, and
`VisibleAlertSettles`: an alert settles unless the window has left it behind, the
connector is disabled, or the window holds more than one poll fetches.

Agent. `LedgerInScope`: no activity of another host or time enters the ledger or
authorizes a call. `UseWasReturned`: the model reaches only what the alert or a result
of the run has named, although authorization is read twice and written apart.
`ExhaustedFreezesLedger`: with the tool budget used up, no call on its way still
changes what the report is written from. `InvestigationEnds`.
`GatewayKeepsScope`: the same of one call with all of its arguments, and that nothing of
the host itself is withheld.

Archive. `RemovedLeavesCard`: each round is live, on a live card, or was summarized.
`ArchivedStaysGone`: no archived round is there when the model is asked, so the refusal
`span_already_archived` (`archive.py:611`) can never be the answer. `NothingOutOfReach`: a
record that left the conversation is found by recall under its identifier, also when
handles collide, the composer gets each query in full or on a card that exists, and of what
the cards list it may cite all but relations that no exploration has resolved.

Case. `GroundedIsSupported`: a grounded report asserts nothing the ledger cannot show,
whichever pipeline wrote it, after any rejudgment and backstop. `ConfirmedHasFloor`: a
verdict of confirmed malice cites activities that show what its threat type needs.
`ApprovalNotSkipped`: a plan with a risky action meets an approver. `CaseConcludes`: a
case comes to a plan, to its approver, or it fails (its response context may not load).

Data. `StoreConsistent`: records, activities, relations and entities tell one story, down
to the record a shown relation rests on. `NothingLost`: a batch adds up, and every record
is stored or in quarantine. `HistoryKept`: nothing stored is changed or removed.
`PagesComplete`: following the cursors gives everything that matched at the beginning, and
a keyset cursor repeats nothing. `PagesInScope`: no page shows a source out of view, no
typed query a host outside a scope that names hosts; a timeline keeps to its window, a typed
query does where record and window are in UTC (section 6, item 11).

Evaluation. `LockBrokenByTakeoverOnly`: importers beyond the first cost a removed lock file
each. `OkRecordKept`: what is recorded as ok is only taken up again to be written with the
same result, and lost only if the process dies while the file is empty.
`FinishedSuiteIsRecorded`: a suite that ends, its rewrite included, has a readable result of
each run. Both are about runs no other process has; of shared ones nothing is kept.
`SuiteEnds`: every start ends, if only by an exception. `ScoringIsSound`: a case counts as
passed only if each of its epochs earned it.

Page. `NoEventSkipped`: a page shows its run without a gap, and twice only what a reopened
stream or the second read of a snapshot brought. `PageShowsTheEnd`.

Algorithms. `CasesAreFaithful`: variants have the truth of their case and one judgment
target; events explain a capture with stable process identities and nothing that failed.
`GapsAreVisible`: a consultation never passes a failure off as a finding of nothing, and
gives the best of each healthy source in order. `RewritesAreLocal`: the editors of drafts,
settings and messages change what they name and nothing else.

## 5. Fairness

* Runs: each executor and each request thread is weakly fair: the operating system
  schedules it, and the budgets of the graph bound its work (`left`). A `threading.Lock` is
  not FIFO, but a run executes once and the number of runs is finite, so a waiter is
  passed over finitely often and weak fairness suffices. Requests and crashes are not fair.
* Intake: the background poller starts another poll after every interval, a poll that has
  begun goes on, and a fetch that is possible again and again succeeds at some time (strong
  fairness: the source does not fail for ever). Nobody has to use the manual endpoint.
* Agent and case: the model, the tools and the report step are weakly fair: their clients
  have timeouts (`bootstrap/settings.py`) and raise when these expire. Nobody has to decide
  about a plan; `CaseConcludes` counts a case at its approver as concluded.
* Evaluation: the main thread, each pool thread and the refill of the bucket of a process
  are weakly fair; the deadline of a waiter may or may not pass while the importer lives,
  but a dead importer's lock file is taken over. Nobody has to start a process again.
* Page: its reads, its status timer and its reload are weakly fair: the page is open and
  the service in reach. The stream need not deliver anything and the run need not proceed.

`ContextArchive` and `ActivityStore` state no liveness: what they do ends with the loop
of their caller.

## 6. Findings and divergences

1. `run_orphan` (with a run TLC refutes; `PROJECT.json` quotes the lines): no production
   path calls `recover_orphans`; after a crash a row stays queued or running for ever.

The following are stated as properties that the code does not keep; each is in its module
with the comment "The code does not keep this; no run checks it.", and adding it to the
cfg named gives the trace.

2. `TerminalStatusKept` (`RunLifecycle`, `runs_debug`): `_emit_locked` writes the whole row
   back (`run_service.py:574-578`), so a debug replay can restore the status of a row that
   was closed meanwhile.
3. `DecidedOnce` (`runs_core`): two approvers can both decide one run; both decisions are
   audited (`run_service.py:306-316`).
4. `AuditedDecisionIsTheGraphs` (`runs_restart`): after a crash between the resumed graph
   and the completed row a second, different decision is audited.
   `AuditNumberStillFree`: audit numbers are allocated without a lock.
5. `RetryStaysInWindow` (`intake`): an alert that waits for a retry can
   fall below the next window (`alert_intake.py:206-212`).
6. `CallsWithinBudget` (`agent`): parallel tool calls of one model answer count as one against
   `max_tool_calls` (`agent_middleware/budget.py:44-46, 234-251`).
7. `MarkersAreAnchors` (`archive`): after a summary, round markers repeat, and `from_round` is
   ambiguous (`archive.py:519-521`).
8. `TailIsComplete` (`archive`): the composer's tail drops metric and raw results of rounds
   that were never archived, where the references they name are covered, and a trace is
   taken for archived by the name of its tool (`reporting.py:100-124, 200-209` against
   the comments at 61-64 and 186).
9. `EditedPlanKeepsPolicy` (`case`): an edited plan is held to the schema only, not to the
   policy the planner's own output is held to (`graph.py:250-252`).
10. `AcceptedOnFullData` (`eval`): a case can run on a half-imported dataset, after a crash in
   the import or a takeover from a live importer (`bootstrap/eval_tasks.py:279-287`).
11. `TypedPagesInWindow` (`data`): texts with different offsets are compared as they are
   (`activity_query.py:132-137`), so a typed query may show an activity outside the window and miss
   one inside. Inside a run the tool boundary compares instants again and refuses such a
   result (`boundary_policy.py:212-228`).
12. `CatalogIsComplete` (`archive`): the validation accepts a candidate relation as a reference
   (`report_validation.py:61`), the catalogue given to the composer does not list it
   (`reporting.py:228, 247-280`).
13. `CompletedRunsStay` (`eval`): a suite skips what is complete (`runner.py:69-75`,
   `src/.sdd/features/16-agent-eval-framework/design.md:99`), but every start ends with a rewrite of
   all records, skipped ones included (`bootstrap/eval_cli.py:33-46, 130`); a process that dies
   while a file is empty takes a completed run away, and `run_suite` raises on the file at
   every later start (`runner.py:71`).

Seen while reading, without a property:

* Runs. Parking a run is audited as `approval_decided` before anybody decided
  (`run_service.py:627`, `bootstrap/workbench_bindings.py:192`). An alert run cannot be
  replayed although the audit text of `run_service.py:249` promises it. A debug replay
  changes the stage of a closed row. Model rounds are limited to 500 by the settings but
  the graph steps of an agent to a fixed 1000 (`middleware_runtime.py:290`), a few per round.
  A replay of a run that is being launched audits beside the launch; if the launch's insert
  loses, the request raises and the run stays queued without a thread.
* Intake. A full window may repeat known alerts for ever (`alert_intake.py:241`).
* Agent. An assignment of the authorized references can take back what a parallel call
  has just added (`judgment/adapters/investigation_tools.py:207`), so a reference the model
  has been shown may be refused. When the event of a result raises, the model is told that
  the call is void (`safety_net.py:86`) although the ledger holds its result.
  Only the first ten activities keep their identifiers in a shortened result although
  `tool_observation.py:24-27` says that identifiers are never stripped. An entity without a
  host reference counts as unattributed (`_endpoint_host` against its docstring).
  The authentication tool belongs to no domain.
* Archive. Two parallel calls can draw the same handle, and then one card leads to the
  other's block (`memory_store.py:52`); cards of overlapping spans do not stay in creation
  order; the archived rounds of both spans are counted although they overlap
  (`archive.py:484-486`). The recall budget is checked and consumed without a lock.
* Report. The backstops call an activity in `confirmed_relations` structurally impossible,
  and it is not. An activity that was returned but not authorized has no pointer.
* Data. An activity's identifier leaves its source out, so
  two sources with one identifier collide into quarantine. A later refusal overwrites the
  quarantined content of an earlier one. Activities of an extension have no host, so a
  query that names hosts never finds them, while one under a scope without hosts has no host
  filter (`activity_query.py:129-131`). `resolve_entity` is
  not filtered by the source profile. A timeline cursor repeats items when something
  earlier is ingested.
* Evaluation. A late waiter's removal can hit a fresh lock file; the takeover is not
  exclusive, and the error promised at `eval_tasks.py:306` is never raised. A torn record
  raises in `run_suite` (`runner.py:71`), which the model has as `aborted`. Two processes that
  are given one run under one `--name` remove each other's directories; a second suite under
  a `--name` finds the store of the first and imports nothing. The case timeout
  is not used. A pass rate counts the cases with any run that is ok.
* Page. After a reconnect every event past the snapshot is rendered and counted again,
  although `pages.py:1446` says that `LAST_SEQ` prevents it. A page that waits for approval
  reloads about every ten seconds, so a typed comment is lost. A run completed before its
  final event can be rendered without a stream, and then never shows that event. A debug
  replay of a failed run announces live events that no stream delivers.
* Settings. Saving is an unlocked, non-atomic rewrite; role overrides, of the base and of
  the API key (`settings.py:230-231`), and the process environment (an empty variable too)
  shadow what was saved, and `restart_required` then stays true.
* Knowledge. The router attributes results by position. A torn corpus line is skipped
  while the source still counts as available.
* Capability validation. The flags of `open` are read from the argument of `openat`
  (`projection_auditd.py:191`); `execveat` is named but not projected; a reused pid merges two
  processes; deleting a unit file is projected as writing it (`409-420`); identifiers of
  variants are not checked for uniqueness.

## 7. Proofs

| Theorem | Module | States |
|---|---|---|
| `TypeCorrect`, `ExecutionsExclusive`, `EmitLockOwned`, `EventNumbersFree` | `RunLifecycleProofs` | `[]TypeOK`, `[]SingleExecutionSlot`, `[]EmitLockHeldByEmitter`, `[]EventNumberStillFree` |
| `TerminalEventsTrue`, `OfferedComplete`, `DeskFollowsGraph` | `RunLifecycleProofs` | `[]TerminalEventMatchesRow`, `[]PublishedAfterArtifacts`, `[]ApprovalFollowsGraph` |
| `NoOrphansServed` | `RunLifecycleProofs` | with `RecoverAtStart`: `[]NoOrphanRun` |
| `PendingNeedsDecision`, `StatusKeepsContract` | `RunLifecycleProofs` | `PendingClosedByDecision`, `KeepsContract` (`Safety` of `RunContract`) |
| `TypeCorrect`, `ScopeKept`, `UsesReturned`, `ExhaustedKeepsLedger` | `AgentToolsProofs` | `[]TypeOK`, `[]LedgerInScope`, `[]UseWasReturned`, `ExhaustedFreezesLedger` |
| `CallsKeepScope` | `AgentToolsProofs` | `GatewayKeepsScope` of `ToolGateway`, for all arguments |
| `HandlesExist`, `NothingLeavesUntraced`, `ArchivedOnce`, `EverythingInReach` | `ReportContextProofs` | `[]TypeOK`, `[]RemovedLeavesCard`, `[]ArchivedStaysGone`, `[]NothingOutOfReach` |
| `MessagesStayReadable`, `EditsAreLocal` | `ReportContextProofs` | `HistoryStaysReadable` of `MessageShaping` for all histories and results, `EditsStayOnTarget` of `DraftEditor` for all drafts and batches of edits |
| `TypeCorrect`, `RetriesAreCounted`, `OneRunEach` | `AlertIntakeProofs` | `[]TypeOK`, `[]RetriesCounted`, `[]OneRunPerAlert` |
| `ReportIsSupported`, `MaliceHasFloor`, `RiskIsApproved` | `CaseGraphProofs` | `[]GroundedIsSupported`, `[]ConfirmedHasFloor`, `[]ApprovalNotSkipped` |
| `StoreIsConsistent`, `BatchIsAccounted`, `HistoryStays` | `ActivityStoreProofs` | `[]StoreConsistent`, `[]NothingLost`, `HistoryKept` |
| `PagesAreComplete`, `PagesStayInScope` | `ActivityStoreProofs` | `[]PagesComplete`, `[]PagesInScope` |
| `ImportIsLocked`, `SuitesAreRecorded`, `OkRecordsStay` | `EvalRunnerProofs` | `[]LockBrokenByTakeoverOnly`, `[]FinishedSuiteIsRecorded`, `OkRecordKept` |
| `PassesAreEarned`, `VariantsInheritTruth` | `EvalRunnerProofs` | `PassIsEarned` of `EvalScoring` for any number of epochs, `VariantsKeepTruth` of `CaseValidation` for all cases and parameters |
| `PageTypes`, `NothingSkipped` | `LiveViewProofs` | `[]TypeOK`, `[]NoEventSkipped` |

Each holds for every value of the constants under the named assumptions of the modules,
which are about types (bounds are natural numbers, the special values are none of the
others) except where said below.

`RunLifecycle`. The inductive invariant is `IInv == Typed /\ OneLaunch /\ Locked`.

* `Typed` is `TypeOK` with `Local(t, thr[t])`: which program counters a kind of
  thread can be at, and where its calls of `_emit` and `_audit` return to. Types
  alone are not inductive, because `Returned` and `Audited` jump to a stored label.
* `OneLaunch`: a run whose launch is in progress has one launcher and no executor
  yet, and a row, once created, is never absent again. Without it a second launch
  could restart the thread of an executing run, and the lock would lose its owner.
* `Locked` is the conjunction of the three properties; the event number needs
  the emit lock, and the lock needs that only its holder is inside `_emit`.

The proof has one lemma per group of actions (`ExecuteLocked`, `EmitLocked`,
`AuditLocked`, `LaunchLocked`, `BesideLocked`, `RecoverLocked`, `CrashLocked`).
Most steps touch one thread that stays on its side of both locks; `LockKept`,
`LaunchKept` and `QuietStep` say once what such a step keeps.

What the row of a run means while threads work on it needs more:
`SInv == IInv /\ ReplayInv /\ Sound`, with `Sound == Meaning /\ LaunchAlone /\ NoOrphan`, all three
about the runs nobody has replayed.

* `Meaning` says, for the place each thread is at or will be at when `_emit` and `_audit`
  return (`Doing`), which status its run has, what the row it is about to write back
  contains, and which artifacts, checkpoint and terminal event stand behind it. The
  properties alone are not inductive because almost every write is of a row that was read
  some steps before; the status column alone decides who may work on a run (an executor
  while it is queued or running, approvals once it is offered), and that is what makes a
  copied row still true when it is written.
* `LaunchAlone`: nobody else emits or audits on a run that is being launched and has not been
  replayed, so its audit number never collides and no launch leaves a row without a thread;
  `NoOrphan` says of each active row who works on it. Both are only about a process that
  recovers first.
* `ReplayInv` is about all runs: a thread that emits for a replay works on a run that was
  replayed, an executor on its own, and only runs that exist are replayed. It is what keeps
  the threads of replays, which may run beside a launch, away from the runs `Meaning` and
  `LaunchAlone` speak of.

A step of a thread on one run leaves the others alone, and a step on a replayed run keeps
`Sound` whatever it does (`ReplayedWorker`, `ReplayedSound`): only `ReplayInv` and the locks
have to survive it. `DbStart` takes a run out of `Unreplayed` and hides nothing else from it
(`DbStartSound`).

TLC checked `SInv` on small instances with and without crashes and replays before it was
proved. `RecoverAtStart` is what finding 1 misses. `StatusKeepsContract` is the safety half
of the refinement of `RunContract`: initial states map to initial states, and a step of the
detailed system is one step of the contract or none. The half about fairness stays with TLC
(`runs_restart`).

`AgentTools`, under `RefsAssumption` (nothing known is foreign). The invariant adds two facts
about the calls under way. `CallSeen`: what a call read from the ledger and is going to
write back, and what a call behind the second authorization asked for, was named by the
alert or a result; the properties alone are not inductive because a stale copy of the
authorized references is written later. `CallAdmitted`: a call behind the budget check, or
counted, implies a counter below the limit. The counter moves only when all calls have
ended, which gives both the bound on the counter and `ExhaustedFreezesLedger`.
`CallsKeepScope` has no hypothesis: it follows from what `Invoke` checks, case by case.

`ContextArchive` and `ReportContext`, for any number of parallel archive calls, rounds and
summaries (`ArchiveAssumption`, `RecallAssumption`: limits are positive, as the settings
demand; `ReportAssumption`: only explorations have relations). The invariant: a live item is
one round that has been (`LiveOnes`); what is stored, pending or archived has been too
(`Stored`); a call holds a span only once it has begun, and where it has ended the store has
a block under its handle and the index its rounds (`CallOK`); what is archived and still
live is named by a pending directive, and once the rewrite is over nothing is (`Going`);
each round is live, on a card or in a summary, and live, in a summary or in the index
(`Within`). Of two calls that drew one handle the second block replaces the first, so
`Within` must speak of the index and not of the blocks. The rewrite is an induction over the
pending directives: `Rebuilt` says what any number of them makes of the items of the
history, `RebuiltStep` adds one, and `RebuildFacts` applies `Induct`. Two functions that
rewrite what others wrote stand in the same module. `MessagesStayReadable` assumes that the
identifiers messages have, and the ones drawn for the rest, are distinct; it follows from
what is made of one message (`CleanedFacts`, `ReduceFacts`). `EditsAreLocal` assumes nothing
but the shape of a draft and of an edit, and is an induction over the batch: `AppliedFacts`
is one accepted edit, `OnTarget` what the first edits of a batch have made of the draft,
`NextEdit` the step.

`AlertIntake`, for a finite set of alerts (`AlertsFinite`: the orders `sorted` may return are
sequences of all of them). `Excluded`: only the holder of the lock is in a poll. `Pending`:
what a poll has left are distinct alerts, none of them settled. `Counted`: a row that was
never written has no failures. `RunsAccounted`: a run is accounted for by its record, or by
the poll about to write it, and one beyond that has cost a crash. `StraysCounted`: the rows
failing starts have left are covered by the failures counted. `OneRunPerAlert` alone is
not inductive: a poll with the same alert twice, or two polls, would break it.

`CaseGraph`. The properties are inductive with two facts about the shape of what they look
at: a draft has a level (`Leveled`), so that lowering it is an update, and a report is
published whole (`Reported`). The work is in two lemmas: a draft without issues is
supported (`NoIssues`), and what the evidence floor leaves confirmed reaches it
(`GateFloor`). The proof uses the second validation before publication: nothing of the
pipelines before it is needed, so it covers any model answer.

`ActivityStore`, for batches of records with numbers (`BatchAssumption`). `Agree` says what
each table is in terms of the raw records, and that an activity's identifier is its own;
that needs `ParseFacts`, the two identifiers a record gives, and the refusal of a collision.
`Accounted` says of each ingester that what is behind its position is counted, and is
stored or quarantined; it is kept by a step of another because nothing stored or
quarantined goes (`Kept`). For the pages, with a positive limit and windows between two moments
(`QueryAssumption`), `Reading` relates what a reader has seen to what is still ahead of its
cursor in the store as it is now. A keyset cursor is the last row it has seen; the offset of a
timeline is a place in the order, and the place of a row never goes down, because rows are
only added. The order is by the number of rows before a row (`Place`, `Ordered`), which gives
both in one definition.

`EvalRunner`, for finitely many processes (`ProcsAssumption`) on one output directory. The
lock is a counting argument: `LockCounted` says that importers do not outnumber the removals
plus the lock file there is. A single importer is not guaranteed, which is why the property
counts. `Records` says where in `main` a process is by what it has done with its runs
(`Phase`), and for a run that is its alone (`Exclusive`) what is on disk by what it has done
with it (`Recorded`): nobody else has the record open, and a record that is being written is
empty, so that what is written is what was meant. Of a shared run `Recorded` does not hold, and
the proof shows that steps on shared runs do not touch the others. `OkRecordsStay` assumes
`~Fresh`, the command-line option that asks for the opposite. `PassesAreEarned` and
`VariantsInheritTruth` are about the functions: what a process runs and what is made of its
runs. The latter assumes that the variant is not the default view and that appending it to
an identifier gives another one, which `variant_case_id` does.

`LiveView`, for a ledger of any length. `Bounded`: the stream and the snapshot do not run
ahead of the ledger. `SnapshotShown`: what was rendered is shown, and a stream opened once
has shown nothing past the snapshot and its position.

Only model-checked: liveness under fairness, and with it the fairness half of the refinement of
`RunContract` (out of the prover's reach, as is ENABLED); and of the algorithms, `GapsAreVisible`,
`SavedSettingsApply` and the part of `CasesAreFaithful` about audit records, over the bounded
inputs of `MCAlgorithms`. These filter, sort and fold sequences. The induction theorems of
the library take an operator as a parameter, which the backends cannot instantiate; where
an induction was worth it, it goes over a set instead (`Least` and `Induct` of
`ReportContextProofs`, from the well-foundedness of the natural numbers), and the recursion
is a recursive function, whose existence is part of the proof (`RebuildFacts`,
`EditsAreLocal`). `SelectSeq` is opaque to the backends, and the operators of the community
modules that sort or fold are not written that way. No module
with a theorem reaches a RECURSIVE operator.

## 8. Not modelled, and the plan

Not modelled, and why:

* The exploration graph and the data tool planner (`judgment`): used by tests and the demo
  with fixed plans; the product is kept from wiring the planner
  (`src/tests/test_architecture_dependencies.py:280-281`).
* The external adapter of `data_foundation`: a client of a remote API that maps records and
  errors; what the rest sees of it is the environment of `AlertIntake` and `AgentTools`.
* `observability`: a trace sink whose failures change nothing.
* `attack_lab`, `settle_case` and scripts: one pass over files by a person.
* Pages apart from the run page, texts, prompts, projections and statistics: they change no
  state. Model clients, token counting and errors of SQLite itself.
* Two saves of the settings at once, and a crash in the middle of one: the store has no
  protection against either, so a model would only show that.

What would come next:

1. The remaining algorithms for all inputs: the status of a knowledge consultation from its
   outcomes, the rewriting of the settings file, the projection of audit records. Their
   filters and sorts would first have to be written as recursive functions.
2. `ActivityStore` with queries under ingestion in more than one transaction per client, and
   the consultation ledger of `knowledge`.
3. The mapping of an intake payload to identifiers as a function with its refusals.
