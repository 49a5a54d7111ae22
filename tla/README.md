# DeepResearch: a model of runs, documents, reports and what they cost

DeepResearch accepts research questions in workspaces, executes them as
long-running *runs* with language models and search, and publishes reviewed
reports. A Java business service (`business-backend/`) owns the commands and
the access rules. A Python agent service (`backend/`) owns execution, documents
and retrieval. Both write one PostgreSQL database; Redis carries ARQ jobs to the
research workers.

This directory holds TLA+ modules about that program, the TLC configurations that
check them on small instances, and proofs checked by TLAPS.

| File | What it is |
|---|---|
| `RunLedger.tla` | abstract specification of the table `runs`: which moves a status may make, what is a new attempt, how much work is admitted and executed |
| `ResearchRuns.tla` | the detailed specification: commands, outbox, job queue, workers, recovery loop |
| `ResearchRunsProofs.tla` | theorems about `ResearchRuns` and their proofs, and the proof that it implements `RunLedger` |
| `Outbox.tla` | the table `business_outbox` and its dispatchers: leases, attempts, replaced and dead commands |
| `Delivery.tla` | abstract specification of the outbox: a command waits, is sent, is handled, is delivered or dead |
| `OutboxProofs.tla` | theorems about `Outbox` and their proofs, and the proof that it implements `Delivery` |
| `Documents.tla` | one document: upload and scan, indexing, replacement, deletion, tombstones, the object and vector stores |
| `DocumentsProofs.tla` | theorems about `Documents` and their proofs |
| `Publication.tla` | formal reports: submission, review, withdrawal, revision, and what changed documents do to them |
| `PublicationProofs.tla` | theorems about `Publication` and their proofs |
| `PaidCalls.tla` | requests to a model provider: the run's budget, the usage ledger, retries and the circuit breaker |
| `PaidCallsProofs.tla` | theorems about `PaidCalls` and their proofs |
| `ResearchGraph.tla` | the research graph of one run, executed by one attempt after another over the saved checkpoint |
| `ResearchGraphProofs.tla` | theorems about `ResearchGraph` and their proofs |
| `Verification.tla` | the validator node of that graph: claims verified in batches, repaired once, reported |
| `VerificationProofs.tla` | theorems about `Verification` and their proofs |
| `RunData.tla` | checkpoints and images of runs, and how they are deleted: intents, recovery loops, sweeps |
| `RunDataProofs.tla` | theorems about `RunData` and their proofs |
| `MC<module>.tla` and the `.cfg` files | instances for TLC |
| `PROJECT.json` | components, runs, mutants, map from definitions to source lines, findings, hazards, theorems |

## 1. The system

### Components, their state and their operations

Paths are relative to `src/`; Java classes are under
`business-backend/src/main/java/com/deepresearch/business/`.

| Component | State | Operations | What makes it correct |
|---|---|---|---|
| Run commands: `service/ResearchCommandService` | `runs.status` | create, cancel, resume | admission within `max_queued_runs`; a command acts on the run it read; a finished run stays finished |
| Outbox: `service/OutboxService` | `business_outbox` rows with lease, attempts, payload | enqueue, claim, deliver, fail, expire, retry of a dead letter | every committed command is delivered at least once or is visible as dead; a late dispatcher never marks a newer payload delivered |
| Agent endpoints: `backend/api/app.py` | none of its own | schedule, abort of a run | a delayed command never touches a later attempt |
| Runtime and workers: `backend/services/runtime.py`, `backend/worker.py` | `runs` row, process tasks, ARQ jobs | claim, execute, heartbeat, publish, fail, interrupt | one executor per attempt; limits hold; only the owner of the attempt publishes |
| Recovery loop: `Runtime.recover_stale_runs_loop` in every agent process | rows it has read | interrupt stale runs, requeue, exhaust, enqueue | every run settles; bounded automatic recoveries; a cancelled run is not revived |
| Platform administration: `api/PlatformAdminController` | `platform_users`, ownership | disable and enable accounts, cancel a run, transfer a workspace | nothing of a disabled account is published; one administrator always remains |
| Run budget: `backend/core/reliability.py` | `call_attempts`, counters on `runs` | check, reserve, settle | reserved calls and tokens never exceed the budget, over all attempts |
| Usage governance: `backend/core/usage_governance.py` | `usage_periods`, `usage_attempts`, `provider_probes` | reserve, settle, claim a probe | no scope exceeds its period budget; a reservation is settled once, in every scope it was taken from |
| Documents: `backend/services/documents.py` | `documents`, `chunks`, vectors, objects, `document_cleanup` | add, scan, ingest, replace, reindex, delete, clean up | a failed or late ingest never harms the version in use or a newer replacement; nothing in use is deleted |
| Evidence lifecycle: `backend/services/evidence_lifecycle.py` | corpus revision, change events, impacts | changed, process events, revise | a report whose sources changed is never shown as current |
| Publication: `service/ReportPublicationService` | `report_publications`, series | submit, approve, reject, withdraw, revise, delete | two-person review; one current report per series; nothing stale is approved |
| Run cleanup: `backend/services/run_cleanup.py` | `run_cleanup` intents | stage, reconcile | external data is deleted only after the row is gone, and eventually |
| Embedding migration: `backend/services/embedding_migration.py` | barrier and phase | start, switch, roll back | no claim or ingest passes the barrier |
| Providers: `backend/infrastructure/providers.py` | `provider_health` | call, fail, probe | one probe at a time while the circuit is open |
| Accounts and membership: `api/WorkspaceController`, `security/*` | memberships, revoked tokens | invite, change role, leave | the last administrator stays |
| Intake, rate limit, attachments, collections, memory, threads | small tables | mostly one statement each | guards |
| Research graph, retrieval, parsing, rerankers | none shared | computations and I/O | quality of content, outside this model |
| Frontend, deployment, scripts, evaluation | none | | outside this model |

### How they interact

* The two services share `runs` and advisory locks whose ids both derive from the
  same text: `platform-run-admission` (claims), `research-global-queue-admission`
  and `workspace:<id>` (commands), `execution:<run>`, `documents:<workspace>`.
* Commands write the run and an outbox row in one transaction. A scheduled
  dispatcher posts outbox rows to the agent, which checks status and attempt and
  enqueues or aborts an ARQ job. The id of a job is the run and the number of the
  attempt it will start, so ARQ drops duplicates while a job is unfinished.
* A worker claims a run under the platform lock, takes `attempt_count + 1` as its
  identity, and carries it as a fencing term in each later update.
* Every agent process runs the recovery loop over the same table.

### What is hard

The claim is a read of four counts followed by an update while other writers do
not take its lock. A resume is a read followed by an update that has no condition
on the status. ARQ redelivers, Redis may lose jobs, a worker presumed dead may be
alive. Commands are delivered late and twice. Recovery acts on rows it read
earlier. A late worker writes a checkpoint of a run that is being deleted.
Several tasks of one run reserve from one budget, with replies, retries and
cancellation racing for the settlement. A change of the documents is assessed report
by report while reports are submitted, approved and revised. `PROJECT.json` lists each
of these hazards at its line, with the properties that watch it or the reason why none
does.

## 2. The modules

### `ResearchRuns`

State and code:

| Variable | Code |
|---|---|
| `status`, `attempt`, `recoveries` | `runs.status`, `attempt_count`, `auto_recoveries` |
| `retryable` | `error_info.retryable` is not false |
| `expired` | `deadline_at` has passed; a deadline is set once and never extended |
| `disabled` | `platform_users.status` |
| `outbox` | rows of `business_outbox` that are pending or processing, at most one per run and type |
| `command` | a resume transaction between its read and its commit, with what it read; the global admission lock allows one at a time |
| `jobs`, `marks` | ARQ's queue with the jobs in progress, and its abort set |
| `worker` | a job slot: idle, between the reads and the update of a claim, or executing an attempt |
| `scan` | what each recovery loop has read and not processed |
| `resumed`, `faults` | counters that bound the model only |

Actions are grouped as in the code: user and operator commands (`CreateRun`,
`CancelRun`, `AdminCancelRun`, `DisableAccount`, `EnableAccount`, `BeginResume`,
`CommitResume`), delivery (`DeliverSchedule`, `DeliverAbort`,
`DeadLetterCommand`), the claim (`BeginClaim`, `RefuseClaim`, `ClaimExpired`,
`ClaimDisabled`, `AdmitClaim`, `AbandonClaim`, `ClaimRaises`, `DropJob`), the
outcomes of an execution (`CompleteRun`, `FailRun`, `InterruptRun`,
`LoseExecution`, `AbortTask`), failures of the environment (`CrashWorker`,
`LoseJob`, `DropMarkedJob`, `RestartReplica`), time (`ExpireRun`,
`InterruptStale`) and recovery (`BeginScan`, `ExhaustRow`, `RequeueRow`,
`SkipRow`, `AbortScan`, `EnqueueRow`).

Where a step of the model is coarser than the code, and why that loses nothing:

* A claim has two steps, the reads and the update. When the reads end in a
  refusal, the refusal is one step: the statement that may follow them
  (`exhaust`, or the update of a disabled owner's run) has its own condition on
  status or on status and attempt, so a change in between turns it into the
  refusal that is also modelled.
* `create` is one step. Between its count and its insert no other transaction can
  add work (both creation and resume take the admission lock), and a running run
  that becomes interrupted moves within the active runs that
  `AdmissionBounded` counts.
* The delivery of a schedule command reads the attempt twice and enqueues a job
  for the second value. A job that is wrong by then is refused by its claim, as a
  late job of `EnqueueRow` is, which keeps the two reads apart.
* A delivery the agent refuses or never answers leaves the row pending: no step.
  An exhausted row is `DeadLetterCommand`. Leases, back-off and the revival of a
  dead row are the subject of `Outbox`; a revived row is a command like any other,
  and `fencing` delivers commands at any later time.
* The rows a recovery loop has read are handled one after the other, in any order
  (the query has no ORDER BY): `Handles` lets a loop go on to another row only when
  the job of the row it has put back in the queue is enqueued.
* Runs are not deleted. Deleting a thread or a workspace's reports removes runs of
  any status; what must survive that is the subject of `RunData`.
* When `schedule` cannot reach Redis, the recovery loop goes on without a job;
  that is `EnqueueRow` followed by `LoseJob`.
* `InterruptStale` may strike a live worker: a heartbeat can be late.
* The retryable flag of a failure stands for `error_info`; a deadline that has
  passed stands for the arithmetic on times. The call and token budgets that
  resume also checks belong to the run budget.
* Rows of `events`, `dead_letter_runs`, metrics, partial reports and checkpoints
  are written after a transition and no transition reads them.

`runtime.py` also has create, cancel and resume of its own. They serve the
demo mode with one process and SQLite and are not modelled.

### `Outbox`

`ResearchRuns` takes from the outbox that a command may arrive late, twice or never.
`Outbox` is the table behind that: every statement of `OutboxService` that writes it
is an action.

| Variable | Code |
|---|---|
| `row` | `business_outbox`: run, type, payload (the attempt it names), attempts, status, lease owner |
| `row[m].due` | `next_attempt_at` (pending) or `lease_until` (processing) has passed; `Elapse` makes it true |
| `execution` | `runs.attempt_count`, which commands read and a claim raises (`Execute`) |
| `sending` | the row a dispatcher has claimed, and the answer it has received and not recorded |
| `handled`, `lastAbort` | history: what the agent has handled, the attempt the latest abort names |
| `incidents` | bounds stopped dispatchers and retried dead letters |

`Enqueue` is `enqueue` with its two conflict rules; `Claim` is `claimNext`; `Post` is
the request of `deliver`; `Record` is its update or one of the two updates of `fail`;
`ExpireExhausted` is the sweep at the start of `dispatch`; `RetryDead` is
`retryDeadLetter`. A dispatcher has one thread and does one row at a time. A lost
answer and a database error while recording an answer are the same to the table: the
agent may have handled the command and the row is retried or dead. The kinds of
commands are the constant `Types`; only an abort is treated differently, so the
instance has `resume` and `abort`, and `schedule` behaves as `resume`. `SKIP LOCKED`
may pass over the oldest row, so a dispatcher may claim any due row. `Execute` may
happen at any time, and a resume carries the attempt of the moment of its insert;
the resume that carries an older one is in `ResearchRuns`.

`Delivery` says what this amounts to for the service that committed a command, without
leases, retries and dispatchers. At most one command of a kind waits for a run; only an
abort gives way, and only to another abort of its run; what the agent is sent was a waiting
command at the moment it was claimed, also when another has replaced it by the time it is
handled; only what has been handled is marked delivered. `Outbox` sees it through
`Commands` (run, type and payload of a row), `States` (pending and processing are both
waiting) and `Underway` (the commands that dispatchers hold).

### `Documents`

One document of one workspace, and any number of processes (requests, workers,
recovery loops, of any replica) that work on it.

| Variable | Code |
|---|---|
| `doc` | the row of `documents`: status, `index_version`, hash, `object_key` and the four pending columns that matter |
| `job` | its row of `document_scan_jobs` |
| `tries` | `metadata`, key `index-attempt:<id>:<version>` |
| `chunks` | what the table `chunks` (and the lexical index written with it) holds of the document: version and content |
| `archive` | `document_versions` |
| `revision` | `workspace_corpus_revisions.revision`, advanced by `EvidenceLifecycle.changed` |
| `cleanup` | `document_cleanup`: the key noted for a version |
| `quarantine`, `uploads` | the two areas of the object store. A key is `<id>.v<version>`, so a number; 0 is the empty string |
| `vectors` | the vector store |
| `guard` | the lock `documents:<workspace>` |
| `pc`, `seen`, `given`, `row` | where a process is, the row a worker has read, the content a replacement brings, the tombstone a cleaner has read |
| `faults` | bounds stopped processes and failing calls |

| Function | Actions |
|---|---|
| `add`, `_add` | `Upload`, `Enrol`, `Store`, `StoreFails`, then the scan |
| `recover_scans` | `AdoptScan`, `RecoverScan`, then the scan |
| `_finish_scan` | `CountScan`, `ScanImpossible`, `GiveUp`, `Rejected`, `ScanUnavailable`, `Release`, `Accept` |
| `replace` | `Replace`, `Stage`, `StageFails`, `Vet`, `VetRejects`, `VetFails`, `Offer` |
| `_reindex` | `Reindex` |
| `delete` | `Delete` |
| `_ingest` | `TakeDocument`, `Attempt`, `AttemptsExhausted`, `Embed`, `SourceChanged`, `IndexFails`, `Outdated`, `BeginPublish`, `Upsert`, `UpsertFails`, `Publish`, `PublishNothing`; its failure handler is `RecordFailure`, `GiveBack`, `Restore` and takes no lock |
| `cleanup_pending` | `ReadTombstone`, `Keep`, `Sweep`, `SweepFails` |
| a crash or a cancelled request | `Stop`, at any step of any of them |

A content is a member of `Contents`; the scanner passes those in `Clean` (all of them,
when `document_scan_mode` is not `clamav`). Which parts of the code are coarser here:

* The tombstone and the row of an upload are two statements in one lock, and one step.
  A stop in between leaves a tombstone of the version in the row, which a sweep
  keeps, or of a version that is deleted anyway.
* A rejected content writes the document first and its job second. A stop in between
  leaves a pending job of a quarantined document, which nothing selects; one step.
  The other order, when a scan is given up, matters and is two steps
  (`ScanImpossible`, `GiveUp`).
* A statement that the database refuses is a process that stops: the handlers would
  need the same database.
* The cooldown between two scans is any delay. The queue may hand a document to any
  number of workers at any time; job ids, which keep some of them away, are not used
  by any condition.
* A cleaner reads one tombstone. The rows of one read do not depend on each other, so
  a cleaner with several is as many cleaners with one each.
* Vectors and chunks are counted per version, not per part. Reading, parsing and
  embedding of an original are one read of it, between two acquisitions of the lock.
* Other documents of the workspace, its capacity limits and duplicates among its
  documents are left out, as are rows from before object keys existed.

### `Publication`

The formal reports of one workspace. A report is named after the run it was made from,
a series after its first report, a change event after the corpus revision it created.

| Variable | Code |
|---|---|
| `run` | `runs` with the corpus revision and the cited documents of its artifact (`run_artifacts`); `submitted` is `runs.report_submitted` |
| `job` | `report_revision_jobs` of a run: the report it revises, the corpus it is meant for |
| `report` | `report_publications`: status, series, parent, number, evidence status |
| `head` | `report_series.current_report_id` |
| `revision`, `event`, `impact` | `workspace_corpus_revisions`, `document_change_events`, `report_impacts` |
| `at`, `todo` | the event that `process_events` is at, and the reports it has still to assess |

| Function | Actions |
|---|---|
| `ReportPublicationService.submit` | `Submit`, as `SubmitFirst` or `SubmitRevision` |
| `approve`, `reject`, `withdraw`, `delete` | `Approve`, `Reject`, `Withdraw`, `Delete` |
| `revise` | `Revise`, which creates the new run and its job |
| claim and publication of a run, as far as corpus and job matter | `Research`, `StartRun`, `CompleteRun` |
| `EvidenceLifecycle.changed` | `Change` |
| `process_events` | `TakeEvent`, `Assess` once for each report, `FinishEvent`; `AbandonEvent` when it raises or its process stops |
| `recheck` of `api/source_rechecks.py`, when a page has changed | `Recheck` |

A method of the Java service is one transaction under the row locks it takes, so it is
one action. The processing of an event commits report by report and is not. Left out:
the idempotency key of `revise` and the status of its job (a second request returns the
first run), reviewer names and role changes, runs that fail or resume (they keep their
corpus), content hashes, the plan of a selective revision and the diff of two versions
(they only read), the history of rechecks. Readers also show a report as
`check_pending` while an event is unprocessed; that is derived from these tables and
changes none.

### `PaidCalls`

`Providers.post` and what it calls, for one provider. A caller is a task that posts one
request and repeats it after some errors: a task of a run, or one of indexing.

| Variable | Code |
|---|---|
| `run` | `runs`: claimed by which attempt, `reserved_calls` and tokens used up |
| `caller` | where a task is in `post`, the attempt it works for, its repetition, the reply |
| `ledger` | `usage_periods`, one row for each scope and period |
| `paid` | `usage_attempts`, one row for each HTTP request |
| `health` | the provider's row in `provider_health`: blocked, open until, probe lease |
| `now` | the clock, which moves at any time |

| Code | Actions |
|---|---|
| the start of `post` and `provider_available` | `Start`, `CheckProvider` |
| `Execution.reserve` | `ReserveRun` |
| `UsageGovernance.reserve`, `settle` | `Charge`, `Settle` |
| the `finally` clause of `post`, its cancellation, a crash | `Finally`, `Interrupt`, `Crash` |
| the branches after a reply | `Conclude`, with `Retry` and `GiveUp` (`provider_failure`) |
| another worker's claim, the end of a run | `TakeOver`, `EndRun` |

`Interrupt` stands for whatever may raise between two statements: cancellation, a
deadline, a permission or data policy that no longer allows the call, a database error.
Left out: the rows of `call_attempts`, which only reports read, the number of failures (a
row always has at least one), the column `reserved_tokens` of a scope (the sum of `pending` and
`unknown`), the daily allowance of health probes, the views of `api/usage.py`.

### `ResearchGraph`

The graph of one run (`research/graph.py`) under `execute_run`: attempts hold the state
in memory and store it behind their back, and an attempt whose run another worker has
claimed goes on until a check stops it.

| Variable | Code |
|---|---|
| `run` | `runs`: data policy, images, attempt, status, retryable error, `validation.retrieval_failed` |
| `basis` | `run_artifacts.corpus_revision` |
| `corpus`, `edition` | the workspace's corpus revision, and the one at which the cited source took its form |
| `saved` | the checkpoint: when its thread began, supersteps, nodes left in the superstep, values |
| `counter`, `cache` | `counters.search_calls` and `search_cache` |
| `exec` | the attempts: state in memory, nodes that have begun, searches answered |
| `failures` | history: retrieval failures recorded for each start of the graph |

`Claim` and `Load` are the start of `execute_run`; `Begin` and the end of a node
(`Finish`) are the checks that `instrument` puts around it; `Vision`, `Router`, `Chat`,
`Planner`, `WebScout`, `LocalScout`, `Judge`, `Analyst`, `Reflect`, `Writer` and
`Validator` are the nodes; `Search` and `SearchRefused` are `Providers.search` for one
query; `Save` is a write through `FencedCheckpointer`; `Complete`, `Refused`, `NodeFails`
and `Crash` are the ends of an attempt; `Change` is a change of the workspace's documents.

The model keeps what decides the way through the graph and the outcome: modes, rounds,
queries, kinds of evidence, which outcome a search had. What a model answers is a choice.
Left out: texts, contracts between nodes, the second provider of `auto`, deadlines and
LangGraph's own interfaces for what a checkpoint holds. Public runs have the web only and
internal ones the local documents only, as the data policy has it.

Two things the module shows and no statement of the repository contradicts:

* A run resumed after a retrieval failure stores its new result in a new thread. When the
  process stops between that and the update of the run, `validation.retrieval_failed`
  still describes the earlier failure, and the next resume discards the good result and
  searches again (`runtime.py:554-564`).
* The corpus revision of the first attempt is kept when the graph is started anew
  (`basis`), so that an internal run resumed after a change of documents ends in
  `source_changed` however fresh its evidence is.

### `Verification`

The validator node of that graph, over several executions of the node.

| Variable | Code |
|---|---|
| `stored`, `draft` | the draft in the checkpoint, and the node's copy, which repair changes |
| `left`, `approved`, `pass` | claims not yet verified in this pass, claims supported, first pass or the one after repair |
| `asked`, `pending`, `completed`, `try` | the batch, what is still asked of it, verdicts received, the request or its repetition |
| `saved` | `verified_claims`: the verdicts of whole batches, by content |
| `starts`, `pc` | executions so far and where the present one is |
| `vouched`, `refused` | history: texts that a whole verdict has supported or refused |

`Start` and `Stop` begin and end an execution, `Reuse` takes a batch from
`verified_claims`, `Ask` posts one, `Respond` is an answer in which the model may leave
claims out, repeat them or add others, `Malformed` is one that is no JSON, `Repair` is the
one repair of refused claims, `Report` the end. The size of a batch in bytes is left out
(any batch up to `MaxBatch`), the rules of `validate_claim` are the set `Admissible`, and
a text stands for a claim with its sources.

### `RunData`

What a workspace keeps outside its rows, and how it is deleted.

| Variable | Code |
|---|---|
| `run`, `threads` | `runs` and `threads`, as far as deletion cares |
| `intents` | `run_cleanup` |
| `checkpoints` | the checkpoint store: runs with something in it |
| `lock` | the advisory lock `execution:<run>` |
| `row`, `bound` | `attachments.status` and `run_id` |
| `upload`, `objects` | how far `Attachments.add` is with an image, and the two areas of the object store |
| `deleter`, `cleaner`, `sweeper` | a deletion under way, the loops of `RunCleanup.reconcile`, those of `Attachments.cleanup` |
| `faults` | bounds failing deletes and processes that stop |

| Function | Actions |
|---|---|
| `Attachments.add` | `UploadStart`, `UploadStore`, `UploadReady`, `UploadFails` |
| `Attachments.remove`, the marking in `cleanup` | `Unbind` |
| `Attachments.cleanup` | `SweepRead`, `SweepImage`, `SweepFails` |
| `ResearchCommandService.create` with its images | `Create` |
| claim, every end of an attempt or cancel, resume and recovery | `Claim`, `Settle`, `Resume` |
| `FencedCheckpointer` | `WriteBegin`, `WriteEnd` |
| `delete_thread` | `DeleteThreadBegin`, `DeleteThreadCommit` |
| `purge_user`, scope `reports` | `PurgeBegin`, `PurgeList`, `PurgeCommit` |
| a deletion that is rolled back | `DeleterStops` |
| `RunCleanup.reconcile` | `CleanupRead`, `CleanupTake`, `CleanupSkip`, `CleanupCheckpoint`, `CleanupImage`, `CleanupDone`, `CleanupFails` |

Where the model is coarser: a deletion takes the locks of its runs at its commit, not one
after the other; the child tables it empties in the same transaction are left out, as are
the refusals before it begins (a publication, a revision, the roles), the attempts and
the error code of an intent, purges of other scopes, and the deletion of one thread of
checkpoints when a run is restarted (`ResearchGraph`). The batch of a loop is any set of
intents: the order by `created_at` matters only when some intents fail for ever, which
then keep their places in each batch. An image is old enough for the sweep at any time
after its upload is over.

`CreateDuringPurge` says whether a run can be created between the list of a purge and its
commit. The code allows it: `purge_race` shows what follows. `run_data` and the theorems
are about the rest, with the constant `FALSE`.

The lock that the deletion takes and the one that `reconcile` takes are each enough for
`DeletedRunsTracked`: a write that has begun delays the one or the other.

## 3. What the runs check

The configuration defaults are larger than any instance (`core/config.py`: 2 recoveries, 2
runs per workspace, 5 per platform, 20 queued). The bounds below are the smallest with
which each limit bites and each race can happen.

| Run | Instance | Properties |
|---|---|---|
| `fencing` | 1 run, 2 slots, 1 recovery, 1 resume, 1 fault | `OneExecutorPerAttempt`, `AbortSparesLiveAttempt`, `FinishedIsFinal`, `OnlyOwnerPublishes`, `DisabledAccountPublishesNothing`, `CancelledStaysCancelled` |
| `admission` | 3 runs, two of one thread, 2 slots, 1 recovery loop, 1 recovery, room for 1 waiting and 1 running, 1 resume of one run, no fault | `AdmissionBounded`, `RecoveriesBounded`, `RunningWithinLimits`, `LedgerSpec` |
| `contention` | 2 runs of two threads, 1 slot, room for 1 running, 1 recovery, 1 fault, with fairness | `EveryRunSettles` |
| `outbox` | 1 run, 2 dispatchers, 2 rows, 2 attempts per row, 1 execution, 1 incident, with fairness | `TypeOK`, `DeliveredWasHandled`, `AbortNeverForgotten`, `EveryCommandSettles`, `DeliverySpec` |
| `documents` | 2 processes, 2 clean contents and a bad one, 2 attempts, 3 versions, 2 faults | `UseReadable`, `PendingReadable`, `OriginalsKept`, `ScannedBeforeUse`, `OnlyLiveSearchable`, `RevisionFences`, `DeleteWins` |
| `publication` | 3 runs of which 1 is from before series, 2 users of whom 1 is an administrator, 1 document, 2 revisions of the corpus | `SeriesLinear`, `ProcessedEventsAssessed`, `HeadMovesForward`, `EvidenceNeverClears` |
| `paid_calls` | 2 tasks of one run, one of indexing, 2 scopes, 1 repeated request, 2 attempts, 2 periods | `LedgerExact`, `ScopesWithinBudget`, `RunsWithinBudget`, `CooldownRespected` |
| `research_graph` | 2 attempts, 2 queries, 1 search, 1 further round, 1 change of the documents | `FailuresAreFresh`, `StepsBounded`, `CheckpointsForward` |
| `verification` | 3 claims in batches of 2, 3 texts of which 2 are admissible, 2 executions | `ReportVerified`, `DroppedOnlyIfRefused`, `ApprovedKept` |
| `run_data` | 2 runs and an image of one conversation, 2 recovery loops, 1 sweep, 2 faults, with fairness | `DeletedRunsTracked`, `ObjectsReachable`, `DeletedDataGoes` |

**`fencing`.** One run is enough: the properties relate attempts of one run, and runs
interact only through counts and the thread index. Two slots and one fault give a stale
worker beside a live one. `MaxResumes` and `MaxFaults` bound user resumes per run and faults
in total (crash, lost job, restarted loop, exhausted command, dropped or raising claim);
attempts are bounded through them and `MaxRecoveries`.

**`admission`.** Two runs and two slots are what two competing claims need, three runs what
it takes to exceed a sum of two; two of them share a thread, so that one may find the index
`one_active_thread` in its way. Only `r2` is resumed: its transaction may be open while the
other run of the thread is interrupted, which makes the index raise in the recovery loop. The
state constraint `OneResume` keeps out what `fencing` covers without constraint: accounts that
change, deadlines, piled-up commands, aborts, more than two jobs (one beside a resume), a
delivery in the middle of a recovery pass. All properties under it are
safety properties. One workspace has the platform's limit here; that each limit holds where
they differ, with any number of resumes, faults and loops, is the subject of the theorems
`LimitsHold`, `AdmissionHolds`, `RecoveriesLimited` and `LedgerImplemented`.

**`contention`.** `EveryRunSettles` under the constraint `QuietAccounts`: no deadline
passes, no account is disabled, one command and one mark at a time. No fair action leads out
of the constraint, so it removes no step that fairness would have forced. It is not claimed
of two runs of one thread, see "Known and not run".

**`outbox`.** Two dispatchers for a late result beside a new lease, two rows for a resume
beside an abort or a dead abort beside a new one, two attempts for the difference between a
retry and the last failure, and two payloads (attempt 0 and 1) for an abort that replaces
another. Rows of different runs meet only in the order of claims, which is free.
`DeliverySpec` needs the same instance: a second command while the first is being sent,
a dead one revived beside a waiting one, and a late result that meets a settled row.

**`documents`.** Two processes: a worker, cleaner or failure handler that acts on what it
read earlier, and the one that has changed it since. Three versions are an upload, its
replacement and what follows it (a deletion, a second replacement, an upload again); two
clean contents tell a version from its replacement. Two faults allow a failure and a stop
during what repairs it.

**`publication`.** Two revisions of a published report can be made, submitted and reviewed
beside each other, with a change of the corpus before, between or after them, its event
processed late, twice or in part. The constraint `Short` bounds runs and changes together to
four; all four properties are safety properties.

**`paid_calls`.** Two tasks of one run compete for a budget of two calls, two subjects for a
platform budget of three; a request can be settled in the period after the one it was
charged to, repeated, cancelled, or left unsettled by a crash. `TwoAtATime`: any two of the
three callers are under way at the same time.

**`research_graph`.** A second attempt beside a first that was thought dead, over what the
first has stored; a failed retrieval and its resume; a search limit reached in between; a
document that changes while it is cited. The constraint `Instance` lets storing lag by at
most one superstep, lets an attempt that lost the run notice before its successor gets ahead
of it, and gives images to public runs only. There is no liveness here: `StepsBounded`
bounds what an attempt can do.

**`verification`.** Three claims in batches of two are a full batch and a rest; three texts
allow a repair to bring a text that is refused, one that was approved in another place, and
one that is not admissible; two executions let one use the verdicts another has stored.

**`run_data`.** Two runs so that one can be active while another of the same conversation is
deleted, two loops that clean the same run, a sweep beside them, and a fault while the first
is repaired. `CreateDuringPurge` is `FALSE`. An instance with two images and one fault
(3.3 million states), too large to keep, showed nothing else.

Symmetry is used for slots, processes, clean contents, runs that are alike, queries and
admissible texts, and never with liveness. `CHECK_DEADLOCK FALSE` stands where the system may
stop because the bounds are used up: everything is settled, deleted or reported. In the
runs of `ResearchRuns` an account can always be disabled or enabled, so deadlock is checked
there.

**Fairness.** In `ResearchRuns`, weak fairness of the commit of an open transaction, of every
slot taking a job, deciding a claim and ending an execution (ARQ polls; `execute_run` is
under a time limit and a heartbeat), of every recovery loop reading the table and processing
its rows (`recover_stale_runs_loop` sleeps and repeats), and of interrupting a run no worker
executes (its heartbeat stops). Nothing is assumed of users, of the outbox or of faults: a
run settles even when every command is lost, because the loop reads the table.

In `Outbox`, weak fairness of a dispatcher's sweep, claim, request and record (a scheduled
method with a fixed delay, a request with a time limit of 10 s) and of `Elapse` (time
passes). Nothing is assumed of the agent's answers, of commands or of administrators. A
dispatcher that stops is replaced by an instance that starts.

In `RunData`, weak fairness of the end of a checkpoint write and of the passes of recovery
loops and sweeps, which sleep and repeat. Deletes fail and processes stop at most `MaxFaults`
times: a store that fails for ever keeps its data, and no more can be promised.

**Runs that expect a violation.** Two statements of a docstring or the documentation that
the code does not keep; each has a finding in `PROJECT.json`.

| Run | What TLC shows |
|---|---|
| `stale_resume` | resume updates a run whose status changed since it was read: an operator's cancel is overwritten, or an executing run goes back to the queue |
| `purge_race` | a purge lists the runs under a lock that `create` does not take, then deletes by workspace and author: a run created in between is deleted without an intent, and its checkpoint stays |

`LedgerSpec` says what remains true in spite of the first: `Reopen` of `RunLedger` lets a
resume put any run that is not finished back in the queue.

### Known and not run

Met while modelling, and not kept as runs of their own. The modules contain the steps, so the
properties above hold in spite of them.

* `ClaimRaises` (`ResearchRuns`): when `claim_run` raises, `fail` is called without an
  attempt (`runtime.py:690`), so a duplicate job fails the run that another worker executes.
  `docs/interview-evidence.md:18` says that terminal updates carry the attempt.
* `AbortScan` (`ResearchRuns`): the index `one_active_thread` does not cover interrupted runs.
  Requeueing one beside an active run of its thread raises inside the loop of
  `recover_queued_runs` (`runtime.py:838`), which skips the remaining rows and the rest of the
  cycle, as long as the other run is active.
* `EnqueueRow` (`ResearchRuns`) from a row that is no longer waiting enqueues a resuming job
  of the next attempt (`runtime.py:842`); when that run is interrupted, the job claims it and
  the recovery is not counted. `docs/internal-pilot-reliability.md:11` speaks of at most
  `MAX_JOB_RETRIES` automatic recoveries; `RecoveriesBounded` is about those counted.
* A resume whose insert meets a pending resume with an older attempt is dropped by `DO
  NOTHING` (`OutboxService.java:62`), and the older one is refused as stale. The recovery loop
  makes up for it.
* `ScanImpossible` and `GiveUp` (`Documents`): giving a scan up takes two updates, the job
  first (`documents.py:173`). After a stop in between the document stays `scanning`, with no
  pending job, and a new upload of the file finds the existing row.
* `Documents`: after a failed reindexing, the tombstone of the next version names the old key,
  and `INSERT OR IGNORE` in `replace` (`documents.py:248`) keeps it, so that a staged object
  whose replacement is interrupted is owned by no tombstone. The attempts counted for a
  version that was withdrawn count against the next replacement, which gets the same number.
* `GiveUp` (`PaidCalls`): `provider_failure` writes `blocked=EXCLUDED.blocked`
  (`providers.py:138`), so a transient failure of a request that began earlier writes over the
  block that a refused key has set. `docs/internal-pilot-reliability.md:9` calls it persistent.
* Beside `RunData`: `retention.reconcile` reads rows first and writes its archives later, so
  that an archive of a run deleted in between stays (`retention.py:41-53`); an event of
  `db.event` written after a publication may outlive its run; the last statement of
  `Attachments.add` has no condition on the status, so that a purge of scope `all` during an
  upload may leave an image that is `ready` again, or an object without a row.
* Two administrators who demote each other at the same time are kept apart by the governance
  lock of `PlatformAdminController`, which is not modelled.

## 4. What is proved

All theorems hold for every value of the constants that satisfies the module's assumption.
The counters that bound the model for TLC are arbitrary there.

`ResearchRunsProofs`, under `ConstantsAssumption`:

| Theorem | States | Argument |
|---|---|---|
| `TypeCorrect` | `TypeOK` | one step per action |
| `FinishedStays` | `FinishedIsFinal` | `FinalInvariant`: the run of an open resume exists and is never finished. Publication needs the workspace lock that the resume holds, and nothing else finishes a run |
| `PublicationFenced` | `OnlyOwnerPublishes`, `DisabledAccountPublishesNothing` | only `CompleteRun` moves a run to a finished status |
| `CancelledStays` | `CancelledStaysCancelled` | `StatusMoves`: which actions change a status and from what |
| `OneExecutor` | `OneExecutorPerAttempt` | attempts grow only at `AdmitClaim`, which hands the new number to one slot (`SlotSteps`) |
| `LimitsHold` | `RunningWithinLimits` | `LimitInv`: at most one slot is claiming (`OneClaim`), and while it is, there is room for its run (`ClaimHasRoom`). Other steps only shrink the set of running runs (`RunningShrinks`), so the room is still there at the update (`AdmitKeepsLimits`) |
| `AdmissionHolds` | `AdmissionBounded` | `AdmissionInv` adds that an open resume has room for its run (`ResumeHasRoom`): creation and resume exclude each other, and every other step keeps or shrinks the active runs (`ActiveSteps`) |
| `RecoveriesLimited` | `RecoveriesBounded` | `RecoveriesCounted`: only `RequeueRow` raises the count, by one, from the value its row was read with, which is below the limit |
| `AbortsSpare` | `AbortSparesLiveAttempt` | inductive with the types: a mark is left only for the attempt of a run that is cancelled (`MarkSteps`), and whatever executes later has a new number (`AttemptSteps`) |
| `LedgerImplemented` | `LedgerSpec` | every step maps to a move of the ledger or a stutter (`SingleMoves`, `Stops`, `Stutters`). A worker's `Execute` needs `ClaimHasRoom`, a resume's `Reopen` needs `ResumeHasRoom` and `FinalInvariant`: the three inductive invariants together are `StepInv` |

`RunningWithinLimits` and `AdmissionBounded` are not inductive alone, since both rest on
counts read before the update. The conjuncts named above record that the count is still valid
when it is used.

`OutboxProofs`, under `OutboxAssumption`:

| Theorem | States | Argument |
|---|---|---|
| `TypeCorrect` | `TypeOK` and `SendInv` | `SendInv`: what a dispatcher holds with the answer `handled` is in `handled`, and the row it names exists. It is kept because a stored row never vanishes and never changes its run or type (`RowsStay`) |
| `DeliveredOnlyHandled` | `DeliveredWasHandled` | `RowSteps`: a step keeps the command of a row, or replaces an abort by a fresh pending row. A row becomes delivered only in the first way, by `Record`, whose predicate on the payload carries `SendInv` over to the row |
| `AbortKept` | `AbortNeverForgotten` | the same case split on the row that waits; when it is superseded, it holds the latest abort instead |
| `SettledIsFinal` | `SettledStays`: only an administrator's retry changes a settled row in any column. The run checks what `DeliverySpec` says of it, its status and its command | one step per statement that writes the table |
| `DeliveryImplemented` | `DeliverySpec`, so `Outbox` implements `Delivery` | `Enqueue` is `Accept`, `Supersede` or a stutter, a claim is `Send`, the request is `Handle`, recording its answer is `Settle`, `GiveUp` or a stutter, the sweep is `GiveUp` and an administrator's retry is `Retry`. `RewrittenRows`: an update of lease, attempts or status leaves the commands and what other dispatchers hold alone. `UnderwayKept`, `UnderwayShrinks`: a command stays underway although its row is replaced, since the dispatcher holds the payload it has read. `SendInv` and `TypeOK` give what `Settle` requires |

`DocumentsProofs`, under `DocumentsAssumption`:

| Theorem | States | Argument |
|---|---|---|
| `TypeCorrect` | `TypeOK` | from `Guards`: versions and attempts stay in range because of what the holder of the lock knows |
| `Guards` | `DocumentInv` | `TypeOK` with `GuardInv` (whoever is inside a critical section holds the lock) and `WhereInv` (what it knows of the row). The handlers that take no lock change a row only while it is `indexing` or `rebuilding`, which no critical section relies on (`MovedKeeps`) |
| `ScannedOnly` | `ScannedBeforeUse` | `ScannedStep`: a step removes an original from `uploads` or puts one there that has passed |
| `SearchableOnly` | `OnlyLiveSearchable` | `StepServes`, one step per action; a row stops being searchable only by `Delete`, which removes the chunks |
| `RevisionMoves` | `RevisionFences` | the same lemma: a deletion that does not advance the revision finds no chunks, because of `SearchableOnly` |
| `DeletedStays` | `DeleteWins` | the same lemma: every other writer compares the status or holds the lock |
| `ReadsHold` | `ReadInv` | the strengthening behind the next three. `RowInv`: what a scan or a replacement is about to store is the original of no published version. `Reads`, for each process: the row it has seen is the present one or of an earlier version (`Follows`), and what it found in the stores is there as long as it is the present one (`Prepared`). `OthersRead` and `AdvanceFollows`: a step by the holder of the lock, or one that advances the row, leaves this true for the others |
| `UseStaysReadable`, `PendingStaysReadable`, `OriginalsStay` | `UseReadable`, `PendingReadable`, `OriginalsKept` | conjuncts of `ReadInv`: a clean-up or an overwrite that broke one would need a key that `RowInv` keeps apart |

`PublicationProofs`, under `PublicationAssumption`:

| Theorem | States | Argument |
|---|---|---|
| `TypeCorrect` | `TypeOK` | one step per action |
| `SeriesStayLinear` | `SeriesLinear` | the property is not inductive. `ReportInv`, `SeriesInv`, `JobInv` and `RunInv` record what reports, series and jobs remember of each other: the parent of a report is approved and of its series, a series is named by a report submitted once, and the source of a job is never deleted |
| `HeadsMoveForward` | `HeadMovesForward` | only `Approve`, `Withdraw` and `Revise` write a head; what each finds there follows from the same invariant |
| `ProcessedAssessed` | `ProcessedEventsAssessed` | `EventInv`: while an event is processed, every report of an older corpus that is not in `todo` has its impact; a report submitted meanwhile is of the present corpus |
| `EvidenceStaysWorse` | `EvidenceNeverClears` | the order of the statuses: `Worse` never lowers its first argument |

`PaidCallsProofs`, under `PaidCallsAssumption`:

| Theorem | States | Argument |
|---|---|---|
| `TypeCorrect` | `TypeOK` | `PaidCallsInv` adds that no caller has begun in the future and that a request under way has a row |
| `CooldownIsRespected` | `CooldownRespected` | from the same invariant: a start after the cooldown is a cooldown that is over |
| `LedgerIsExact` | `LedgerExact` | `LedgerInv`. Only a charge and one settlement write the ledger (`LedgerSteps`). A charge adds a row to a request that has none (`RequestsFresh`, `ChargeAdds`), a settlement changes a row that is held (`SettleChanges`), each in all scopes of the request (`ChargeExact`, `SettleExact`) |
| `ScopesStayWithinBudget` | `ScopesWithinBudget` | `Within`: what the requests may cost at most is covered by what the ledger shows (`RiskBound`), which a charge compares with the limits. A settlement never raises it |
| `RunsStayWithinBudget` | `RunsWithinBudget` | `Budgeted`: the counters of the run cover the requests sent and those about to be charged (`Reserving`). Only `ReserveRun` adds to them (`BudgetReserve`, `BudgetGrows`), every other step keeps or shrinks them (`BudgetKept`, `BudgetOfOne`) |

The three are about sums over sets of any size. `Total` writes such a sum as the number of the
tokens in it, `Tokens(S, amount)`, so that the facts needed (`TotalGrows`, `TotalChanges`,
`FewerTokens`) follow from those about cardinalities, without induction. That `Total` is the
usual sum is `TotalIsSum` in `MCPaidCalls`, which TLC evaluates over small sets.

`ResearchGraphProofs`, under `GraphAssumption`:

| Theorem | States | Argument |
|---|---|---|
| `GraphSafe` | `GraphInv` | every reachable state is well typed, and its parts: `PlaceInv` (an attempt has a checkpoint in memory exactly while it executes the graph, and of nodes that are left), `SavedInv` (the saved checkpoint is bounded and behind that of the owner, `Ahead`), `FreshInv` (nobody who has the run works on a start whose failure is recorded) |
| `RecursionStaysBounded` | `StepsBounded` | `Bounded`: a checkpoint has taken at most the steps that lead to its next node in the first round (`Depth`), and four for each further round |
| `ResumedRunsSearchAnew` | `FailuresAreFresh` | from `FreshInv`: a recorded failure makes the next attempt start anew, under its own number |
| `SavedMovesForward` | `CheckpointsForward` | from `SavedInv`: only the owner of the run stores a checkpoint, and its own is ahead |


`VerificationProofs`, under `VerificationAssumption`:

| Theorem | States | Argument |
|---|---|---|
| `TypeCorrect` | `TypeOK` | one step per action |
| `ReportsAreVerified` | `ReportVerified` | `VerificationInv` with `SavedSound`: what is approved, completed or stored as supported has a whole verdict on the text it has now; a stored verdict carries its texts, so a repair cannot use one of another text |
| `NothingDroppedUnjudged` | `DroppedOnlyIfRefused` | the same invariant: whatever has left the batches without approval was refused or is not admissible |
| `ApprovedStay` | `ApprovedKept` | `Repair` is the only step that changes the draft, and leaves approved claims out |

`RunDataProofs`, under `DataAssumption` and `CreateDuringPurge = FALSE`:

| Theorem | States | Argument |
|---|---|---|
| `DeletionsAreTracked` | `DeletedRunsTracked` | `DataInv`: whoever writes holds the lock of a run that exists, whoever cleans that of a run with an intent (`LockInv`), an intent means that its run is gone and its images are marked (`RunInv`), a deletion knows every run it will delete (`DeleterInv`), a loop has the images of its run on its list (`CleanerInv`), and an object is erased before its row (`EraserInv`, lemmas `Erases`, `ErasingKeeps`) |
| `ObjectsAreReachable` | `ObjectsReachable` | the same invariant with `UploadInv`: an upload that is under way keeps its row, and nothing erases an image that is not marked deleted |

Every safety invariant and action property of the runs is stated by a theorem. Only
model-checked are the liveness properties `EveryRunSettles`, `EveryCommandSettles` and
`DeletedDataGoes`, which hold under fairness and are out of the prover's reach, and `TotalIsSum`,
since that a count of tokens is a sum for every set needs induction over data. The two runs
that expect a violation have nothing to prove.

## 5. Not modelled, and what is left

* Embedding migration: a tool that an operator runs step by step, each step under one guard.
  Its barrier is visible in `ResearchRuns` as a claim that lets its job go.
* The agent's HTTP client, health, metrics, alerts, the rate limiter: I/O, or state that no
  transition reads.
* Workspaces, members, collections, memory, intake: transactions under one row lock each.
* Retention archives, the child tables a deletion empties, purges of other scopes.
* Ranking, parsing, prompts and the quality of content; frontend, deployment, scripts,
  evaluation.

Left to do, in this order: that indexing ends and tombstones are worked off, under fair
workers and loops; an identity of a replacement, to say what a late failure handler of
`Documents` may undo; the `outbox` of `ResearchRuns` as an instance of `Delivery`.
