# Grounded Ops Copilot: TLA+ models and proofs

Grounded Ops Copilot ingests operational documents, keeps them in PostgreSQL, an
object store and a search index, answers questions from them with citations, and
runs longer investigations in the background. These modules model the parts of it
where several processes share state (the ingestion of documents, investigations,
searches and streamed answers, the rebuild of the index) and the algorithms those
parts rest on (chunking, rank fusion, quota windows, grounding of answers). TLC
checks each model on small instances; TLAPS proves their main invariants, and two
refinements, for every value of their constants.

All paths below are relative to the repository root.

## 1. Inventory

For each component: the state it keeps, its operations, whom it talks to, what is
hard about it, and what makes it correct.

**Ingestion worker** (`src/grounded_ops/worker.py`, `src/adapters/queue/celery_queue.py`).
State: Celery messages, the advisory lock of each job, the control point of each
worker. Operations: `submit_event` (artifact, transaction, publish,
`mark_dispatched`), `recover_pending` (the beat's scan), `process_ingestion` and
`run_job`. It calls the repository, the pipeline, the object store, the index.
Hard: late acknowledgement and duplicates, lost messages, crashes at any point,
time limits, two transactions under one session lock, sessions that drop. Correct
when a job is run by one worker at a time, ends within its budget, never changes
once it has ended, and always ends.

**Ingestion pipeline** (`src/modules/ingestion/pipeline.py`, `src/domain/ingestion.py`).
State: the job value inside a transaction. Operations: `run`, `resume`, the stages
fetching, parsing, indexing, and `_failed_attempt`. Hard: the transaction rolls
back, the object store and the index do not. Correct when a retry finds what its
stage starts from and a completed job is published.

**Ingestion repository** (`src/adapters/postgres/ingestion_repository.py`). State:
`sources`, `documents`, `document_versions`, `ingestion_jobs`. Operations:
`submit`, `claim_delivery`, `fail_lost_delivery`, `record_worker_error`,
`mark_dispatched`, `claim_recovery_batch`, `save_job`, `update_artifacts`,
`promote`, `delete`. Hard: idempotent inserts, row locks, two counters against one
maximum, jobs of several versions finishing in any order. Correct when the current
version only advances and is always one whose job completed.

**Search index writer** (`src/adapters/opensearch/index_writer.py`). State: chunks and
their `is_current` flag. `upsert` makes three requests, each of which can fail in
part. Correct when readers see one version of a document, and that of PostgreSQL.

**Policy enforcement** (`src/modules/policy/enforcement.py`). Decides on rows read
at the time: whether a projection may be written, whether evidence may be read.
Correct when nothing of a deleted document is written.

**Investigations** (`src/modules/investigation/workflow.py`, `tools.py`,
`src/interfaces/http/investigations.py`, `src/adapters/postgres/investigation_store.py`).
State: one revision-guarded record per investigation. Operations: submit, cancel,
status, report over HTTP; `run` and `advance` in a worker. Hard: duplicate
deliveries, cancellation racing a node, five budgets, crashes in the middle of a
node. Correct when the record behaves as if one executor worked on it, ends once
and within its budget.

**Investigation tools** (`src/modules/investigation/tools.py`). No state of their own;
retrieval, comparison of versions and search of incidents, each in a thread with a
deadline. Hard: the thread goes on after the deadline, authorization and read are
separate steps. Correct when what is returned could be read during the call.

**Circuit breaker** (`src/modules/resilience/policies.py`). State: closed, open,
half open, failures, time of opening, shared by threads. Hard: results of calls
that began in an earlier state, calls that end without a result. Correct when an
open circuit admits nothing before its timeout and one probe after it.

**Quotas** (`src/modules/policy/quotas.py`, `src/adapters/postgres/quota_backend.py`).
State: request and active counts per scope and window. Operations: reserve,
release. Hard: windows that roll over under open leases, leases of dead processes,
a clock read before the lock. Correct when counts are those of the admitted calls
and a lease is given back once.

**Authorization** (`src/modules/policy/authorizer.py`, `enforcement.py`). Decisions on the
rows of the moment; searches ask twice, answers once more, tools in their threads.
Hard: every decision can be stale when its result is used.

**Answer stream** (`src/interfaces/http/ask.py`, `src/modules/answering/`). State: the
session of one streamed answer, its quota lease. Operations: admission, retrieval,
packing, attempts at generation, deltas, verification, abstention, fallback. Hard:
disconnects, errors after the first event, policies that change while the model
writes. Correct when the answer is verified before it is final, the text before it
comes from the evidence, and the lease is released however the stream ends.

**Retrieval and ranking** (`src/modules/retrieval/`, `src/adapters/opensearch/search.py`,
`dense.py`, `src/modules/embeddings/embedder.py`). No state but the embedder's breaker. Hard:
two legs, each of which can be lost, merged by rank. Correct when the fusion keeps
the order the legs agree on and returns what may be read.

**Policy cache** (`src/modules/cache/cache_policy.py`). State: cached retrievals, answers
and embeddings keyed by versions. Hard: a change during a load, an outage that is
kept. Correct when a hit is as good as a search by the versions of its key.

**Parser and chunker** (`src/modules/parsing/parser.py`, `src/modules/chunking/structural.py`).
Pure. Correct when chunks tile the document within the limit, with their provenance.

**Index schema, rebuild, replay** (`src/adapters/opensearch/index_schema.py`,
`src/modules/indexing/`). State: indexes and the read and write aliases. Hard: check,
then switch; a lost answer; rollback; ingestion beside a rebuild. Correct when
readers always have a complete, validated index.

**Recovery exercise** (`ops/recovery/exercise.py`). State: a dump, checksums, copies of
the artifacts, a restored database and index. Hard: a source that is still written
to, failure of any step. Correct when a report of success is true.

**Query routing, audit, feedback, telemetry, HTTP composition, evaluation.** No state
that two processes share, or append-only records; see `PROJECT.json` for each.

### Interactions

    HTTP submit / scan --> repository (PostgreSQL) --> broker --> worker --> pipeline
                              ^         ^                           |          |-> object store
                              |         +---- recovery scan (beat) -+          |-> index writer --> aliases
                              +------------ promote / save_job <---------------+
    HTTP investigations --> store (revision) <--> workers --> tools --> retrieval --> index
    HTTP ask --> quotas --> retrieval --> packing --> generator (circuit breaker) --> verifier
    HTTP search --> quotas --> lexical + dense (embedder, circuit breaker) --> fusion --> reranker
    cache policy --> retrieval or answer, keyed by principal and published versions
    operator / recovery exercise --> candidate index --> replay (PostgreSQL, artifacts) --> aliases

## 2. Modules

| Module | Models | EXTENDS / INSTANCEs |
| --- | --- | --- |
| `JobLifecycle` | what a submitted job is promised: bounded tries, one failure per try, one outcome | |
| `IngestionWorker` | submitters, broker, recovery scan, workers, sessions, pipeline stages | refines `JobLifecycle` |
| `IngestionWorkerProofs` | its theorems, the refinement | `IngestionWorker` |
| `DocumentVersions` | versions of one document in PostgreSQL and in the index | |
| `DocumentVersionsProofs` | its theorems | `DocumentVersions` |
| `InvestigationRecord` | an investigation as its owner sees it | |
| `InvestigationWorkflow` | store, clients and workers of one investigation | refines `InvestigationRecord` |
| `InvestigationWorkflowProofs` | its theorems, the refinement | `InvestigationWorkflow` |
| `CircuitBreaker` | the breaker's record and its operations | |
| `Authorization` | decisions on a document, a scope, a batch of references | |
| `Grounding` | packing, the guard on text, drafts, citations, abstention | `Orderings` |
| `AskStream` | the streaming Ask endpoint | `CircuitBreaker`, `Grounding`, `Authorization`, `Quota` |
| `AskStreamProofs` | its theorems | `AskStream`, `OrderingsProofs` |
| `Orderings` | sorting and selecting, without recursion | |
| `OrderingsProofs` | what they return | `Orderings` |
| `Quota` | the arithmetic of both quota backends | |
| `Ranking` | queries, fusion, reranking | `Orderings`, `Authorization` |
| `CachePolicy` | keys and eligibility of cached results | |
| `EvidenceSearch` | searches and cached answers of several threads | `Quota`, `Ranking`, `CachePolicy`, `CircuitBreaker` |
| `InvestigationTools` | the tools beside those searches | `EvidenceSearch` |
| `InvestigationToolsProofs` | theorems about quotas | `InvestigationTools` |
| `EvidenceSearchProofs` | theorems about results, cache, fusion and tools | `InvestigationToolsProofs`, `OrderingsProofs` |
| `Chunking` | parser and chunker | `Orderings` |
| `IndexRebuild` | rebuilds of the index beside ingestion | `Chunking` |
| `RecoveryExercise` | the callers of a rebuild | `IndexRebuild` |
| `RecoveryExerciseProofs` | its theorems, and those of rebuilds and of the chunker | `RecoveryExercise`, `OrderingsProofs` |
| `MCWorker`, `MCVersions`, `MCInvestigation`, `MCAsk`, `MCSearch`, `MCRecovery` | the instances for TLC | |

`PROJECT.json` maps every definition to the lines it translates. Definitions whose
comment begins with "Fault:" model no code: each is a mistake that could be made in
the definition after it, and is there to show that a property would notice.

### IngestionWorker

| State | Code |
| --- | --- |
| `row` | the committed row of `ingestion_jobs`; `dispatched` is `dispatched_at`: NULL, under a minute old, or older |
| `raw`, `normalized`, `indexed` | raw artifact stored; `normalized_ref` committed; chunks in the index |
| `queue` | jobs with a message in the broker, which may deliver it more than once |
| `submitting`, `recovering` | how far `submit_event` is; what `recover_pending` has claimed and not published |
| `lock`, `cut` | owner of `pg_try_advisory_lock`; workers whose session died under them |
| `pc`, `cur`, `tx` | a worker's position in `run_job`, its job, and the job value of its open transaction |

`submit_event` is `StoreRaw`, `CommitSubmission`, `PublishSubmission`,
`MarkDispatched`, or `AbortSubmission` between any two. The recovery scan is
`ClaimRecovery` (all due rows in one statement), `PublishRecovered` per job, or
`AbandonRecovery`. `run_job` is `Receive`, `Acquire` or `Busy`, `Claim` (its first
transaction), then the second one from `Load` to `Commit` with `BeginRun`,
`Fetch`, `Parse`, `Upsert`, `UpsertDone`, `StageFails`, `UpsertFails`, `SaveRun`,
then `Unlock` and, for a retry, `Requeue`; `RunRaises` and `RecordError` are its
`except` clause. `Crash`, `LoseSession`, `LoseCommit` and `LoseMessages` are what
the environment does.

Choices of the model:
- The broker is a set: a job has a message or none. A receipt may leave it there,
  so duplicates occur any number of times.
- A crash keeps the message or loses it: Celery acknowledges late and redelivers,
  but a task that hits the hard time limit is acknowledged.
- After a session is lost, SQLAlchemy's connection reconnects: the error is
  recorded, in a new session, without the advisory lock. That is modelled.
- The batch limit of the recovery scan (100) is not modelled; one job per document
  version, and jobs meet only at workers and row locks.

### DocumentVersions

One document, whose runs, submissions and deletions are serialized by its row
(`FOR UPDATE` in `submit`, held to the end of the run's transaction). `Scan`
captures an event with its time, `Submit` leaves an existing version and job as
they are, `Begin` to `Complete` is one run, with the requests of `upsert` as
`Write`, `ClearOthers` and `Publish` and their failures as `WriteRefused`,
`WriteLost`, `ClearLost`, `PublishLost`; `SkipIndex` is a version without chunks.
`present` and `flagged` are the chunks in the index and those that are current.
Job delivery is reduced to a state (`open`, `completed`, `failed`), since
`IngestionWorker` has the rest. A worker that lost its session in the middle of an
index call, which that module has, is not in this one. `Delete` is the pipeline's
deleted event, which no worker path sends today.

### InvestigationWorkflow

`record` is the row, `worker` and `client` what each one has read and prepared.
`Read` is `advance` up to the node, `Plan`, `BeginTools`, `Call`, `CallRefused`,
`EndTools`, `Verify`, `Report` the nodes, `NodeRaises` the handler of `_advance`,
`Save` the compare-and-set of `_persist` and the loop of `_run`. Searches of
evidence and of incidents are one kind of request, because both count as
retrievals. The queue that runs investigations is an interface without an
implementation in the repository (`InvestigationDispatcher`: durable, idempotent);
the model delivers at least once and again after a crash. Each call of the store
is atomic and durable, as its doc says (`investigation_store.py:18`). `told` is the
end that a client was last told of: by its cancellation (`CancelSave`), by a repeated
one (`CancelAgain`) or by a report (`ReadReport`).

### AskStream

`stream[r]` is the generator of one request. An event loop drives all of them: a
request runs from one event to the next (`retrieving`, `generating`, a delta, the
final one) and is suspended there, where others run and a client's absence is
noticed. A provider call, the pause before a retry and the queries of the verifier are
synchronous in the code, so they block the loop (`Blocking`), while time and policies
move on. `Ask` and `Refuse` are the reservation, `Begin` and `Retrieve` the retrieval,
`Attempt`, `Delta`, `Resume`, `ProviderFails`, `ProviderStops`, `ProviderCompletes` one
attempt, `VerifyClaim` one turn of the verifier's loop, which authorizes each claim by a
query of its own (`verifier.py:70`), `Conclude` the decision and the final event,
`Finish`, `Disconnect`, `Raises`, `Abandon` and `Crash` the ways a stream ends. The
adapter's errors are the table `Failure`; an exception that it does not name breaks the
response off (`Raises`). A final response goes through `ParseFailure`, `DraftAccepted`,
`ClaimFailures` and `Decide`. A text is a sequence of words.

`bucket` is the quota row with the arithmetic of `Quota`: its window, the requests and
the active ones it counts. `lease[r]` is the window of a request's reservation. A stream
that ends in the generator's `finally` releases it, if the backend accepts; closing a
generator that has not begun runs none of its `finally`, and a restart none either.
`leaks` remembers the requests whose lease nobody gave back. `since[r]` are the policy
tables in force since the model's reply was complete: an answer is judged by them,
because policies may change between the queries of two claims and before the answer.

### EvidenceSearch and InvestigationTools

`search[r]` is one request in its own thread, from `Stamp` (the clock is read before
the backend's locks) to `Release`. `buckets` is the table of the PostgreSQL backend,
`twin` what the in-memory backend would hold after the same calls. `past` lists the
policy tables there have been; `published` is the version the application puts in
cache keys, which follows the changes with a delay. Where answers are cached, a
generation behind its own breaker follows the retrieval. A world may be without
quota, cache, dense leg or reranker, as the composition of the code may be. A tool
call is a request whose search, if it is a retrieval, runs in `calls[r]`'s thread;
`TimeOut` answers the caller and leaves the thread running.

### IndexRebuild and RecoveryExercise

`indices` holds the chunks of each index and which are current, `read` and `write` the
indexes behind the aliases. `rebuild[r]` is the control point of a rebuild:
`active_index` is two requests (`LookAtRead`, `LookAtWrite`), used before the build, as
guard and confirmation of the switch, and again in the compensation and in
`Rollback`. `MoveAliases` is one request that applies or is refused, and whose answer
can be lost. The exercise works on its own indexes; its table and store are the dump and
the copies.

`rows` are the versions in PostgreSQL with their stamps, each standing for the pair of
`source_timestamp` and `source_version` that the code compares, taken to differ between
versions of a document. A version is
submitted (`Submit`), run up to its commit with its artifacts and the upsert behind the
write alias (`Prepare`), and committed later (`Commit`) or run again (`RunFails`);
versions of a document complete in any order, and a document may be deleted (`Delete`),
of which the index is not told. `pending` holds the versions whose run holds the lock of
their document. The current version is the completed one with the newest timestamp
(`ingestion_repository.py:477-487`), and a replay goes through the completed versions by
document, the current one last, then by timestamp (`replay.py:69-70`). `touched` records,
for each index since the rows of its replay were selected, the documents with a commit or
a deletion, and those that ingestion wrote to this index: a replay cannot see them, and
an upsert behind the write alias makes current what it writes, newer or not
(`versions_order`). The requests of one upsert, and the ways they fail in part, are in
`DocumentVersions`.

## 3. Runs

Bounds are named in the configurations, or, where a run covers several situations,
in the records called worlds of its MC module: a behaviour happens in one of them,
chosen at the start.

| Run | Question | Result |
| --- | --- | --- |
| `worker_main` | with live sessions, are completed jobs published and outcomes final, is `JobLifecycle` implemented, and does every committed job end? | holds |
| `worker_sessions` | with sessions that drop, do the proved invariants hold? | holds |
| `worker_resurrect` | are outcomes final when sessions drop? | no |
| `versions_main` | one version served, current version backed, only newer, published before commit, none after deletion | holds |
| `versions_order` | when all jobs completed, does the index serve the current version? | no |
| `versions_revert` | when all jobs completed, is the latest content current? | no |
| `investigation_main` | one-executor behaviour, final outcomes, what clients were told, budgets, earned success | holds |
| `investigation_live` | does a queued investigation end? | holds |
| `investigation_spend` | are tools called within the budget of calls? | no |
| `ask_main` | are answers grounded in what could be read since the reply, is text shown from one attempt, is the context maximal, does the quota row count the open streams and what was never released, are probes accounted for, does the breaker wait? | holds |
| `search_main` | are quota counts exact and the two backends alike, are cache hits fresh and free of outages, is the fusion sound, do tools return what could be read? | holds |
| `rebuild_main` | do the aliases agree, does a rebuilt index serve the current version of every document, are failures compensated, is the report true, are chunks faithful? | holds |

**Bounds.** One job, two workers and three deliveries are enough for the worker:
jobs do not read each other's rows, two workers suffice for every conflict on a
lock, and three deliveries allow a retry after a retry and a claim past the
budget. The theorems below have no such bound. Three versions and three scans
allow A, B, A and an overtaken, an empty and a failed version at once; two chunks
make a bulk request partly refused. An investigation has plans at its budget and
one request beyond it of each kind, and one unit of time and tokens beyond
theirs; steps run out in `investigation_live`, where they are one fewer than a
full run takes. In `investigation_main` no worker crashes: one that stops moving at
any point, while the other goes on with a second delivery, is the same to the
record. `investigation_live` and `investigation_spend` have a crash, which is enough
to redo a node.

`MCAsk`: three requests, a threshold of two failures, a timeout of two and three units
of time let the circuit open, probe, fail again and be closed by an older call; a
restart has a world of its own, and so have leases of two windows: three streams within a
limit of concurrent ones, reservations that cannot be made, releases that fail and a
restart. One request meets every failure of the provider, and
every list of two hits out of four, with a second wording, a newer version of the
same wording, a long item, an item of another tenant, and one policy change at any
moment; nine replies cover what parsing, drafting and verifying tell apart.
`MCSearch`: two requests per window and one at a time, so that every limit is
reached; two windows; two tenants with a principal of the same name; all rankings of
three chunks by the dense leg against four by the lexical one; every outcome of an
embedding, a generation and a reranking; one or two policy changes; at most three
requests. Fusion scores are exact integers: `ScoreUnit` is a common multiple of
the denominators for `rrf_k` = 60 and three ranks. `MCRecovery`: two rebuilds that
race with two failed requests; one rebuild beside the ingestion of two versions of a
document, in either order of their timestamps, with an empty one, a damaged artifact and a
deletion; one beside two documents; the exercise beside two versions; all
documents of up to four lines of six kinds against a limit of four words.

Some of the properties of these runs say where the code stops promising, because
the model goes further: `CountsAreExact` and `BackendsAgree` hold until a reservation
is stamped before a window that has begun, which takes a bucket back to the old window;
`OutagesAreNotKept` leaves out results whose mark of degradation the code drops
(reranked ones, those of a leg lost in the index, answers);
`ServedIsWhole` excepts documents that ingestion has touched since the rows of the replay
were selected; `AnswersAreGrounded` asks that a claim could be read at one moment since
the model's reply, not at that of the answer; `LeaseFollowsStream` counts, with the open
streams, those that ended without a release. The comment of each says so.

**What the violations show.**
- `worker_resurrect`: a worker whose session dropped records its error without the
  advisory lock. If that fails the job, the run that has taken over then writes
  its own value over the failed row: `save_job` does not look at the row's state.
  This is why `worker_main` has no session loss: a completed job may also lose
  chunks to the clean-up of a worker that no longer holds its lock.
- `versions_order`: `upsert` makes its version current in the index before
  `promote` decides, and does not compare. If a newer version completes before an
  older one, PostgreSQL keeps the newer and the index serves the older.
- `versions_revert`: a version is identified by the digest of its content. When a
  content comes back, its job is already completed and nothing is promoted.
- `investigation_spend`: usage is saved at the end of a node. A crash, or a lost
  compare-and-set, forgets calls that were made.

**Fairness.** `worker_main` assumes that a task in progress goes on, that the beat
runs the recovery scan and time passes (weak fairness), and that publications,
receipts, locks and claims of one job succeed sooner or later if tried again and
again (strong fairness): the broker and workers may fail for ever, but not each
time for the same job. Celery's beat schedule, acknowledgement after execution
(`worker.py:77-92`) and the recovery of stale dispatches justify it. Nothing is
assumed of submitters, which may die for good after their commit.
`investigation_live` assumes that workers take messages and go on (weak fairness)
and bounds crashes.

## 4. Proofs

Eight modules hold theorems, all for any values of the constants that satisfy the
named assumptions of the modelled module (`WorkerAssumption`, `VersionsAssumption`,
`InvestigationAssumption` with `NoneAssumption`, `AskAssumption`, `QuotaAssumption` with
`SearchAssumption` and `ToolsAssumption`, `RebuildAssumption` with `RestoredAssumption`):
numbers are numbers, `None` is no value, sets that are counted are finite, worlds name
requests and rebuilders there are, a call of a tool is asked for by a request, an index
has one entry per chunk, a cache key tells principals and versions apart, and a document
is a finite sequence of lines with a number of words each. TLC evaluates them in every run. Each module has one
inductive invariant or two, a lemma per action or group of
actions that keeps it, and short theorems that draw the properties from it. Before they
were proved, those that TLC can evaluate were checked on a small instance.

**IngestionWorkerProofs** (with or without session loss). `Safety`: `SafetyInv` always
holds; `TypeCorrect`, `Exclusion`, `Checkpoints`, `Budgets`: the type invariant and the
safety properties of `worker_sessions`. None of the three properties is inductive
alone. Two workers are kept apart because each run on a live session holds the lock
of its job; the checkpoint of a row is sound because the value that will overwrite it,
in a transaction still open, already is; a failed row has spent a budget because the
claim that began its run was within it. So `SafetyInv` adds, for each worker
(`WorkerSound`), that a live run owns the lock, that its row is within its budget until
it ends (`RunBudget`), and what its job value may be at each control point (`TxSound`);
and, for submitters, that a row is only committed after its raw artifact (`StoredRaw`).

Without session loss, the premise of the theorems that follow in the same module (with it
`worker_resurrect` is a counterexample): `CompletedPublished`, `OutcomeIsFinal`, and
`ImplementsJob`: the worker implements `JobLifecycle`. `LiveInv` adds to `SafetyInv` that a
run has its lock to the end, error record included, that its row is open all that time
with a failure to spare, and how far its job value is ahead of the row (`RunLive`).
Every step then leaves all outcomes as they are or takes one job through one of five
moves (`RowsMove`), and each move is a step of `JobLifecycle`.

**DocumentVersionsProofs** (any versions, chunks, scans). `OneVersion`, `CurrentBacked`,
`OnlyNewer`, `PublishedFirst`, `TombstoneHolds`. The index serves one version because the
flags are as the phase of the only run left them: cleared before published
(`RunSound`); a deleted document has no run that could write (`DeletedSound`).

**InvestigationWorkflowProofs** (any workers, clients, plans, budgets).
`EndIsHeld`, `UsageIsBounded`, `SuccessEarned`, `FinishedIsFinal`, and `RaceActsAsOne`: any
number of executors, duplicates and cancellations act on the record as one
(`InvestigationRecord`). A worker's snapshot is never newer than the record, and is the
record as long as nobody saved (`Behind`); what it will save is one node, or one stop,
from that snapshot (`Moves`); so a compare-and-set that succeeds makes an abstract step.
`Progress` says how many requests of the plan are answered at each node, which makes
success earned.

**AskStreamProofs** (any requests, one event loop). `ProbesAccounted`, `CallsWait`, and
`RetriesSilent`, which no run has: an attempt is only repeated while no text of the answer
has gone out. Besides `ProbeAccounted` the invariant says what a generator in each phase
has done (`StreamSound`) and that the breaker remembers the last outage (`BreakerSound`).
`LeasesFollow` has an invariant of its own, `QuotaInv`: the row's window is not after that
of the clock, and no lease is of a later window than the row, so that a row brought to a
new window starts from nobody, and a release takes one off exactly when the stream was
among those counted; a stream with a leak is over. `ContextMaximal`, `TextGrounded` and `AnswersGrounded`
rest on a second invariant, `GroundInv`. `PackedSound` says what packing leaves; it holds
of what `Pack` returns for any evidence (`PackFacts`): each identity once
(`DeduplicateFacts`), in an order in which any two items compare (`RoundRobinOrders`,
`DiverseFacts`), as far as the budget goes, which only shrinks (`SpentFacts`). The text
shown is the text so far, or the text so far has stopped to begin an evidence text and
will not begin one again (`PassesBefore`); without this a guard that looks at each delta
could release the end of one attempt after a gap. `AnswersGrounded` rests on
`VerifyInv`: the claims already checked without a failure are supported and could be read
by one of the tables since the reply, which the current table is always among. It also uses
that a citation resolves to the one item of its identity (`ResolvedFacts`): that an index has one item per chunk is an assumption on the
worlds (`AskAssumption`), because a chunk's id is the id of its document in the index.

**RecoveryExerciseProofs** (any rebuilds, documents, versions, failures).
`AliasesTogether`, `ServedWhole`, `ReportsTrue`, `FailuresCompensated`. The aliases stay
together because every request moves both. What is served is whole because a candidate that is
validated has replayed all it selected, and the replay comes to the current version of a
document last (`ReplayOrderSound`): in the middle of it, a document is whole or its current
version is still in the queue, with no version of it after that one (`Filling`,
`CurrentLast`). `CandidateBlank` is the start of this, `ServableWhole` its end, which also
covers the indexes that a compensation or a rollback may bring back. Order is that of
timestamps, which differ within a document (`TablesSound`). A report is true because the
candidate's chunks are those written and these are all chunks of the dump (`WrittenSound`).
The steps of a rebuild are a few moves (`RebuildMoves`). For these the chunker is a black
box: equal documents have equal chunks, finitely many.

`ChunksFaithful` opens it, for any document and any limit. Everything is said with
`Tiles`: pieces that follow each other from one position to another. The parser's
sections tile the text up to where the open section starts, and its cursor is where the
line ends in the text (`LineParsed`, `ParseTiles`); the chunker's ranges tile it up to
what is pending, which is within the limit, and hold whole each section that fits
(`Gathering`, `SectionAdded`). A section that is cut has pieces within the limit because a
longer one would hold a word with the next multiple of the limit before it, which is a cut
(`WordAt`, `SplitFacts`). The sections a chunk touches are neighbours, so its spans tile it
(`SpansTile`). What the functions return along a sequence is reached step by step from
the empty one (`UpTo`), an induction over a set of numbers.

**InvestigationToolsProofs** (any requests, limits, windows, failed releases).
`CountsExact`, `BackendsAlike`; `LimitsHold`: a bucket is within its limits in both
backends, late stamps included; `WindowLimits`: without late stamps no window, even one
long past, has admitted more than its limit. The counts are inductive because leases are
only of windows up to that of their bucket (`WindowsSound`): a window that begins has no
admissions. The backends agree because their buckets are equal or the twin has begun a
window that is still empty (`Ahead`). The late stamp is a history variable: the comment
of `CountsAreExact` says what it does. `ToolNames` rests on `ToolsAssumption`: there are
three tools.

**OrderingsProofs** (finite sets, finite sequences). `Sorted` places an element by the
number of elements before it. `SortedFacts`: for a strict total order the result lists
each element once, and of two elements the earlier one first; `SelectedFacts`: a
selection has the items at the selected places, in their order. The ranks are distinct
and all taken (`RankFacts`, `EveryRank`), by counting, so no induction over sequences is
needed; that is why the models sort and filter with these operators. A set of numbers
sorted this way has a least one (`LeastNat`), which gives induction over the members of a
set (`UpTo`) and functions that are defined step by step (`Accumulated`).

**EvidenceSearchProofs** (any index with one entry per chunk, rankings, policies,
providers, requests). `SearchTypes`, `HitsFresh`, `OutagesEnd`, `FusionSoundness`,
`ToolsInTime`. `EvidenceInv` says of each request (`RequestSound`) that the hits it holds,
of a leg or of its result, are distinct entries of the index, no more than its limit,
each readable since the versions it goes by (`HitsSound`); where it
can be with which attempts and status (`ProgressSound`); and, where legs are lost only for
want of an embedding, that a leg covers its query but for what was not always readable,
so that a result is whole or carries the mark of degradation (`LegsWhole`). A cached
record has the same properties for the principal and the versions of its key
(`RecordSound`), which is why whoever takes it may. A policy change keeps all this because
it speaks of the policies there were, not of those there are. `FusionSoundness` adds that
an item before another in every leg has the greater sum of reciprocal ranks
(`DominatedScores`), for scores without rounding (`SearchAssumption`). `ToolsInTime` has an
invariant of its own, `ReadsInv`: what a thread has been granted or has answered could be
read since its call.

**Only model-checked.** Liveness (`SubmittedTerminates`, `QueuedTerminates`): fairness and
ENABLED are beyond the prover. Every other property that a passing run checks is a theorem.

## 5. Plan

Modelled: the life of a job, the versions of a document, investigations and their
tools, the answer stream, searches with quotas, cache and ranking, rebuilds and the
recovery exercise. No module contains a RECURSIVE operator, so each can be proved
about. The safety of the core of each is proved.

## 6. Not modelled

- What a model writes, and the scores and vectors of search: given by the instances.
- The encoding of keys, prompts, events and reports; HTTP rendering, configuration,
  probes, deployment.
- Bearer tokens and the static policy snapshot, which nothing changes at run time.
- The propagation of a changed source policy to documents and index
  (`ingestion_repository.py:71`, `enforcement.py`): the models change policy rows
  directly. A worker that resubmits with the policy of its load can put an older one
  back; no module shows it.
- Audit, feedback and telemetry: append-only. The audit trail records a promotion
  even when `promote` changed nothing (`pipeline.py:277`).
- `conflicts="proceed"` in the index writer: an update by query skips a chunk that another
  request changes at the same moment.
- Query routing, the embedding of passages and the cache of embeddings.
- The evaluation harness and the scripts of the build: sequential, on fixed data.

`PROJECT.json` lists each component with its status, and the hazards that no property
covers with the reason.

## 7. Running

    tlc -config MCWorker.cfg MCWorker            # and the other .cfg files
    tlapm IngestionWorkerProofs.tla              # and the other ...Proofs modules
