-------------------------- MODULE IngestionWorker --------------------------
(***************************************************************************)
(* The ingestion worker of src/grounded_ops/worker.py: submitters, the     *)
(* recovery scan and a pool of Celery workers that deliver, run, retry and *)
(* finish ingestion jobs.  PostgreSQL holds the job row, an advisory lock  *)
(* per job and one transaction per run; the object store and the search    *)
(* index are written inside that transaction but do not roll back with it; *)
(* the broker carries job identities and may lose or duplicate them.       *)
(*                                                                         *)
(* One job per document version (the idempotency key); which version of a  *)
(* document is current is the subject of module DocumentVersions.          *)
(***************************************************************************)
EXTENDS Naturals

CONSTANTS
  Jobs,          \* ingestion jobs, named by their idempotency key
  Workers,       \* Celery worker processes (prefetch one, acks_late)
  MaxDeliveries, \* MAX_DELIVERIES, which is also the pipeline's max_attempts
  SessionLoss,   \* may PostgreSQL drop a session while its worker lives on?
  None           \* no lock owner / no current job

ASSUME WorkerAssumption ==
  /\ MaxDeliveries \in Nat \ {0}
  /\ SessionLoss \in BOOLEAN
  /\ None \notin Jobs \cup Workers

VARIABLES
  row,        \* committed ingestion_jobs row of each job
  raw,        \* jobs whose raw content is in the object store
  normalized, \* jobs whose version row has a committed normalized_ref
  indexed,    \* jobs whose chunks are all in the index, flagged current
  queue,      \* jobs with at least one message in the broker
  submitting, \* progress of submit_event for each job
  recovering, \* jobs claimed by recover_pending and not yet published
  lock,       \* owner of the advisory lock of each job
  cut,        \* workers whose session died while a run uses it
  pc, cur,    \* per worker: control point and job of the message in hand
  tx          \* per worker: the IngestionJob value its transaction works on

vars == <<row, raw, normalized, indexed, queue, submitting, recovering,
          lock, cut, pc, cur, tx>>
stores  == <<raw, normalized, indexed>>
worker  == <<lock, cut, pc, cur, tx>>

-----------------------------------------------------------------------------
(* JobState, and what a row or a job value may hold.                       *)

Stage    == {"fetching", "parsing", "indexing"}
Terminal == {"completed", "failed"}
Waiting  == {"queued", "retrying"}
JobState == Stage \cup Terminal \cup Waiting
\* "pipeline" stands for artifact, parser_input and index_preparation.
Errors   == {"none", "pipeline", "worker_internal", "worker_lost"}
\* dispatched_at: NULL, within the last 60 seconds, or older.
Dispatch == {"never", "recent", "stale"}

RowType == [state : JobState \cup {"absent"}, attempts : Nat, deliveries : Nat,
            error : Errors, resume : Stage \cup {"none"}, dispatched : Dispatch]
TxType  == [state : JobState \cup {"absent"}, attempts : Nat, error : Errors,
            resume : Stage \cup {"none"}, parsed : BOOLEAN]

NoRow  == [state |-> "absent", attempts |-> 0, deliveries |-> 0,
           error |-> "none", resume |-> "none", dispatched |-> "never"]
NewRow == [NoRow EXCEPT !.state = "queued"]
NoTx   == [state |-> "absent", attempts |-> 0, error |-> "none",
           resume |-> "none", parsed |-> FALSE]

\* Control points at which the run's transaction is open.
Running  == {"claimed", "loaded", "running", "upserting", "finishing"}
\* ... and those at which it has written, so locked, the job row.
Writing  == {"running", "upserting", "finishing"}
Controls == Running \cup {"idle", "received", "locked", "error", "unlock", "requeue"}

TypeOK ==
  /\ row \in [Jobs -> RowType]
  /\ raw \subseteq Jobs /\ normalized \subseteq Jobs /\ indexed \subseteq Jobs
  /\ queue \subseteq Jobs /\ recovering \subseteq Jobs
  /\ submitting \in [Jobs -> {"idle", "stored", "committed", "published"}]
  /\ lock \in [Jobs -> Workers \cup {None}]
  /\ cut \subseteq Workers
  /\ pc \in [Workers -> Controls]
  /\ cur \in [Workers -> Jobs \cup {None}]
  /\ tx \in [Workers -> TxType]

Init ==
  /\ row = [j \in Jobs |-> NoRow]
  /\ raw = {} /\ normalized = {} /\ indexed = {}
  /\ queue = {} /\ recovering = {}
  /\ submitting = [j \in Jobs |-> "idle"]
  /\ lock = [j \in Jobs |-> None]
  /\ cut = {}
  /\ pc = [w \in Workers |-> "idle"]
  /\ cur = [w \in Workers |-> None]
  /\ tx = [w \in Workers |-> NoTx]

\* Fault: a failed row still counts as open.
OpenUntilCompleted(r) == r.state \notin {"completed", "absent"}

Open(r) == r.state \notin Terminal \cup {"absent"}

\* An open transaction on a live session holds the rows it has written: those
\* of the job, its document and its source.
RowLocked(j) == \E w \in Workers : cur[w] = j /\ pc[w] \in Writing /\ w \notin cut

-----------------------------------------------------------------------------
(* submit_event: raw content first, then one transaction, then the broker, *)
(* then a second transaction.  Resubmission of the same event is allowed.  *)

StoreRaw(j) ==
  /\ submitting[j] = "idle"
  /\ raw' = raw \cup {j}
  /\ submitting' = [submitting EXCEPT ![j] = "stored"]
  /\ UNCHANGED <<row, normalized, indexed, queue, recovering, worker>>

CommitSubmission(j) ==
  /\ submitting[j] = "stored"
  /\ ~RowLocked(j)
  /\ row' = [row EXCEPT ![j] = IF @.state = "absent" THEN NewRow ELSE @]
  /\ submitting' = [submitting EXCEPT ![j] =
                      IF row[j].state \in Terminal THEN "idle" ELSE "committed"]
  /\ UNCHANGED <<stores, queue, recovering, worker>>

PublishSubmission(j) ==
  /\ submitting[j] = "committed"
  /\ queue' = queue \cup {j}
  /\ submitting' = [submitting EXCEPT ![j] = "published"]
  /\ UNCHANGED <<row, stores, recovering, worker>>

MarkDispatched(j) ==
  /\ submitting[j] = "published"
  /\ ~RowLocked(j)
  /\ row' = [row EXCEPT ![j].dispatched = IF Open(row[j]) THEN "recent" ELSE @]
  /\ submitting' = [submitting EXCEPT ![j] = "idle"]
  /\ UNCHANGED <<stores, queue, recovering, worker>>

\* The submitter dies, or the artifact store or the broker refuses.
AbortSubmission(j) ==
  /\ submitting[j] # "idle"
  /\ submitting' = [submitting EXCEPT ![j] = "idle"]
  /\ UNCHANGED <<row, stores, queue, recovering, worker>>

-----------------------------------------------------------------------------
(* recover_pending: claim every due row in one transaction, then publish.  *)

\* Fault: the scan looks for rows that were never dispatched, not for old ones.
DueOnce(j) == Open(row[j]) /\ row[j].dispatched = "never" /\ ~RowLocked(j)

Due(j) == /\ Open(row[j])
          /\ row[j].dispatched \in {"never", "stale"}
          /\ ~RowLocked(j)                    \* FOR UPDATE SKIP LOCKED

ClaimRecovery ==
  LET due == {j \in Jobs : Due(j)}
  IN  /\ due # {}
      /\ row' = [j \in Jobs |->
                   IF j \in due THEN [row[j] EXCEPT !.dispatched = "recent"] ELSE row[j]]
      /\ recovering' = recovering \cup due
      /\ UNCHANGED <<stores, queue, submitting, worker>>

PublishRecovered(j) ==
  /\ j \in recovering
  /\ queue' = queue \cup {j}
  /\ recovering' = recovering \ {j}
  /\ UNCHANGED <<row, stores, submitting, worker>>

\* A scan dies, or the broker refuses: the rest of its batch is not published.
AbandonRecovery ==
  \E lost \in SUBSET recovering \ {{}} :
    /\ recovering' = recovering \ lost
    /\ UNCHANGED <<row, stores, queue, submitting, worker>>

\* Sixty seconds pass since dispatched_at.
AgeDispatch(j) ==
  /\ row[j].dispatched = "recent"
  /\ row' = [row EXCEPT ![j].dispatched = "stale"]
  /\ UNCHANGED <<stores, queue, submitting, recovering, worker>>

\* The broker loses its messages for a job.
LoseMessages(j) ==
  /\ j \in queue
  /\ queue' = queue \ {j}
  /\ UNCHANGED <<row, stores, submitting, recovering, worker>>

-----------------------------------------------------------------------------
(* The worker: process_ingestion and run_job.                              *)

GoTo(w, c) == pc' = [pc EXCEPT ![w] = c]

\* The task ends: the message in hand is acknowledged.
ToIdle(w) ==
  /\ GoTo(w, "idle")
  /\ cur' = [cur EXCEPT ![w] = None]
  /\ tx'  = [tx EXCEPT ![w] = NoTx]
  /\ cut' = cut \ {w}

\* The transaction rolls back: its working copy is discarded.  A session that
\* was cut is replaced by a new one, which does not hold the advisory lock.
Rollback(w) ==
  /\ GoTo(w, "error")
  /\ tx'  = [tx EXCEPT ![w] = NoTx]
  /\ cut' = cut \ {w}

\* Fault: the unlock does not look at who holds the lock.
ReleaseAnyLock(w) == lock' = [lock EXCEPT ![cur[w]] = None]

\* pg_advisory_unlock, or the end of the session: only the owner's lock goes.
ReleaseLock(w) ==
  lock' = [j \in Jobs |-> IF j = cur[w] /\ lock[j] = w THEN None ELSE lock[j]]

\* Delivery is at least once: a copy may stay in the broker.
Receive(w, j) ==
  /\ pc[w] = "idle" /\ j \in queue
  /\ queue' \in {queue, queue \ {j}}
  /\ cur' = [cur EXCEPT ![w] = j]
  /\ GoTo(w, "received")
  /\ UNCHANGED <<row, stores, submitting, recovering, lock, cut, tx>>

Acquire(w) ==
  /\ pc[w] = "received"
  /\ lock[cur[w]] = None
  /\ lock' = [lock EXCEPT ![cur[w]] = w]
  /\ GoTo(w, "locked")
  /\ UNCHANGED <<row, stores, queue, submitting, recovering, cut, cur, tx>>

\* run_job returns "busy", and the task acknowledges the message.
Busy(w) ==
  /\ pc[w] = "received"
  /\ lock[cur[w]] # None
  /\ ToIdle(w)
  /\ UNCHANGED <<row, stores, queue, submitting, recovering, lock>>

\* Fault: one delivery too many is run before the job is given up.
ClaimedRowLate(r) ==
  IF ~Open(r) THEN r
  ELSE IF r.deliveries <= MaxDeliveries THEN [r EXCEPT !.deliveries = @ + 1]
  ELSE [r EXCEPT !.deliveries = @ + 1, !.state = "failed",
                 !.error = "worker_lost", !.resume = "none"]

\* claim_delivery, and fail_lost_delivery when the claim is one too many.
ClaimedRow(r) ==
  IF ~Open(r) THEN r
  ELSE IF r.deliveries < MaxDeliveries THEN [r EXCEPT !.deliveries = @ + 1]
  ELSE [r EXCEPT !.deliveries = @ + 1, !.state = "failed",
                 !.error = "worker_lost", !.resume = "none"]

Claim(w) ==
  LET r == ClaimedRow(row[cur[w]])
  IN  /\ pc[w] = "locked"
      /\ row' = [row EXCEPT ![cur[w]] = r]
      /\ tx' = [tx EXCEPT ![w].state = r.state]
      /\ GoTo(w, IF Open(r) THEN "claimed" ELSE "unlock")
      /\ UNCHANGED <<stores, queue, submitting, recovering, lock, cut, cur>>

\* get_delivery, store.get, then the pipeline's get_job: a read with no lock.
Load(w) ==
  /\ pc[w] = "claimed" /\ w \notin cut
  /\ cur[w] \in raw
  /\ LET r == row[cur[w]] IN
       tx' = [tx EXCEPT ![w] = [state |-> r.state, attempts |-> r.attempts,
                 error |-> r.error, resume |-> r.resume, parsed |-> FALSE]]
  /\ GoTo(w, "loaded")
  /\ UNCHANGED <<row, stores, queue, submitting, recovering, lock, cut, cur>>

\* Fault: a queued job, which has no checkpoint, is resumed like a retry.
ResumedAlways(t) == [t EXCEPT !.state = t.resume, !.resume = "none", !.error = "none"]

\* The first transition of _continue; save_job takes the row lock.
Resumed(t) ==
  IF t.state = "queued" THEN [t EXCEPT !.state = "fetching"]
  ELSE [t EXCEPT !.state = t.resume, !.resume = "none", !.error = "none"]

BeginRun(w) ==
  /\ pc[w] = "loaded" /\ w \notin cut
  /\ \/ /\ tx[w].state \in Terminal
        /\ GoTo(w, "unlock")
        /\ UNCHANGED tx
     \/ /\ \/ tx[w].state = "queued"
           \/ tx[w].state = "retrying" /\ tx[w].resume # "none"
        /\ ~RowLocked(cur[w])
        /\ tx' = [tx EXCEPT ![w] = Resumed(@)]
        /\ GoTo(w, "running")
  /\ UNCHANGED <<row, stores, queue, submitting, recovering, lock, cut, cur>>

\* Fault: the attempt that fails is compared before it is counted.
SpentLate(attempts) == attempts >= MaxDeliveries

\* Does one more failure spend the budget of attempts?
Spent(attempts) == attempts + 1 >= MaxDeliveries

\* _failed_attempt: the stage reached is the checkpoint to resume from.
FailedAttempt(t) ==
  [t EXCEPT !.state    = IF Spent(t.attempts) THEN "failed" ELSE "retrying",
            !.attempts = @ + 1,
            !.error    = "pipeline",
            !.resume   = IF Spent(t.attempts) THEN "none" ELSE t.state]

StageFails(w) ==
  /\ pc[w] = "running" /\ w \notin cut
  /\ tx' = [tx EXCEPT ![w] = FailedAttempt(@)]
  /\ GoTo(w, "finishing")
  /\ UNCHANGED <<row, stores, queue, submitting, recovering, lock, cut, cur>>

Fetch(w) ==
  /\ pc[w] = "running" /\ w \notin cut /\ tx[w].state = "fetching"
  /\ raw' = raw \cup {cur[w]}
  /\ tx' = [tx EXCEPT ![w].state = "parsing"]
  /\ UNCHANGED <<row, normalized, indexed, queue, submitting, recovering,
                 lock, cut, pc, cur>>

\* Parse, put both artifacts, update_artifacts.
Parse(w) ==
  /\ pc[w] = "running" /\ w \notin cut /\ tx[w].state = "parsing"
  /\ raw' = raw \cup {cur[w]}
  /\ tx' = [tx EXCEPT ![w].state = "indexing", ![w].parsed = TRUE]
  /\ UNCHANGED <<row, normalized, indexed, queue, submitting, recovering,
                 lock, cut, pc, cur>>

\* Parse, chunk and read the projection's metadata: the index is called next.
Upsert(w) ==
  /\ pc[w] = "running" /\ w \notin cut /\ tx[w].state = "indexing"
  /\ GoTo(w, "upserting")
  /\ UNCHANGED <<row, stores, queue, submitting, recovering, lock, cut, cur, tx>>

\* The index has the chunks; promote and save_job need the session.
UpsertDone(w) ==
  /\ pc[w] = "upserting"
  /\ indexed' = indexed \cup {cur[w]}
  /\ IF w \in cut
     THEN Rollback(w)
     ELSE /\ tx' = [tx EXCEPT ![w].state = "completed"]
          /\ GoTo(w, "finishing") /\ UNCHANGED cut
  /\ UNCHANGED <<row, raw, normalized, queue, submitting, recovering, lock, cur>>

\* The index refuses: the writer may have deleted what it wrote, or not.
UpsertFails(w) ==
  /\ pc[w] = "upserting"
  /\ indexed' \in {indexed, indexed \ {cur[w]}, indexed \cup {cur[w]}}
  /\ IF w \in cut
     THEN Rollback(w)
     ELSE /\ tx' = [tx EXCEPT ![w] = FailedAttempt(@)]
          /\ GoTo(w, "finishing") /\ UNCHANGED cut
  /\ UNCHANGED <<row, raw, normalized, queue, submitting, recovering, lock, cur>>

\* What the run's transaction leaves behind: save_job's four columns.
Saved(r, t) == [r EXCEPT !.state = t.state, !.attempts = t.attempts,
                         !.error = t.error, !.resume = t.resume]

\* Fault: the artifact references are not part of what the run commits.
SaveRowOnly(w) ==
  row' = [row EXCEPT ![cur[w]] = Saved(@, tx[w])] /\ UNCHANGED normalized

SaveRun(w) ==
  /\ row' = [row EXCEPT ![cur[w]] = Saved(@, tx[w])]
  /\ normalized' = IF tx[w].parsed THEN normalized \cup {cur[w]} ELSE normalized

Commit(w) ==
  /\ pc[w] = "finishing" /\ w \notin cut
  /\ SaveRun(w)
  /\ GoTo(w, "unlock")
  /\ UNCHANGED <<raw, indexed, queue, submitting, recovering, lock, cut, cur, tx>>

\* Anything else that raises inside the run.
RunRaises(w) ==
  /\ pc[w] \in Running \ {"upserting"}
  /\ Rollback(w)
  /\ UNCHANGED <<row, stores, queue, submitting, recovering, lock, cur>>

\* record_worker_error.
ErrorRow(r) ==
  IF ~Open(r) THEN r
  ELSE [r EXCEPT !.state = IF Spent(r.attempts) \/ r.deliveries >= MaxDeliveries
                           THEN "failed" ELSE "retrying",
                 !.attempts = @ + 1,
                 !.error = "worker_internal",
                 !.resume = CASE r.state = "queued" -> "fetching"
                              [] r.state = "retrying" ->
                                   IF @ = "none" THEN "fetching" ELSE @
                              [] OTHER -> r.state]

RecordError(w) ==
  LET r == ErrorRow(row[cur[w]])
  IN  /\ pc[w] = "error"
      /\ ~RowLocked(cur[w])
      /\ row' = [row EXCEPT ![cur[w]] = r]
      /\ tx' = [tx EXCEPT ![w].state = r.state]
      /\ GoTo(w, "unlock")
      /\ UNCHANGED <<stores, queue, submitting, recovering, lock, cut, cur>>

\* The finally clause; a retrying result is published again.
Unlock(w) ==
  /\ pc[w] = "unlock"
  /\ ReleaseLock(w)
  /\ IF tx[w].state = "retrying"
     THEN GoTo(w, "requeue") /\ UNCHANGED <<cut, cur, tx>>
     ELSE ToIdle(w)
  /\ UNCHANGED <<row, stores, queue, submitting, recovering>>

Requeue(w) ==
  /\ pc[w] = "requeue"
  /\ queue' = queue \cup {cur[w]}
  /\ ToIdle(w)
  /\ UNCHANGED <<row, stores, submitting, recovering, lock>>

-----------------------------------------------------------------------------
(* What the environment does to a worker.                                  *)

\* The process dies, is killed at the time limit, or an exception escapes the
\* task: the session ends, and the message comes back or is acknowledged.
Crash(w) ==
  /\ pc[w] # "idle"
  /\ ReleaseLock(w)
  /\ queue' \in {queue, queue \cup {cur[w]}}
  /\ ToIdle(w)
  /\ UNCHANGED <<row, stores, submitting, recovering>>

\* PostgreSQL drops the session under a live worker: the transaction and the
\* advisory lock are gone, and the worker learns of it at its next statement.
LoseSession(w) ==
  /\ SessionLoss
  /\ pc[w] \in Running /\ w \notin cut
  /\ cut' = cut \cup {w}
  /\ ReleaseLock(w)
  /\ UNCHANGED <<row, stores, queue, submitting, recovering, pc, cur, tx>>

\* The session dies as COMMIT returns: committed, but the worker sees an error.
LoseCommit(w) ==
  /\ SessionLoss
  /\ pc[w] = "finishing" /\ w \notin cut
  /\ SaveRun(w)
  /\ ReleaseLock(w)
  /\ Rollback(w)
  /\ UNCHANGED <<raw, indexed, queue, submitting, recovering, cur>>

-----------------------------------------------------------------------------

Submitter(j) == \/ StoreRaw(j) \/ CommitSubmission(j) \/ PublishSubmission(j)
                \/ MarkDispatched(j) \/ AbortSubmission(j)

RunStep(w) == \/ Load(w) \/ BeginRun(w) \/ Fetch(w) \/ Parse(w) \/ Upsert(w)
              \/ StageFails(w) \/ UpsertDone(w) \/ UpsertFails(w)
              \/ Commit(w) \/ RunRaises(w) \/ RecordError(w)

WorkerStep(w) == \/ Acquire(w) \/ Busy(w) \/ Claim(w) \/ RunStep(w)
                 \/ Unlock(w) \/ Requeue(w)

Environment == \/ \E j \in Jobs : AgeDispatch(j) \/ LoseMessages(j)
               \/ \E w \in Workers : Crash(w) \/ LoseSession(w) \/ LoseCommit(w)

Next == \/ \E j \in Jobs : Submitter(j) \/ PublishRecovered(j)
        \/ ClaimRecovery \/ AbandonRecovery
        \/ \E w \in Workers : WorkerStep(w) \/ \E j \in Jobs : Receive(w, j)
        \/ Environment

Spec == Init /\ [][Next]_vars

(***************************************************************************)
(* Fairness.  A task in progress and the clock move on, and the beat runs  *)
(* the recovery scan.  Crashes, outages and message loss may recur for     *)
(* ever, but not so as to interrupt the delivery of one job every time: a  *)
(* publication, a receipt, a lock and a claim of that job that are         *)
(* possible again and again happen again.  Nothing else is fair: a         *)
(* submitter may stop anywhere and a run may fail in every way.            *)
(***************************************************************************)
Fairness ==
  /\ \A w \in Workers : WF_vars(WorkerStep(w))
  /\ WF_vars(ClaimRecovery)
  /\ \A j \in Jobs :
       /\ WF_vars(AgeDispatch(j))
       /\ SF_vars(PublishRecovered(j))
       /\ SF_vars(\E w \in Workers : Receive(w, j))
       /\ SF_vars(\E w \in Workers : cur[w] = j /\ Acquire(w))
       /\ SF_vars(\E w \in Workers : cur[w] = j /\ Claim(w))

FairSpec == Spec /\ Fairness

-----------------------------------------------------------------------------
(* Properties.                                                             *)

\* At most one worker has a live transaction open on a job, whatever duplicates
\* the broker delivers: pg_try_advisory_lock around both transactions of run_job.
ExclusiveRun ==
  \A w, v \in Workers :
    /\ w # v /\ cur[w] = cur[v]
    /\ pc[w] \in Running /\ pc[v] \in Running
    => w \in cut \/ v \in cut

\* A job that waits for another run has what that run starts from: the raw
\* artifact was stored before the job existed, a retry has a checkpoint, and a
\* retry at the index does not skip an artifact that was rolled back.
CheckpointSound ==
  \A j \in Jobs :
    /\ row[j].state # "absent" => j \in raw
    /\ row[j].state \notin Stage
    /\ row[j].state = "retrying" =>
         /\ row[j].resume # "none"
         /\ row[j].resume = "indexing" => j \in normalized

\* A job fails only when a budget is spent, and worker_lost is recorded exactly
\* by the claim after the last allowed delivery (docs/ingestion-worker.md:23).
BudgetSpentOnFailure ==
  \A j \in Jobs :
    /\ row[j].state = "failed" => \/ row[j].attempts >= MaxDeliveries
                                  \/ row[j].deliveries >= MaxDeliveries
    /\ row[j].deliveries <= MaxDeliveries + 1
    /\ row[j].deliveries = MaxDeliveries + 1 <=> row[j].error = "worker_lost"
    /\ row[j].error = "worker_lost" => row[j].state = "failed"

\* The lock, the job and the transaction of each worker agree: what makes the
\* three properties above inductive, with session loss or without.
RunBudget(w) ==
  /\ row[cur[w]].deliveries <= MaxDeliveries
  /\ row[cur[w]].error # "worker_lost"

Normalized(w) == tx[w].parsed \/ cur[w] \in normalized

TxSound(w) ==
  /\ pc[w] \in Running \ {"claimed"} => cur[w] \in raw /\ tx[w].error # "worker_lost"
  /\ pc[w] = "loaded" =>
       /\ tx[w].state \notin Stage
       /\ tx[w].resume = "indexing" /\ tx[w].state = "retrying" => Normalized(w)
  /\ pc[w] \in {"running", "upserting"} =>
       /\ tx[w].state \in Stage
       /\ tx[w].state = "indexing" => Normalized(w)
  /\ pc[w] = "upserting" => tx[w].state = "indexing"
  /\ pc[w] = "finishing" =>
       /\ tx[w].state \in Terminal \cup {"retrying"}
       /\ tx[w].state = "failed" => tx[w].attempts >= MaxDeliveries
       /\ tx[w].state = "completed" => Normalized(w)
       /\ tx[w].state = "retrying" =>
            /\ tx[w].resume # "none"
            /\ tx[w].resume = "indexing" => Normalized(w)

WorkerSound(w) ==
  /\ pc[w] # "idle" => cur[w] \in Jobs
  /\ w \in cut => pc[w] \in Running
  /\ pc[w] \in Running \cup {"locked"} /\ w \notin cut => lock[cur[w]] = w
  /\ pc[w] \in Running /\ w \notin cut => RunBudget(w)
  /\ TxSound(w)

StoredRaw == \A j \in Jobs : submitting[j] = "stored" => j \in raw

SafetyInv ==
  /\ TypeOK
  /\ StoredRaw
  /\ \A w \in Workers : WorkerSound(w)
  /\ CheckpointSound
  /\ BudgetSpentOnFailure

\* A completed job's artifacts are committed and its chunks are in the index,
\* although artifacts and index do not take part in the transaction.
CompletedIsPublished ==
  \A j \in Jobs : row[j].state = "completed" => j \in normalized /\ j \in indexed

\* completed and failed have no successor (domain/ingestion.py:139-140): no late
\* duplicate, retry, error record or resubmission rewrites the outcome.
TerminalIsFinal ==
  [][\A j \in Jobs : row[j].state \in Terminal =>
       row'[j] = [row[j] EXCEPT !.dispatched = row'[j].dispatched]]_vars

\* Bounded, one failure per delivery, never resurrected: the abstract job.
Status(r) == IF Open(r) THEN "pending" ELSE r.state

Lifecycle == INSTANCE JobLifecycle WITH
  MaxTries <- MaxDeliveries,
  status   <- [j \in Jobs |-> Status(row[j])],
  tries    <- [j \in Jobs |-> row[j].deliveries],
  failures <- [j \in Jobs |-> row[j].attempts]

ImplementsLifecycle == Lifecycle!Spec

\* No accepted job is lost silently: every submitted job completes or fails,
\* through broker loss, crashes, duplicate deliveries and a dead submitter.
SubmittedTerminates ==
  \A j \in Jobs : row[j].state # "absent" ~> row[j].state \in Terminal
=============================================================================
