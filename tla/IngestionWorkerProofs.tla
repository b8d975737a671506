----------------------- MODULE IngestionWorkerProofs -----------------------
(***************************************************************************)
(* Theorems about IngestionWorker, for every set of jobs and workers and   *)
(* every delivery budget. The second half is about the outcome of a job    *)
(* when PostgreSQL drops no session under a live worker: a completed job   *)
(* is published, an outcome is final, and the worker implements            *)
(* JobLifecycle. Its theorems begin with ~SessionLoss: a worker that lost  *)
(* its session, and with it the advisory lock, can break all three.        *)
(***************************************************************************)
EXTENDS IngestionWorker, TLAPS

USE WorkerAssumption

-----------------------------------------------------------------------------
(* What the operators on rows and job values return.                       *)

\* Updates of a row, of the shapes the statements of the repository have.
LEMMA RowDelivered ==
  ASSUME NEW r \in RowType, NEW d \in Nat
  PROVE  [r EXCEPT !.deliveries = d] \in RowType
BY DEF RowType

\* mark_dispatched and the recovery scan change nothing but dispatched_at.
LEMMA RowDispatched ==
  ASSUME NEW r \in RowType, NEW p \in Dispatch
  PROVE  /\ [r EXCEPT !.dispatched = p] \in RowType
         /\ [r EXCEPT !.dispatched = p].state = r.state
         /\ [r EXCEPT !.dispatched = p].attempts = r.attempts
         /\ [r EXCEPT !.dispatched = p].deliveries = r.deliveries
         /\ [r EXCEPT !.dispatched = p].error = r.error
         /\ [r EXCEPT !.dispatched = p].resume = r.resume
BY DEF RowType

\* fail_lost_delivery keeps the row in its type.
LEMMA RowLost ==
  ASSUME NEW r \in RowType, NEW d \in Nat, NEW s \in JobState \cup {"absent"},
         NEW e \in Errors, NEW c \in Stage \cup {"none"}
  PROVE  [r EXCEPT !.deliveries = d, !.state = s, !.error = e, !.resume = c] \in RowType
BY DEF RowType

\* save_job and record_worker_error keep the row in its type.
LEMMA RowSaved ==
  ASSUME NEW r \in RowType, NEW a \in Nat, NEW s \in JobState \cup {"absent"},
         NEW e \in Errors, NEW c \in Stage \cup {"none"}
  PROVE  [r EXCEPT !.state = s, !.attempts = a, !.error = e, !.resume = c] \in RowType
BY DEF RowType

\* Updates of a job value, of the shapes the pipeline's transitions have.
LEMMA TxMoved ==
  ASSUME NEW t \in TxType, NEW s \in JobState \cup {"absent"}
  PROVE  /\ [t EXCEPT !.state = s] \in TxType
         /\ [t EXCEPT !.state = s, !.parsed = TRUE] \in TxType
BY DEF TxType

\* The transition into the stage to resume from keeps the job value in its type.
LEMMA TxResumed ==
  ASSUME NEW t \in TxType, NEW s \in JobState \cup {"absent"},
         NEW e \in Errors, NEW c \in Stage \cup {"none"}
  PROVE  [t EXCEPT !.state = s, !.resume = c, !.error = e] \in TxType
BY DEF TxType

\* A failed attempt keeps the job value in its type.
LEMMA TxFailed ==
  ASSUME NEW t \in TxType, NEW a \in Nat, NEW s \in JobState \cup {"absent"},
         NEW e \in Errors, NEW c \in Stage \cup {"none"}
  PROVE  [t EXCEPT !.state = s, !.attempts = a, !.error = e, !.resume = c] \in TxType
BY DEF TxType

\* The fields of rows and job values.
LEMMA RowFields ==
  ASSUME NEW r \in RowType
  PROVE  /\ r.state \in JobState \cup {"absent"} /\ r.attempts \in Nat
         /\ r.deliveries \in Nat /\ r.error \in Errors
         /\ r.resume \in Stage \cup {"none"} /\ r.dispatched \in Dispatch
BY DEF RowType

\* The fields of a job value held by a run's transaction.
LEMMA TxFields ==
  ASSUME NEW t \in TxType
  PROVE  /\ t.state \in JobState \cup {"absent"} /\ t.attempts \in Nat
         /\ t.error \in Errors /\ t.resume \in Stage \cup {"none"}
         /\ t.parsed \in BOOLEAN
BY DEF TxType

\* claim_delivery and fail_lost_delivery write a well-formed row.
LEMMA ClaimedRowType ==
  ASSUME NEW r \in RowType
  PROVE  ClaimedRow(r) \in RowType
<1>1. /\ r.deliveries + 1 \in Nat /\ "failed" \in JobState \cup {"absent"}
      /\ "worker_lost" \in Errors /\ "none" \in Stage \cup {"none"}
  BY RowFields DEF JobState, Terminal, Errors
<1>2. /\ [r EXCEPT !.deliveries = r.deliveries + 1] \in RowType
      /\ [r EXCEPT !.deliveries = r.deliveries + 1, !.state = "failed",
                   !.error = "worker_lost", !.resume = "none"] \in RowType
  BY <1>1, RowDelivered, RowLost
<1>3. QED
  BY <1>2, Zenon DEF ClaimedRow

\* record_worker_error writes a well-formed row: its CASE for resume_from only
\* ever yields a stage, because an open row is queued, retrying or in a stage.
LEMMA ErrorRowType ==
  ASSUME NEW r \in RowType
  PROVE  ErrorRow(r) \in RowType
<1>1. CASE ~Open(r)
  BY <1>1, Zenon DEF ErrorRow
<1>2. CASE Open(r)
  <2> DEFINE resume == CASE r.state = "queued" -> "fetching"
                         [] r.state = "retrying" ->
                              IF r.resume = "none" THEN "fetching" ELSE r.resume
                         [] OTHER -> r.state
             state  == IF Spent(r.attempts) \/ r.deliveries >= MaxDeliveries
                       THEN "failed" ELSE "retrying"
  <2>1. resume \in Stage \cup {"none"}
    BY <1>2, RowFields DEF Open, JobState, Stage, Terminal, Waiting
  <2>2. state \in JobState \cup {"absent"}
    BY DEF JobState, Terminal, Waiting
  <2>3. r.attempts + 1 \in Nat /\ "worker_internal" \in Errors
    BY RowFields DEF Errors
  <2>4. ErrorRow(r) = [r EXCEPT !.state = state, !.attempts = r.attempts + 1,
                                !.error = "worker_internal", !.resume = resume]
    BY <1>2, Zenon DEF ErrorRow
  <2> HIDE DEF resume, state
  <2>5. [r EXCEPT !.state = state, !.attempts = r.attempts + 1,
                  !.error = "worker_internal", !.resume = resume] \in RowType
    BY <2>1, <2>2, <2>3, RowSaved
  <2>6. QED
    BY <2>4, <2>5, Zenon
<1>3. QED
  BY <1>1, <1>2

\* The first transition of a run keeps the job value well-formed.
LEMMA ResumedType ==
  ASSUME NEW t \in TxType, t.state = "queued" \/ t.resume # "none"
  PROVE  Resumed(t) \in TxType
<1>1. /\ "fetching" \in JobState \cup {"absent"} /\ "none" \in Errors
      /\ t.resume \in Stage \cup {"none"} /\ "none" \in Stage \cup {"none"}
  BY TxFields DEF JobState, Stage, Errors
<1>2. CASE t.state = "queued"
  BY <1>1, <1>2, TxMoved, TxResumed, Zenon DEF Resumed
<1>3. CASE t.state # "queued"
  <2>1. t.resume \in JobState \cup {"absent"}
    BY <1>1, <1>3 DEF JobState
  <2>2. QED
    BY <1>1, <1>3, <2>1, TxMoved, TxResumed, Zenon DEF Resumed
<1>4. QED
  BY <1>2, <1>3

\* A failed attempt keeps the job value well-formed: the checkpoint is a stage.
LEMMA FailedAttemptType ==
  ASSUME NEW t \in TxType, t.state \in Stage
  PROVE  FailedAttempt(t) \in TxType
<1> DEFINE spent  == Spent(t.attempts)
           state  == IF spent THEN "failed" ELSE "retrying"
           resume == IF spent THEN "none" ELSE t.state
<1>1. /\ t.attempts + 1 \in Nat /\ "pipeline" \in Errors
      /\ state \in JobState \cup {"absent"} /\ resume \in Stage \cup {"none"}
  BY TxFields DEF JobState, Terminal, Waiting, Errors
<1>2. FailedAttempt(t) = [t EXCEPT !.state = state, !.attempts = t.attempts + 1,
                                   !.error = "pipeline", !.resume = resume]
  BY Zenon DEF FailedAttempt
<1> HIDE DEF spent, state, resume
<1>3. [t EXCEPT !.state = state, !.attempts = t.attempts + 1,
                !.error = "pipeline", !.resume = resume] \in TxType
  BY <1>1, TxFailed
<1>4. QED
  BY <1>2, <1>3, Zenon

\* Committing a run's job value keeps the row well-formed.
LEMMA SavedType ==
  ASSUME NEW r \in RowType, NEW t \in TxType
  PROVE  Saved(r, t) \in RowType
BY TxFields, RowSaved DEF Saved

-----------------------------------------------------------------------------
(* What those operators do to the fields the invariant speaks of.          *)

\* A claim counts a delivery; the one past the budget loses the job.
LEMMA ClaimedRowFacts ==
  ASSUME NEW r \in RowType, Open(r), r.deliveries <= MaxDeliveries
  PROVE  /\ ClaimedRow(r).deliveries = r.deliveries + 1
         /\ r.deliveries < MaxDeliveries =>
              /\ ClaimedRow(r).state = r.state /\ ClaimedRow(r).error = r.error
              /\ ClaimedRow(r).resume = r.resume /\ Open(ClaimedRow(r))
         /\ r.deliveries = MaxDeliveries =>
              /\ ClaimedRow(r).state = "failed" /\ ClaimedRow(r).error = "worker_lost"
              /\ ~Open(ClaimedRow(r))
BY DEF ClaimedRow, RowType, Open, Terminal

\* An error record counts a failure and keeps a checkpoint to resume from.
LEMMA ErrorRowFacts ==
  ASSUME NEW r \in RowType, Open(r), r.state \notin Stage
  PROVE  LET e == ErrorRow(r) IN
         /\ e.deliveries = r.deliveries /\ e.error = "worker_internal"
         /\ e.state \in {"failed", "retrying"}
         /\ e.state = "failed" => \/ e.attempts >= MaxDeliveries
                                  \/ e.deliveries >= MaxDeliveries
         /\ e.resume \in Stage
         /\ e.resume = "indexing" => r.state = "retrying" /\ r.resume = "indexing"
<1> DEFINE resume == CASE r.state = "queued" -> "fetching"
                       [] r.state = "retrying" ->
                            IF r.resume = "none" THEN "fetching" ELSE r.resume
                       [] OTHER -> r.state
           state  == IF Spent(r.attempts) \/ r.deliveries >= MaxDeliveries
                     THEN "failed" ELSE "retrying"
           e      == [r EXCEPT !.state = state, !.attempts = r.attempts + 1,
                               !.error = "worker_internal", !.resume = resume]
<1>1. r.state \in {"queued", "retrying"}
  BY RowFields DEF Open, JobState, Waiting, Terminal
<1>2. /\ resume \in Stage
      /\ resume = "indexing" => r.state = "retrying" /\ r.resume = "indexing"
  BY <1>1, RowFields DEF Stage
<1>3. /\ state \in {"failed", "retrying"}
      /\ state = "failed" => \/ r.attempts + 1 >= MaxDeliveries
                             \/ r.deliveries >= MaxDeliveries
  BY DEF Spent
<1>4. ErrorRow(r) = e
  BY Zenon DEF ErrorRow
<1> HIDE DEF resume, state
<1>5. /\ e.state = state /\ e.attempts = r.attempts + 1
      /\ e.deliveries = r.deliveries /\ e.error = "worker_internal"
      /\ e.resume = resume
  BY DEF RowType
<1> HIDE DEF e
<1>6. QED
  BY <1>2, <1>3, <1>4, <1>5

\* The first transition of a run enters the stage to resume from.
LEMMA ResumedFacts ==
  ASSUME NEW t \in TxType,
         t.state = "queued" \/ (t.state = "retrying" /\ t.resume # "none")
  PROVE  /\ Resumed(t).state \in Stage /\ Resumed(t).parsed = t.parsed
         /\ Resumed(t).error \in {t.error, "none"}
         /\ Resumed(t).state = "indexing" =>
              t.state = "retrying" /\ t.resume = "indexing"
BY DEF Resumed, TxType, Stage

\* A failed attempt ends the run: out of budget, or with its stage as checkpoint.
LEMMA FailedAttemptFacts ==
  ASSUME NEW t \in TxType
  PROVE  LET u == FailedAttempt(t) IN
         /\ u.state \in {"failed", "retrying"} /\ u.error = "pipeline"
         /\ u.parsed = t.parsed
         /\ u.state = "failed" => u.attempts >= MaxDeliveries
         /\ u.state = "retrying" => u.resume = t.state
BY DEF FailedAttempt, Spent, TxType

\* Committing a run writes four columns and leaves the delivery count.
LEMMA SavedFacts ==
  ASSUME NEW r \in RowType, NEW t \in TxType
  PROVE  /\ Saved(r, t).state = t.state /\ Saved(r, t).attempts = t.attempts
         /\ Saved(r, t).error = t.error /\ Saved(r, t).resume = t.resume
         /\ Saved(r, t).deliveries = r.deliveries
BY DEF Saved, RowType

-----------------------------------------------------------------------------
(* The safety invariant.                                                   *)

\* A worker that an action does not concern stays sound if stores only grow,
\* its lock is not taken from it and its run stays within the budget.
LEMMA OtherWorkerSound ==
  ASSUME NEW v \in Workers, WorkerSound(v),
         pc'[v] = pc[v], cur'[v] = cur[v], tx'[v] = tx[v], v \in cut' <=> v \in cut,
         raw \subseteq raw', normalized \subseteq normalized',
         cur[v] \in Jobs /\ lock[cur[v]] = v => lock'[cur[v]] = v,
         pc[v] \in Running /\ v \notin cut /\ RunBudget(v) => RunBudget(v)'
  PROVE  WorkerSound(v)'
BY DEF WorkerSound, TxSound, Normalized, Running

\* A step that at most creates rows and moves dispatched_at.
OutcomeKept(j) ==
  /\ row'[j].state = row[j].state /\ row'[j].attempts = row[j].attempts
  /\ row'[j].deliveries = row[j].deliveries /\ row'[j].error = row[j].error
  /\ row'[j].resume = row[j].resume

\* mark_dispatched, and the clock, touch one column of one row.
LEMMA RowMarked ==
  ASSUME TypeOK, NEW j \in Jobs, NEW p \in Dispatch,
         row' = [row EXCEPT ![j].dispatched = p]
  PROVE  row' \in [Jobs -> RowType] /\ \A k \in Jobs : OutcomeKept(k)
<1> DEFINE r == [row[j] EXCEPT !.dispatched = p]
<1>1. /\ r \in RowType /\ r.state = row[j].state /\ r.attempts = row[j].attempts
      /\ r.deliveries = row[j].deliveries /\ r.error = row[j].error
      /\ r.resume = row[j].resume
  BY RowDispatched DEF TypeOK
<1>2. row' = [row EXCEPT ![j] = r]
  OBVIOUS
<1> HIDE DEF r
<1>3. QED
  BY <1>1, <1>2 DEF TypeOK, OutcomeKept

\* A step of no worker, which may add a row whose raw artifact is stored, is safe.
LEMMA RowsKeptSafe ==
  ASSUME SafetyInv, TypeOK', StoredRaw',
         UNCHANGED <<normalized, lock, cut, pc, cur, tx>>, raw \subseteq raw',
         \A j \in Jobs : \/ OutcomeKept(j)
                         \/ row'[j] = NewRow /\ row[j].state = "absent" /\ j \in raw
  PROVE  SafetyInv'
<1>1. ASSUME NEW v \in Workers PROVE WorkerSound(v)'
  <2>1. pc[v] \in Running => cur[v] \in Jobs
    BY DEF SafetyInv, WorkerSound, Running
  <2>2. pc[v] \in Running /\ RunBudget(v) => RunBudget(v)'
    BY <2>1 DEF OutcomeKept, RunBudget, NewRow, NoRow
  <2>3. QED
    BY <2>2, OtherWorkerSound DEF SafetyInv
<1>2. CheckpointSound'
  BY DEF SafetyInv, CheckpointSound, OutcomeKept, NewRow, NoRow, Stage
<1>3. BudgetSpentOnFailure'
  BY DEF SafetyInv, BudgetSpentOnFailure, OutcomeKept, NewRow, NoRow
<1>4. QED
  BY <1>1, <1>2, <1>3 DEF SafetyInv

\* Before any submission there is no row, no lock and no transaction.
LEMMA SafetyInit == Init => SafetyInv
<1> SUFFICES ASSUME Init PROVE SafetyInv
  OBVIOUS
<1>1. TypeOK
  BY DEF Init, TypeOK, RowType, TxType, NoRow, NoTx, Controls, Dispatch, Errors
<1>2. StoredRaw /\ \A w \in Workers : WorkerSound(w)
  BY DEF Init, StoredRaw, WorkerSound, TxSound, Running
<1>3. CheckpointSound /\ BudgetSpentOnFailure
  BY DEF Init, CheckpointSound, BudgetSpentOnFailure, NoRow, Stage
<1>4. QED
  BY <1>1, <1>2, <1>3 DEF SafetyInv

\* The submitter's mark_dispatched, on a row that is there or is not, keeps rows typed.
LEMMA MarkedRow ==
  ASSUME SafetyInv, NEW j \in Jobs, MarkDispatched(j)
  PROVE  row' \in [Jobs -> RowType] /\ \A k \in Jobs : OutcomeKept(k)
<1> DEFINE p == IF Open(row[j]) THEN "recent" ELSE row[j].dispatched
<1>1. p \in Dispatch
  <2>1. row[j].dispatched \in Dispatch
    BY RowFields DEF SafetyInv, TypeOK
  <2>2. QED
    BY <2>1 DEF Dispatch
<1>2. row' = [row EXCEPT ![j].dispatched = p]
  BY DEF MarkDispatched
<1> HIDE DEF p
<1>3. QED
  BY <1>1, <1>2, RowMarked DEF SafetyInv

\* submit_event creates the row of its job if there is none, and changes no outcome.
LEMMA SubmitterRows ==
  ASSUME SafetyInv, NEW j \in Jobs, Submitter(j)
  PROVE  \A k \in Jobs : \/ OutcomeKept(k)
                         \/ row'[k] = NewRow /\ row[k].state = "absent" /\ k \in raw
<1> TAKE k \in Jobs
<1>1. CASE CommitSubmission(j)
  BY <1>1 DEF SafetyInv, TypeOK, StoredRaw, CommitSubmission, OutcomeKept
<1>2. CASE MarkDispatched(j)
  BY <1>2, MarkedRow
<1>3. CASE UNCHANGED row
  BY <1>3 DEF OutcomeKept
<1>4. QED
  BY <1>1, <1>2, <1>3 DEF Submitter, StoreRaw, PublishSubmission, AbortSubmission

\* The submitter's steps: the row appears after its raw artifact.
LEMMA SubmitterSafe ==
  ASSUME SafetyInv, NEW j \in Jobs, Submitter(j)
  PROVE  SafetyInv'
<1>1. TypeOK'
  <2>1. CASE StoreRaw(j)
    BY <2>1 DEF SafetyInv, TypeOK, StoreRaw, worker
  <2>2. CASE CommitSubmission(j)
    <3>1. NewRow \in RowType
      BY DEF NewRow, NoRow, RowType, JobState, Waiting, Errors, Dispatch
    <3>2. row' \in [Jobs -> RowType]
      BY <2>2, <3>1 DEF SafetyInv, TypeOK, CommitSubmission
    <3>3. QED
      BY <2>2, <3>2 DEF SafetyInv, TypeOK, CommitSubmission, worker, stores
  <2>3. CASE PublishSubmission(j)
    BY <2>3 DEF SafetyInv, TypeOK, PublishSubmission, worker, stores
  <2>4. CASE MarkDispatched(j)
    <3>1. row' \in [Jobs -> RowType]
      BY <2>4, MarkedRow
    <3>2. QED
      BY <2>4, <3>1 DEF SafetyInv, TypeOK, MarkDispatched, worker, stores
  <2>5. CASE AbortSubmission(j)
    BY <2>5 DEF SafetyInv, TypeOK, AbortSubmission, worker, stores
  <2>6. QED
    BY <2>1, <2>2, <2>3, <2>4, <2>5 DEF Submitter
<1>2. StoredRaw' /\ raw \subseteq raw'
  BY DEF SafetyInv, TypeOK, StoredRaw, Submitter, StoreRaw, CommitSubmission,
         PublishSubmission, MarkDispatched, AbortSubmission, stores
<1>3. UNCHANGED <<normalized, lock, cut, pc, cur, tx>>
  BY DEF Submitter, StoreRaw, CommitSubmission, PublishSubmission,
         MarkDispatched, AbortSubmission, stores, worker
<1>4. \A k \in Jobs : \/ OutcomeKept(k)
                      \/ row'[k] = NewRow /\ row[k].state = "absent" /\ k \in raw
  BY SubmitterRows
<1>5. QED
  BY <1>1, <1>2, <1>3, <1>4, RowsKeptSafe

\* The recovery scan, the clock and the broker change no outcome.
LEMMA DispatchRows ==
  ASSUME SafetyInv,
         \/ ClaimRecovery \/ AbandonRecovery
         \/ \E j \in Jobs : PublishRecovered(j) \/ AgeDispatch(j) \/ LoseMessages(j)
  PROVE  row' \in [Jobs -> RowType] /\ \A k \in Jobs : OutcomeKept(k)
<1>1. CASE ClaimRecovery
  <2>1. \A k \in Jobs : \/ row'[k] = row[k]
                        \/ row'[k] = [row[k] EXCEPT !.dispatched = "recent"]
    BY <1>1 DEF ClaimRecovery
  <2>2. row' = [k \in Jobs |-> row'[k]]
    BY <1>1 DEF ClaimRecovery
  <2>3. QED
    <3>1. \A k \in Jobs : row'[k] \in RowType /\ OutcomeKept(k)
      <4> TAKE k \in Jobs
      <4>1. row[k] \in RowType /\ "recent" \in Dispatch
        BY DEF SafetyInv, TypeOK, Dispatch
      <4> DEFINE r == [row[k] EXCEPT !.dispatched = "recent"]
      <4>2. /\ r \in RowType /\ r.state = row[k].state
            /\ r.attempts = row[k].attempts /\ r.deliveries = row[k].deliveries
            /\ r.error = row[k].error /\ r.resume = row[k].resume
        BY <4>1, RowDispatched
      <4>3. row'[k] = row[k] \/ row'[k] = r
        BY <2>1
      <4> HIDE DEF r
      <4>4. QED
        BY <4>1, <4>2, <4>3 DEF OutcomeKept
    <3>2. QED
      BY <2>2, <3>1
<1>2. ASSUME NEW j \in Jobs, AgeDispatch(j)
      PROVE  row' \in [Jobs -> RowType] /\ \A k \in Jobs : OutcomeKept(k)
  <2>1. "stale" \in Dispatch /\ row' = [row EXCEPT ![j].dispatched = "stale"]
    BY <1>2 DEF AgeDispatch, Dispatch
  <2>2. QED
    BY <2>1, RowMarked DEF SafetyInv
<1>3. CASE UNCHANGED row
  BY <1>3 DEF OutcomeKept, SafetyInv, TypeOK
<1>4. QED
  BY <1>1, <1>2, <1>3 DEF AbandonRecovery, PublishRecovered, LoseMessages

\* The recovery scan, the clock and the broker touch dispatched_at and messages.
LEMMA DispatchSafe ==
  ASSUME SafetyInv,
         \/ ClaimRecovery \/ AbandonRecovery
         \/ \E j \in Jobs : PublishRecovered(j) \/ AgeDispatch(j) \/ LoseMessages(j)
  PROVE  SafetyInv'
<1>1. UNCHANGED <<stores, submitting, lock, cut, pc, cur, tx>>
  BY DEF ClaimRecovery, AbandonRecovery, PublishRecovered, AgeDispatch,
         LoseMessages, worker
<1>2. row' \in [Jobs -> RowType] /\ \A k \in Jobs : OutcomeKept(k)
  BY DispatchRows
<1>3. queue' \subseteq Jobs /\ recovering' \subseteq Jobs
  BY DEF SafetyInv, TypeOK, ClaimRecovery, AbandonRecovery, PublishRecovered,
         AgeDispatch, LoseMessages
<1>4. TypeOK' /\ StoredRaw'
  BY <1>1, <1>2, <1>3 DEF SafetyInv, TypeOK, StoredRaw, stores
<1>5. QED
  BY <1>1, <1>2, <1>4, RowsKeptSafe DEF stores
-----------------------------------------------------------------------------
(* The worker's steps.                                                     *)

\* What a step of w leaves to the other workers.
Frame(w) ==
  \A v \in Workers \ {w} :
    /\ pc'[v] = pc[v] /\ cur'[v] = cur[v] /\ tx'[v] = tx[v]
    /\ v \in cut' <=> v \in cut
    /\ cur[v] \in Jobs /\ lock[cur[v]] = v => lock'[cur[v]] = v

\* A step of w that leaves the rows alone is safe if w itself stays sound.
LEMMA StepSafe ==
  ASSUME SafetyInv, TypeOK', NEW w \in Workers, WorkerSound(w)', Frame(w),
         UNCHANGED <<row, normalized, submitting>>, raw \subseteq raw'
  PROVE  SafetyInv'
<1>1. ASSUME NEW v \in Workers \ {w} PROVE WorkerSound(v)'
  <2>1. RunBudget(v) /\ cur'[v] = cur[v] => RunBudget(v)'
    BY DEF RunBudget
  <2>2. QED
    BY <2>1, OtherWorkerSound DEF SafetyInv, Frame
<1>2. StoredRaw' /\ CheckpointSound' /\ BudgetSpentOnFailure'
  BY DEF SafetyInv, StoredRaw, CheckpointSound, BudgetSpentOnFailure
<1>3. QED
  BY <1>1, <1>2 DEF SafetyInv

\* A message is received: nothing is known of the job but its identity.
LEMMA ReceiveSafe ==
  ASSUME SafetyInv, NEW w \in Workers, NEW j \in Jobs, Receive(w, j)
  PROVE  SafetyInv'
<1>1. TypeOK'
  BY DEF SafetyInv, TypeOK, Receive, GoTo, Controls, stores
<1>2. w \notin cut
  BY DEF SafetyInv, WorkerSound, Receive, Running
<1>3. WorkerSound(w)'
  BY <1>2 DEF SafetyInv, TypeOK, Receive, GoTo, WorkerSound, TxSound, Running
<1>4. Frame(w)
  BY DEF SafetyInv, TypeOK, Receive, GoTo, Frame
<1>5. QED
  BY <1>1, <1>3, <1>4, StepSafe DEF Receive, stores

\* pg_try_advisory_lock: the lock was free, so it is taken from nobody.
LEMMA AcquireSafe ==
  ASSUME SafetyInv, NEW w \in Workers, Acquire(w)
  PROVE  SafetyInv'
<1>1. cur[w] \in Jobs /\ w \notin cut
  BY DEF SafetyInv, WorkerSound, Acquire, Running
<1>2. TypeOK'
  BY <1>1 DEF SafetyInv, TypeOK, Acquire, GoTo, Controls, stores
<1>3. WorkerSound(w)'
  BY <1>1 DEF SafetyInv, TypeOK, Acquire, GoTo, WorkerSound, TxSound, Running
<1>4. Frame(w)
  BY <1>1 DEF SafetyInv, TypeOK, Acquire, GoTo, Frame
<1>5. QED
  BY <1>2, <1>3, <1>4, StepSafe DEF Acquire, stores

\* The end of a task leaves a worker with nothing to be unsound about.
LEMMA IdleSound ==
  ASSUME TypeOK, NEW w \in Workers, ToIdle(w)
  PROVE  /\ WorkerSound(w)'
         /\ pc' \in [Workers -> Controls] /\ cur' \in [Workers -> Jobs \cup {None}]
         /\ tx' \in [Workers -> TxType] /\ cut' \subseteq Workers
         /\ \A v \in Workers \ {w} :
              /\ pc'[v] = pc[v] /\ cur'[v] = cur[v] /\ tx'[v] = tx[v]
              /\ v \in cut' <=> v \in cut
<1>1. NoTx \in TxType
  BY DEF NoTx, TxType, Errors
<1>2. QED
  BY <1>1 DEF TypeOK, ToIdle, GoTo, WorkerSound, TxSound, Running, Controls

\* A rollback leaves a worker that only has an error to record.
LEMMA RollbackSound ==
  ASSUME TypeOK, NEW w \in Workers, Rollback(w), cur' = cur, cur[w] \in Jobs
  PROVE  /\ WorkerSound(w)'
         /\ pc' \in [Workers -> Controls]
         /\ tx' \in [Workers -> TxType] /\ cut' \subseteq Workers
         /\ \A v \in Workers \ {w} :
              /\ pc'[v] = pc[v] /\ tx'[v] = tx[v]
              /\ v \in cut' <=> v \in cut
<1>1. NoTx \in TxType
  BY DEF NoTx, TxType, Errors
<1>2. QED
  BY <1>1 DEF TypeOK, Rollback, GoTo, WorkerSound, TxSound, Running, Controls

\* Releasing a lock frees the worker's own lock and nobody else's.
LEMMA ReleaseFrame ==
  ASSUME TypeOK, NEW w \in Workers, ReleaseLock(w)
  PROVE  /\ lock' \in [Jobs -> Workers \cup {None}]
         /\ \A v \in Workers \ {w} :
              cur[v] \in Jobs /\ lock[cur[v]] = v => lock'[cur[v]] = v
BY DEF TypeOK, ReleaseLock

\* The ends of a task: busy, requeue, unlock and a crash.
LEMMA EndSafe ==
  ASSUME SafetyInv, NEW w \in Workers, ToIdle(w),
         lock' = lock \/ ReleaseLock(w), queue' \subseteq Jobs,
         UNCHANGED <<row, stores, submitting, recovering>>
  PROVE  SafetyInv'
<1>1. lock' \in [Jobs -> Workers \cup {None}]
  BY ReleaseFrame DEF SafetyInv, TypeOK
<1>2. TypeOK'
  BY <1>1, IdleSound DEF SafetyInv, TypeOK, stores
<1>3. Frame(w)
  BY IdleSound, ReleaseFrame DEF SafetyInv, Frame
<1>4. QED
  BY <1>2, <1>3, IdleSound, StepSafe DEF SafetyInv, stores

\* process_ingestion ends a task: the worker is idle again and holds nothing.
LEMMA TaskEndSafe ==
  ASSUME SafetyInv, NEW w \in Workers, Busy(w) \/ Requeue(w) \/ Crash(w)
  PROVE  SafetyInv'
<1>1. cur[w] \in Jobs
  BY DEF SafetyInv, WorkerSound, Busy, Requeue, Crash
<1>2. queue' \subseteq Jobs
  BY <1>1 DEF SafetyInv, TypeOK, Busy, Requeue, Crash
<1>3. QED
  BY <1>2, EndSafe DEF Busy, Requeue, Crash, stores

\* The finally clause of run_job.
LEMMA UnlockSafe ==
  ASSUME SafetyInv, NEW w \in Workers, Unlock(w)
  PROVE  SafetyInv'
<1>1. CASE tx[w].state = "retrying"
  <2>1. TypeOK'
    BY <1>1, ReleaseFrame DEF SafetyInv, TypeOK, Unlock, GoTo, Controls, stores
  <2>2. WorkerSound(w)'
    BY <1>1 DEF SafetyInv, TypeOK, Unlock, GoTo, WorkerSound, TxSound, Running
  <2>3. Frame(w)
    BY <1>1, ReleaseFrame DEF SafetyInv, TypeOK, Unlock, GoTo, Frame
  <2>4. QED
    BY <2>1, <2>2, <2>3, StepSafe DEF Unlock, stores
<1>2. CASE tx[w].state # "retrying"
  BY <1>2, EndSafe DEF Unlock, SafetyInv, TypeOK
<1>3. QED
  BY <1>1, <1>2

\* A step inside the run's transaction: w moves on with another job value.
LEMMA TxStepSafe ==
  ASSUME SafetyInv, NEW w \in Workers, NEW c \in Controls, NEW t \in TxType,
         GoTo(w, c), tx' = [tx EXCEPT ![w] = t],
         UNCHANGED <<row, normalized, queue, submitting, recovering, lock, cut, cur>>,
         raw \subseteq raw', raw' \subseteq Jobs, indexed' \subseteq Jobs,
         WorkerSound(w)'
  PROVE  SafetyInv'
<1>1. TypeOK'
  BY DEF SafetyInv, TypeOK, GoTo
<1>2. Frame(w)
  BY DEF SafetyInv, TypeOK, GoTo, Frame
<1>3. QED
  BY <1>1, <1>2, StepSafe

\* The job is read without a lock, but by the one worker that may run it.
LEMMA LoadSafe ==
  ASSUME SafetyInv, NEW w \in Workers, Load(w)
  PROVE  SafetyInv'
<1> DEFINE r == row[cur[w]]
           t == [state |-> r.state, attempts |-> r.attempts,
                 error |-> r.error, resume |-> r.resume, parsed |-> FALSE]
<1>1. cur[w] \in Jobs /\ cur[w] \in raw /\ w \notin cut
  BY DEF SafetyInv, WorkerSound, Load
<1>2. t \in TxType
  BY <1>1, RowFields DEF SafetyInv, TypeOK, TxType
<1>3. /\ r.state \notin Stage /\ r.error # "worker_lost"
      /\ r.resume = "indexing" /\ r.state = "retrying" => cur[w] \in normalized
  BY <1>1 DEF SafetyInv, CheckpointSound, WorkerSound, RunBudget, Load, Running
<1>4. /\ "loaded" \in Controls /\ GoTo(w, "loaded") /\ tx' = [tx EXCEPT ![w] = t]
      /\ UNCHANGED <<row, stores, queue, submitting, recovering, lock, cut, cur>>
  BY DEF Load, Controls, Running
<1>5. tx'[w] = t /\ pc'[w] = "loaded" /\ RunBudget(w) /\ lock[cur[w]] = w
  BY <1>1, <1>4 DEF SafetyInv, TypeOK, WorkerSound, GoTo, Load, Running
<1>6. /\ t.state = r.state /\ t.error = r.error /\ t.resume = r.resume
  OBVIOUS
<1> HIDE DEF r, t
<1>7. WorkerSound(w)'
  BY <1>1, <1>3, <1>4, <1>5, <1>6
     DEF WorkerSound, TxSound, RunBudget, Normalized, Running, stores
<1>8. QED
  BY <1>2, <1>4, <1>7, TxStepSafe DEF SafetyInv, TypeOK, stores

\* The first transition enters a stage whose input is there.
LEMMA BeginRunSafe ==
  ASSUME SafetyInv, NEW w \in Workers, BeginRun(w)
  PROVE  SafetyInv'
<1>1. /\ cur[w] \in Jobs /\ w \notin cut /\ tx[w] \in TxType
      /\ lock[cur[w]] = w /\ RunBudget(w) /\ pc[w] = "loaded" /\ cur[w] \in raw
      /\ tx[w].error # "worker_lost"
      /\ tx[w].resume = "indexing" /\ tx[w].state = "retrying" => Normalized(w)
  BY DEF SafetyInv, TypeOK, WorkerSound, TxSound, BeginRun, Running
<1>2. UNCHANGED <<row, stores, queue, submitting, recovering, lock, cut, cur>>
  BY DEF BeginRun
<1>3. CASE GoTo(w, "unlock") /\ UNCHANGED tx
  <2>1. TypeOK' /\ Frame(w)
    BY <1>2, <1>3 DEF SafetyInv, TypeOK, GoTo, Controls, Frame, stores
  <2>2. WorkerSound(w)'
    BY <1>1, <1>2, <1>3 DEF SafetyInv, TypeOK, GoTo, WorkerSound, TxSound, Running
  <2>3. QED
    BY <1>2, <2>1, <2>2, StepSafe DEF stores
<1>4. CASE /\ tx[w].state = "queued" \/ (tx[w].state = "retrying" /\ tx[w].resume # "none")
           /\ tx' = [tx EXCEPT ![w] = Resumed(@)]
           /\ GoTo(w, "running")
  <2> DEFINE t == Resumed(tx[w])
  <2>1. /\ t \in TxType /\ t.state \in Stage /\ t.parsed = tx[w].parsed
        /\ t.error # "worker_lost"
        /\ t.state = "indexing" => Normalized(w)
    BY <1>1, <1>4, ResumedType, ResumedFacts
  <2>2. tx' = [tx EXCEPT ![w] = t] /\ "running" \in Controls
    BY <1>4 DEF Controls, Running
  <2> HIDE DEF t
  <2>3. tx'[w] = t /\ pc'[w] = "running"
    BY <1>4, <2>2 DEF SafetyInv, TypeOK, GoTo
  <2>4. Normalized(w) => Normalized(w)'
    BY <1>2, <2>1, <2>3, Zenon DEF Normalized, stores
  <2>5. t.state = "indexing" => Normalized(w)'
    BY <2>1, <2>4
  <2>6. WorkerSound(w)'
    BY <1>1, <1>2, <2>1, <2>3, <2>5 DEF WorkerSound, TxSound, RunBudget, Running, stores
  <2>7. QED
    BY <1>2, <1>4, <2>1, <2>2, <2>6, TxStepSafe DEF SafetyInv, TypeOK, stores
<1>5. QED
  BY <1>3, <1>4, Zenon DEF BeginRun

\* What the invariant says of a worker whose pipeline is in a stage.
LEMMA RunningFacts ==
  ASSUME SafetyInv, NEW w \in Workers, pc[w] \in {"running", "upserting"}
  PROVE  /\ cur[w] \in Jobs /\ tx[w] \in TxType /\ cur[w] \in raw
         /\ tx[w].error # "worker_lost" /\ tx[w].state \in Stage
         /\ tx[w].state = "indexing" => Normalized(w)
         /\ pc[w] = "upserting" => tx[w].state = "indexing"
         /\ w \notin cut => lock[cur[w]] = w /\ RunBudget(w)
BY DEF SafetyInv, TypeOK, WorkerSound, TxSound, Running

\* A failed stage leaves a checkpoint that is sound once the run commits.
LEMMA FailedStageSound ==
  ASSUME SafetyInv, NEW w \in Workers, pc[w] \in {"running", "upserting"}, w \notin cut,
         tx' = [tx EXCEPT ![w] = FailedAttempt(@)], GoTo(w, "finishing"),
         UNCHANGED <<row, raw, normalized, queue, submitting, recovering, lock, cut, cur>>,
         indexed' \subseteq Jobs
  PROVE  SafetyInv'
<1> DEFINE t == FailedAttempt(tx[w])
<1>1. /\ t \in TxType /\ t.state \in {"failed", "retrying"} /\ t.error # "worker_lost"
      /\ t.parsed = tx[w].parsed
      /\ t.state = "failed" => t.attempts >= MaxDeliveries
      /\ t.state = "retrying" => t.resume = tx[w].state
  BY RunningFacts, FailedAttemptType, FailedAttemptFacts
<1>2. tx' = [tx EXCEPT ![w] = t] /\ "finishing" \in Controls
  BY DEF Controls, Running
<1> HIDE DEF t
<1>3. tx'[w] = t /\ pc'[w] = "finishing"
  BY <1>2 DEF SafetyInv, TypeOK, GoTo
<1>4. t.state = "retrying" => t.resume # "none" /\ (t.resume = "indexing" => Normalized(w))
  BY <1>1, RunningFacts DEF Stage
<1>5. Normalized(w) => Normalized(w)'
  BY <1>1, <1>3, Zenon DEF Normalized
<1>6. t.state = "retrying" => t.resume # "none" /\ (t.resume = "indexing" => Normalized(w)')
  BY <1>4, <1>5
<1>7. WorkerSound(w)'
  BY <1>1, <1>3, <1>6, RunningFacts DEF WorkerSound, TxSound, RunBudget, Running, Terminal
<1>8. QED
  BY <1>1, <1>2, <1>7, TxStepSafe DEF SafetyInv, TypeOK

\* Fetch, parse and the way to the index: each stage leaves what the next needs.
LEMMA StagesSafe ==
  ASSUME SafetyInv, NEW w \in Workers,
         StageFails(w) \/ Fetch(w) \/ Parse(w) \/ Upsert(w)
  PROVE  SafetyInv'
<1>1. /\ pc[w] = "running" /\ w \notin cut
      /\ UNCHANGED <<row, normalized, indexed, queue, submitting, recovering, lock, cut, cur>>
  BY DEF StageFails, Fetch, Parse, Upsert, stores
<1>2. CASE StageFails(w)
  BY <1>1, <1>2, FailedStageSound DEF StageFails, stores, SafetyInv, TypeOK
<1>3. CASE Fetch(w)
  <2> DEFINE t == [tx[w] EXCEPT !.state = "parsing"]
  <2>1. t \in TxType /\ t.state = "parsing" /\ t.error = tx[w].error
    BY <1>1, RunningFacts, TxMoved DEF TxType, JobState, Stage
  <2>2. tx' = [tx EXCEPT ![w] = t] /\ pc' = pc /\ raw' = raw \cup {cur[w]}
    BY <1>3 DEF Fetch
  <2> HIDE DEF t
  <2>3. tx'[w] = t /\ GoTo(w, "running") /\ "running" \in Controls
    BY <1>1, <2>2 DEF SafetyInv, TypeOK, GoTo, Controls, Running
  <2>4. raw' \subseteq Jobs
    BY <1>1, <2>2, RunningFacts DEF SafetyInv, TypeOK
  <2>5. WorkerSound(w)'
    BY <1>1, <2>1, <2>2, <2>3, RunningFacts
       DEF WorkerSound, TxSound, RunBudget, Running, Stage
  <2>6. QED
    BY <1>1, <2>1, <2>2, <2>3, <2>4, <2>5, TxStepSafe DEF SafetyInv, TypeOK
<1>4. CASE Parse(w)
  <2> DEFINE t == [tx[w] EXCEPT !.state = "indexing", !.parsed = TRUE]
  <2>1. t \in TxType /\ t.state = "indexing" /\ t.error = tx[w].error /\ t.parsed
    BY <1>1, RunningFacts, TxMoved DEF TxType, JobState, Stage
  <2>2. tx' = [tx EXCEPT ![w] = t] /\ pc' = pc /\ raw' = raw \cup {cur[w]}
    BY <1>4 DEF Parse
  <2> HIDE DEF t
  <2>3. tx'[w] = t /\ GoTo(w, "running") /\ "running" \in Controls
    BY <1>1, <2>2 DEF SafetyInv, TypeOK, GoTo, Controls, Running
  <2>4. raw' \subseteq Jobs
    BY <1>1, <2>2, RunningFacts DEF SafetyInv, TypeOK
  <2>5. Normalized(w)'
    BY <2>1, <2>3, Zenon DEF Normalized
  <2>6. WorkerSound(w)'
    BY <1>1, <2>1, <2>2, <2>3, <2>5, RunningFacts
       DEF WorkerSound, TxSound, RunBudget, Running, Stage
  <2>7. QED
    BY <1>1, <2>1, <2>2, <2>3, <2>4, <2>6, TxStepSafe DEF SafetyInv, TypeOK
<1>5. CASE Upsert(w)
  <2>1. /\ GoTo(w, "upserting") /\ "upserting" \in Controls /\ tx' = tx /\ raw' = raw
        /\ tx' = [tx EXCEPT ![w] = tx[w]] /\ tx[w].state = "indexing"
    BY <1>5 DEF Upsert, Controls, Running, SafetyInv, TypeOK, stores
  <2>2. pc'[w] = "upserting"
    BY <2>1 DEF SafetyInv, TypeOK, GoTo
  <2>3. WorkerSound(w)'
    BY <1>1, <2>1, <2>2, RunningFacts
       DEF WorkerSound, TxSound, RunBudget, Normalized, Running
  <2>4. QED
    BY <1>1, <2>1, <2>3, RunningFacts, TxStepSafe DEF SafetyInv, TypeOK
<1>6. QED
  BY <1>2, <1>3, <1>4, <1>5

\* A rollback outside the index call: only what the stages stored stays behind.
LEMMA RollbackSafe ==
  ASSUME SafetyInv, NEW w \in Workers, Rollback(w), cur[w] \in Jobs,
         indexed' \subseteq Jobs,
         UNCHANGED <<row, raw, normalized, queue, submitting, recovering, lock, cur>>
  PROVE  SafetyInv'
<1>1. TypeOK' /\ WorkerSound(w)'
  BY RollbackSound DEF SafetyInv, TypeOK
<1>2. Frame(w)
  BY RollbackSound DEF SafetyInv, Frame
<1>3. QED
  BY <1>1, <1>2, StepSafe

\* The index answers: on a lost session the run can only roll back.
LEMMA IndexedSafe ==
  ASSUME SafetyInv, NEW w \in Workers, UpsertDone(w) \/ UpsertFails(w)
  PROVE  SafetyInv'
<1>1. /\ pc[w] = "upserting" /\ cur[w] \in Jobs
      /\ UNCHANGED <<row, raw, normalized, queue, submitting, recovering, lock, cur>>
  BY DEF UpsertDone, UpsertFails, SafetyInv, WorkerSound
<1>2. indexed' \subseteq Jobs
  BY <1>1 DEF UpsertDone, UpsertFails, SafetyInv, TypeOK
<1>3. CASE w \in cut
  BY <1>1, <1>2, <1>3, RollbackSafe DEF UpsertDone, UpsertFails
<1>4. CASE w \notin cut /\ UpsertFails(w)
  BY <1>1, <1>2, <1>4, FailedStageSound DEF UpsertFails
<1>5. CASE w \notin cut /\ UpsertDone(w)
  <2> DEFINE t == [tx[w] EXCEPT !.state = "completed"]
  <2>1. /\ t \in TxType /\ t.state = "completed" /\ t.error = tx[w].error
        /\ t.parsed = tx[w].parsed
    BY <1>1, RunningFacts, TxMoved DEF TxType, JobState, Terminal
  <2>2. /\ tx' = [tx EXCEPT ![w] = t] /\ GoTo(w, "finishing") /\ UNCHANGED cut
        /\ "finishing" \in Controls
    BY <1>5 DEF UpsertDone, Controls, Running
  <2> HIDE DEF t
  <2>3. tx'[w] = t /\ pc'[w] = "finishing"
    BY <2>2 DEF SafetyInv, TypeOK, GoTo
  <2>4. Normalized(w)
    BY <1>1, RunningFacts
  <2>5. Normalized(w)'
    BY <1>1, <2>1, <2>3, <2>4, Zenon DEF Normalized
  <2>6. WorkerSound(w)'
    BY <1>1, <1>5, <2>1, <2>2, <2>3, <2>5, RunningFacts
       DEF WorkerSound, TxSound, RunBudget, Running, Terminal
  <2>7. QED
    BY <1>1, <1>2, <2>1, <2>2, <2>6, TxStepSafe DEF SafetyInv, TypeOK
<1>6. QED
  BY <1>3, <1>4, <1>5

\* An exception of the run rolls its transaction back and leaves the lock to run_job.
LEMMA RunRaisesSafe ==
  ASSUME SafetyInv, NEW w \in Workers, RunRaises(w)
  PROVE  SafetyInv'
<1>1. cur[w] \in Jobs
  BY DEF SafetyInv, WorkerSound, RunRaises, Running
<1>2. QED
  BY <1>1, RollbackSafe DEF RunRaises, stores, SafetyInv, TypeOK

\* A lost session takes the lock with it; the worker is cut off, not others.
LEMMA LoseSessionSafe ==
  ASSUME SafetyInv, NEW w \in Workers, LoseSession(w)
  PROVE  SafetyInv'
<1>1. TypeOK'
  BY ReleaseFrame DEF SafetyInv, TypeOK, LoseSession, stores
<1>2. WorkerSound(w)'
  BY DEF SafetyInv, LoseSession, WorkerSound, TxSound, Normalized, stores
<1>3. Frame(w)
  BY ReleaseFrame DEF SafetyInv, LoseSession, Frame
<1>4. QED
  BY <1>1, <1>2, <1>3, StepSafe DEF LoseSession, stores

\* A step of w that writes the row of its job is safe if the new row is sound
\* and does not end the budget of another worker's run.
LEMMA RowStepSafe ==
  ASSUME SafetyInv, TypeOK', NEW w \in Workers, cur[w] \in Jobs, NEW r \in RowType,
         row' = [row EXCEPT ![cur[w]] = r], normalized \subseteq normalized',
         UNCHANGED <<raw, submitting>>, WorkerSound(w)', Frame(w),
         r.state # "absent" => cur[w] \in raw,
         r.state \notin Stage,
         r.state = "retrying" =>
           r.resume # "none" /\ (r.resume = "indexing" => cur[w] \in normalized'),
         r.state = "failed" => \/ r.attempts >= MaxDeliveries
                               \/ r.deliveries >= MaxDeliveries,
         r.deliveries <= MaxDeliveries + 1,
         r.deliveries = MaxDeliveries + 1 <=> r.error = "worker_lost",
         r.error = "worker_lost" => r.state = "failed",
         \A v \in Workers \ {w} :
           pc[v] \in Running /\ v \notin cut /\ cur[v] = cur[w] /\ RunBudget(v)
             => r.deliveries <= MaxDeliveries /\ r.error # "worker_lost"
  PROVE  SafetyInv'
<1>1. ASSUME NEW v \in Workers \ {w} PROVE WorkerSound(v)'
  <2>1. pc[v] \in Running => cur[v] \in Jobs
    BY DEF SafetyInv, WorkerSound, Running
  <2>2. pc[v] \in Running /\ v \notin cut /\ RunBudget(v) => RunBudget(v)'
    BY <2>1 DEF RunBudget, Frame, SafetyInv, TypeOK
  <2>3. QED
    BY <2>2, OtherWorkerSound DEF SafetyInv, Frame
<1>2. StoredRaw'
  BY DEF SafetyInv, StoredRaw
<1>3. \A j \in Jobs : row'[j] = IF j = cur[w] THEN r ELSE row[j]
  BY DEF SafetyInv, TypeOK
<1>4. CheckpointSound'
  BY <1>3 DEF SafetyInv, CheckpointSound
<1>5. BudgetSpentOnFailure'
  BY <1>3 DEF SafetyInv, BudgetSpentOnFailure
<1>6. QED
  BY <1>1, <1>2, <1>4, <1>5 DEF SafetyInv

\* claim_delivery: the lock excludes every other run of the job, so the claim
\* that spends the budget ends nobody's run.
LEMMA ClaimSafe ==
  ASSUME SafetyInv, NEW w \in Workers, Claim(w)
  PROVE  SafetyInv'
<1> DEFINE r == ClaimedRow(row[cur[w]])
<1>1. /\ cur[w] \in Jobs /\ row[cur[w]] \in RowType /\ w \notin cut
      /\ lock[cur[w]] = w /\ tx[w] \in TxType
  BY DEF SafetyInv, TypeOK, WorkerSound, Claim, Running
<1>2. r \in RowType
  BY <1>1, ClaimedRowType
<1>3. [tx[w] EXCEPT !.state = r.state] \in TxType
  BY <1>1, <1>2, RowFields, TxMoved
<1>4. /\ row[cur[w]].deliveries \in Nat
      /\ Open(row[cur[w]]) => row[cur[w]].deliveries <= MaxDeliveries
  BY <1>1, RowFields DEF SafetyInv, BudgetSpentOnFailure, Open, Terminal
<1>5. Open(r) => r.deliveries <= MaxDeliveries /\ r.error # "worker_lost"
  <2>1. CASE Open(row[cur[w]])
    BY <1>1, <1>4, <2>1, ClaimedRowFacts
       DEF SafetyInv, BudgetSpentOnFailure, Open, Terminal
  <2>2. CASE ~Open(row[cur[w]])
    BY <2>2 DEF ClaimedRow
  <2>3. QED
    BY <2>1, <2>2
<1>6. /\ r.state # "absent" => cur[w] \in raw
      /\ r.state \notin Stage
      /\ r.state = "retrying" =>
           r.resume # "none" /\ (r.resume = "indexing" => cur[w] \in normalized)
  <2>1. CASE Open(row[cur[w]])
    BY <1>1, <1>4, <2>1, ClaimedRowFacts
       DEF SafetyInv, CheckpointSound, Open, Terminal, Stage
  <2>2. CASE ~Open(row[cur[w]])
    BY <1>1, <2>2 DEF ClaimedRow, SafetyInv, CheckpointSound
  <2>3. QED
    BY <2>1, <2>2
<1>7. /\ r.state = "failed" => \/ r.attempts >= MaxDeliveries
                               \/ r.deliveries >= MaxDeliveries
      /\ r.deliveries <= MaxDeliveries + 1
      /\ r.deliveries = MaxDeliveries + 1 <=> r.error = "worker_lost"
      /\ r.error = "worker_lost" => r.state = "failed"
  <2>1. CASE Open(row[cur[w]])
    BY <1>1, <1>4, <2>1, ClaimedRowFacts
       DEF SafetyInv, BudgetSpentOnFailure, Open, Terminal
  <2>2. CASE ~Open(row[cur[w]])
    BY <1>1, <2>2 DEF ClaimedRow, SafetyInv, BudgetSpentOnFailure
  <2>3. QED
    BY <2>1, <2>2
<1>8. \A v \in Workers \ {w} : ~(pc[v] \in Running /\ v \notin cut /\ cur[v] = cur[w])
  BY <1>1 DEF SafetyInv, WorkerSound
<1> DEFINE c == IF Open(r) THEN "claimed" ELSE "unlock"
<1>9. /\ row' = [row EXCEPT ![cur[w]] = r] /\ GoTo(w, c) /\ c \in Controls
      /\ tx' = [tx EXCEPT ![w] = [tx[w] EXCEPT !.state = r.state]]
      /\ UNCHANGED <<stores, queue, submitting, recovering, lock, cut, cur>>
  BY DEF Claim, Controls, Running
<1>10. c = "unlock" \/ (c = "claimed" /\ Open(r))
  OBVIOUS
<1> HIDE DEF r, c
<1>11. TypeOK' /\ Frame(w)
  BY <1>2, <1>3, <1>9 DEF SafetyInv, TypeOK, GoTo, Frame, stores
<1>12. pc'[w] = c /\ row'[cur[w]] = r
  BY <1>1, <1>9 DEF SafetyInv, TypeOK, GoTo
<1>13. WorkerSound(w)'
  BY <1>1, <1>5, <1>9, <1>10, <1>12 DEF WorkerSound, TxSound, RunBudget, Running, stores
<1>14. QED
  BY <1>1, <1>2, <1>6, <1>7, <1>8, <1>9, <1>11, <1>13, RowStepSafe DEF stores

\* What the end of a run writes is a sound row, whoever else touched it before.
LEMMA SavedRunSafe ==
  ASSUME SafetyInv, TypeOK', NEW w \in Workers, pc[w] = "finishing", w \notin cut,
         SaveRun(w), UNCHANGED <<raw, submitting>>, WorkerSound(w)', Frame(w)
  PROVE  SafetyInv'
<1> DEFINE r == Saved(row[cur[w]], tx[w])
<1>1. /\ cur[w] \in Jobs /\ cur[w] \in raw /\ row[cur[w]] \in RowType /\ tx[w] \in TxType
      /\ row[cur[w]].deliveries \in Nat /\ row[cur[w]].deliveries <= MaxDeliveries
      /\ tx[w].error # "worker_lost" /\ tx[w].state \in Terminal \cup {"retrying"}
      /\ tx[w].state = "failed" => tx[w].attempts >= MaxDeliveries
      /\ tx[w].state = "retrying" =>
           tx[w].resume # "none" /\ (tx[w].resume = "indexing" => Normalized(w))
  BY RowFields DEF SafetyInv, TypeOK, WorkerSound, TxSound, RunBudget, Running
<1>2. /\ r \in RowType /\ r.state = tx[w].state /\ r.attempts = tx[w].attempts
      /\ r.error = tx[w].error /\ r.resume = tx[w].resume
      /\ r.deliveries = row[cur[w]].deliveries
  BY <1>1, SavedType, SavedFacts
<1>3. row' = [row EXCEPT ![cur[w]] = r]
  BY DEF SaveRun
<1>4. normalized \subseteq normalized' /\ (Normalized(w) => cur[w] \in normalized')
  BY DEF SaveRun, Normalized
<1> HIDE DEF r
<1>5. /\ r.state \notin Stage
      /\ r.state = "retrying" =>
           r.resume # "none" /\ (r.resume = "indexing" => cur[w] \in normalized')
  BY <1>1, <1>2, <1>4 DEF Terminal, Stage
<1>6. /\ r.state = "failed" => r.attempts >= MaxDeliveries
      /\ r.deliveries <= MaxDeliveries /\ r.deliveries # MaxDeliveries + 1
      /\ r.deliveries <= MaxDeliveries + 1 /\ r.error # "worker_lost"
  BY <1>1, <1>2
<1>7. QED
  BY <1>1, <1>2, <1>3, <1>4, <1>5, <1>6, RowStepSafe

\* The run's transaction commits: its job value becomes the row.
LEMMA CommitSafe ==
  ASSUME SafetyInv, NEW w \in Workers, Commit(w)
  PROVE  SafetyInv'
<1>1. cur[w] \in Jobs /\ row[cur[w]] \in RowType /\ tx[w] \in TxType
  BY DEF SafetyInv, TypeOK, WorkerSound, Commit
<1>2. row' \in [Jobs -> RowType] /\ normalized' \subseteq Jobs
  BY <1>1, SavedType DEF Commit, SaveRun, SafetyInv, TypeOK
<1>3. TypeOK' /\ Frame(w)
  BY <1>2 DEF SafetyInv, TypeOK, Commit, GoTo, Controls, Frame
<1>4. WorkerSound(w)'
  BY <1>1 DEF SafetyInv, TypeOK, Commit, GoTo, WorkerSound, TxSound, Running
<1>5. QED
  BY <1>3, <1>4, SavedRunSafe DEF Commit

\* The row is committed although the worker goes on to record an error.
LEMMA LoseCommitSafe ==
  ASSUME SafetyInv, NEW w \in Workers, LoseCommit(w)
  PROVE  SafetyInv'
<1>1. cur[w] \in Jobs /\ row[cur[w]] \in RowType /\ tx[w] \in TxType
  BY DEF SafetyInv, TypeOK, WorkerSound, LoseCommit
<1>2. row' \in [Jobs -> RowType] /\ normalized' \subseteq Jobs
  BY <1>1, SavedType DEF LoseCommit, SaveRun, SafetyInv, TypeOK
<1>3. TypeOK' /\ WorkerSound(w)'
  BY <1>1, <1>2, RollbackSound, ReleaseFrame DEF SafetyInv, TypeOK, LoseCommit
<1>4. Frame(w)
  BY <1>1, RollbackSound, ReleaseFrame DEF SafetyInv, Frame, LoseCommit
<1>5. QED
  BY <1>3, <1>4, SavedRunSafe DEF LoseCommit

\* record_worker_error: it may run without the lock, so beside another run.
LEMMA RecordErrorSafe ==
  ASSUME SafetyInv, NEW w \in Workers, RecordError(w)
  PROVE  SafetyInv'
<1> DEFINE old == row[cur[w]]
           r   == ErrorRow(old)
<1>1. /\ cur[w] \in Jobs /\ old \in RowType /\ tx[w] \in TxType /\ w \notin cut
      /\ pc[w] = "error"
  BY DEF SafetyInv, TypeOK, WorkerSound, RecordError, Running
<1>2. /\ old.state \notin Stage
      /\ old.state # "absent" => cur[w] \in raw
      /\ old.state = "retrying" =>
           old.resume # "none" /\ (old.resume = "indexing" => cur[w] \in normalized)
  BY <1>1 DEF SafetyInv, CheckpointSound
<1>3. /\ old.state = "failed" => \/ old.attempts >= MaxDeliveries
                                 \/ old.deliveries >= MaxDeliveries
      /\ old.deliveries <= MaxDeliveries + 1
      /\ old.deliveries = MaxDeliveries + 1 <=> old.error = "worker_lost"
      /\ old.error = "worker_lost" => old.state = "failed"
  BY <1>1 DEF SafetyInv, BudgetSpentOnFailure
<1>4. r \in RowType /\ [tx[w] EXCEPT !.state = r.state] \in TxType
  BY <1>1, ErrorRowType, RowFields, TxMoved
<1>5. ~Open(old) => r = old
  BY Zenon DEF ErrorRow
<1>6. Open(old) =>
      /\ r.deliveries = old.deliveries /\ r.error = "worker_internal"
      /\ r.state \in {"failed", "retrying"}
      /\ r.state = "failed" => \/ r.attempts >= MaxDeliveries
                               \/ r.deliveries >= MaxDeliveries
      /\ r.resume \in Stage
      /\ r.resume = "indexing" => old.state = "retrying" /\ old.resume = "indexing"
  BY <1>1, <1>2, ErrorRowFacts
<1>7. Open(old) => old.state # "absent" /\ old.state # "failed"
  BY DEF Open, Terminal
<1>8. /\ row' = [row EXCEPT ![cur[w]] = r] /\ GoTo(w, "unlock") /\ "unlock" \in Controls
      /\ tx' = [tx EXCEPT ![w] = [tx[w] EXCEPT !.state = r.state]]
      /\ UNCHANGED <<stores, queue, submitting, recovering, lock, cut, cur>>
  BY DEF RecordError, Controls
<1>9. \A v \in Workers : cur[v] = cur[w] /\ RunBudget(v) =>
        old.deliveries <= MaxDeliveries /\ old.error # "worker_lost"
  BY DEF RunBudget
<1> HIDE DEF old, r
<1>10. TypeOK' /\ Frame(w)
  BY <1>4, <1>8 DEF SafetyInv, TypeOK, GoTo, Frame, stores
<1>11. pc'[w] = "unlock"
  BY <1>8 DEF SafetyInv, TypeOK, GoTo
<1>12. WorkerSound(w)'
  BY <1>1, <1>8, <1>11 DEF WorkerSound, TxSound, Running
<1>13. /\ r.state # "absent" => cur[w] \in raw
       /\ r.state \notin Stage
       /\ r.state = "retrying" =>
            r.resume # "none" /\ (r.resume = "indexing" => cur[w] \in normalized)
  BY <1>2, <1>5, <1>6, <1>7 DEF Stage
<1>14. /\ r.state = "failed" => \/ r.attempts >= MaxDeliveries
                                \/ r.deliveries >= MaxDeliveries
       /\ r.deliveries <= MaxDeliveries + 1
       /\ r.deliveries = MaxDeliveries + 1 <=> r.error = "worker_lost"
       /\ r.error = "worker_lost" => r.state = "failed"
  BY <1>3, <1>5, <1>6, <1>7
<1>15. \A v \in Workers : cur[v] = cur[w] /\ RunBudget(v) =>
         r.deliveries <= MaxDeliveries /\ r.error # "worker_lost"
  BY <1>5, <1>6, <1>9
<1>16. QED
  BY <1>1, <1>4, <1>8, <1>10, <1>12, <1>13, <1>14, <1>15, RowStepSafe DEF stores

-----------------------------------------------------------------------------
(* Theorems, with or without session loss.                                 *)

\* The invariant is inductive: every action of submitters, recovery, workers,
\* broker and sessions keeps it.
THEOREM SafetyStep == SafetyInv /\ [Next]_vars => SafetyInv'
<1> SUFFICES ASSUME SafetyInv, [Next]_vars PROVE SafetyInv'
  OBVIOUS
<1>1. ASSUME NEW j \in Jobs, Submitter(j) PROVE SafetyInv'
  BY <1>1, SubmitterSafe
<1>2. CASE \/ ClaimRecovery \/ AbandonRecovery
           \/ \E j \in Jobs : PublishRecovered(j) \/ AgeDispatch(j) \/ LoseMessages(j)
  BY <1>2, DispatchSafe
<1>3. ASSUME NEW w \in Workers, NEW j \in Jobs, Receive(w, j) PROVE SafetyInv'
  BY <1>3, ReceiveSafe
<1>4. ASSUME NEW w \in Workers, RunStep(w) PROVE SafetyInv'
  BY <1>4, LoadSafe, BeginRunSafe, StagesSafe, IndexedSafe, CommitSafe,
     RunRaisesSafe, RecordErrorSafe DEF RunStep
<1>5. ASSUME NEW w \in Workers, WorkerStep(w) PROVE SafetyInv'
  BY <1>4, <1>5, AcquireSafe, TaskEndSafe, ClaimSafe, UnlockSafe DEF WorkerStep
<1>6. ASSUME NEW w \in Workers, Crash(w) \/ LoseSession(w) \/ LoseCommit(w)
      PROVE  SafetyInv'
  BY <1>6, TaskEndSafe, LoseSessionSafe, LoseCommitSafe
<1>7. CASE UNCHANGED vars
  <2>1. /\ TypeOK' /\ StoredRaw' /\ CheckpointSound' /\ BudgetSpentOnFailure'
    BY <1>7 DEF vars, stores, worker, SafetyInv, TypeOK, StoredRaw,
                CheckpointSound, BudgetSpentOnFailure
  <2>2. \A w \in Workers : WorkerSound(w)'
    BY <1>7 DEF vars, SafetyInv, WorkerSound, TxSound, RunBudget, Normalized
  <2>3. QED
    BY <2>1, <2>2 DEF SafetyInv
<1>8. QED
  BY <1>1, <1>2, <1>3, <1>5, <1>6, <1>7 DEF Next, Environment

\* In every reachable state, for any number of jobs, workers and deliveries and
\* with or without session loss, locks, jobs and open transactions agree.
THEOREM Safety == Spec => []SafetyInv
BY SafetyInit, SafetyStep, PTL DEF Spec

\* Every variable keeps its type.
THEOREM TypeCorrect == Spec => []TypeOK
<1>1. SafetyInv => TypeOK
  BY DEF SafetyInv
<1>2. QED
  BY <1>1, Safety, PTL

\* The advisory lock excludes a second live run of a job (run_job).
THEOREM Exclusion == Spec => []ExclusiveRun
<1>1. SafetyInv => ExclusiveRun
  BY DEF SafetyInv, ExclusiveRun, WorkerSound
<1>2. QED
  BY <1>1, Safety, PTL

\* Whatever fails, a waiting job has the inputs of its next run (save_job,
\* record_worker_error and update_artifacts in one transaction).
THEOREM Checkpoints == Spec => []CheckpointSound
<1>1. SafetyInv => CheckpointSound
  BY DEF SafetyInv
<1>2. QED
  BY <1>1, Safety, PTL

\* No job fails with budget left, and worker_lost means exactly one claim too
\* many (claim_delivery, fail_lost_delivery, _failed_attempt).
THEOREM Budgets == Spec => []BudgetSpentOnFailure
<1>1. SafetyInv => BudgetSpentOnFailure
  BY DEF SafetyInv
<1>2. QED
  BY <1>1, Safety, PTL

-----------------------------------------------------------------------------
(* The invariant of a worker that keeps its session.                      *)

\* Without session loss run_job has its lock from pg_try_advisory_lock to the
\* finally clause, the error record included; all that time its row is open and
\* has a failure to spare, and the job value of its transaction is one step ahead
\* of the row at most.
RunLive(w) ==
  /\ pc[w] \in Running \cup {"locked", "error", "unlock"} => lock[cur[w]] = w
  /\ pc[w] \in Running \cup {"error"} =>
       Open(row[cur[w]]) /\ row[cur[w]].attempts < row[cur[w]].deliveries
  /\ pc[w] = "loaded" => tx[w].state = row[cur[w]].state
  /\ pc[w] \in {"loaded", "running", "upserting"} =>
       tx[w].attempts = row[cur[w]].attempts
  /\ pc[w] = "finishing" =>
       \/ /\ tx[w].state = "completed" /\ tx[w].attempts = row[cur[w]].attempts
          /\ cur[w] \in indexed
       \/ /\ tx[w].attempts = row[cur[w]].attempts + 1
          /\ \/ tx[w].state = "failed" /\ tx[w].attempts >= MaxDeliveries
             \/ tx[w].state = "retrying" /\ tx[w].attempts < MaxDeliveries

\* At most one failure is counted per delivery, and none before the row exists.
CountsSound(j) ==
  /\ row[j].attempts <= row[j].deliveries
  /\ row[j].state = "absent" => row[j].attempts = 0 /\ row[j].deliveries = 0

LiveInv ==
  /\ SafetyInv
  /\ cut = {}
  /\ \A w \in Workers : RunLive(w)
  /\ \A j \in Jobs : CountsSound(j)
  /\ CompletedIsPublished

-----------------------------------------------------------------------------
(* What a step does to the rows.                                           *)

\* The statements that change the outcome of a job: the first insert, a claim
\* within the budget and the one past it, a failed attempt and a completion.
Submitted(j) == row[j].state = "absent" /\ row'[j] = NewRow

Delivered(j) ==
  /\ Open(row[j]) /\ row[j].deliveries < MaxDeliveries
  /\ row'[j].state = row[j].state /\ row'[j].attempts = row[j].attempts
  /\ row'[j].deliveries = row[j].deliveries + 1

GivenUp(j) ==
  /\ Open(row[j]) /\ row[j].deliveries = MaxDeliveries
  /\ row'[j].state = "failed" /\ row'[j].attempts = row[j].attempts
  /\ row'[j].deliveries = row[j].deliveries + 1

AttemptFailed(j) ==
  /\ Open(row[j]) /\ row[j].attempts < row[j].deliveries
  /\ row'[j].deliveries = row[j].deliveries
  /\ row'[j].attempts = row[j].attempts + 1
  /\ \/ row'[j].state = "retrying" /\ row[j].attempts + 1 < MaxDeliveries
     \/ /\ row'[j].state = "failed"
        /\ row[j].attempts + 1 >= MaxDeliveries \/ row[j].deliveries >= MaxDeliveries

Completed(j) ==
  /\ Open(row[j]) /\ row[j].attempts < row[j].deliveries
  /\ row'[j].state = "completed" /\ row'[j].attempts = row[j].attempts
  /\ row'[j].deliveries = row[j].deliveries
  /\ j \in normalized' /\ j \in indexed'

Moved(j) == \/ Submitted(j) \/ Delivered(j) \/ GivenUp(j)
            \/ AttemptFailed(j) \/ Completed(j)

OneMoves == \E j \in Jobs : Moved(j) /\ \A k \in Jobs \ {j} : OutcomeKept(k)

RowsMove == (\A k \in Jobs : OutcomeKept(k)) \/ OneMoves

\* Counters that claim_delivery leaves alone or counts.
LEMMA ClaimedCounts ==
  ASSUME NEW r \in RowType, Open(r)
  PROVE  ClaimedRow(r).attempts = r.attempts
BY DEF ClaimedRow, RowType

\* record_worker_error counts one failure, and gives up exactly at a limit.
LEMMA ErrorCounts ==
  ASSUME NEW r \in RowType, Open(r)
  PROVE  /\ ErrorRow(r).attempts = r.attempts + 1
         /\ ErrorRow(r).deliveries = r.deliveries
         /\ \/ ErrorRow(r).state = "retrying" /\ r.attempts + 1 < MaxDeliveries
            \/ /\ ErrorRow(r).state = "failed"
               /\ r.attempts + 1 >= MaxDeliveries \/ r.deliveries >= MaxDeliveries
<1> DEFINE resume == CASE r.state = "queued" -> "fetching"
                       [] r.state = "retrying" ->
                            IF r.resume = "none" THEN "fetching" ELSE r.resume
                       [] OTHER -> r.state
           state  == IF Spent(r.attempts) \/ r.deliveries >= MaxDeliveries
                     THEN "failed" ELSE "retrying"
           e      == [r EXCEPT !.state = state, !.attempts = r.attempts + 1,
                               !.error = "worker_internal", !.resume = resume]
<1>1. ErrorRow(r) = e
  BY Zenon DEF ErrorRow
<1>2. \/ state = "retrying" /\ r.attempts + 1 < MaxDeliveries
      \/ /\ state = "failed"
         /\ r.attempts + 1 >= MaxDeliveries \/ r.deliveries >= MaxDeliveries
  BY RowFields DEF Spent
<1> HIDE DEF resume, state
<1>3. e.state = state /\ e.attempts = r.attempts + 1 /\ e.deliveries = r.deliveries
  BY DEF RowType
<1> HIDE DEF e
<1>4. QED
  BY <1>1, <1>2, <1>3

\* _failed_attempt counts one failure, and gives up exactly at the limit.
LEMMA FailedCounts ==
  ASSUME NEW t \in TxType
  PROVE  /\ FailedAttempt(t).attempts = t.attempts + 1
         /\ \/ FailedAttempt(t).state = "failed" /\ t.attempts + 1 >= MaxDeliveries
            \/ FailedAttempt(t).state = "retrying" /\ t.attempts + 1 < MaxDeliveries
<1>1. t.attempts \in Nat
  BY TxFields
<1>2. /\ FailedAttempt(t).attempts = t.attempts + 1
      /\ FailedAttempt(t).state = IF Spent(t.attempts) THEN "failed" ELSE "retrying"
  BY DEF FailedAttempt, TxType
<1>3. QED
  BY <1>1, <1>2 DEF Spent

\* The first transition of a run counts nothing.
LEMMA ResumedCounts ==
  ASSUME NEW t \in TxType
  PROVE  Resumed(t).attempts = t.attempts
BY DEF Resumed, TxType

\* What the invariant says of a worker that has its job's lock.
LEMMA RunFacts ==
  ASSUME LiveInv, NEW w \in Workers, pc[w] # "idle"
  PROVE  /\ cur[w] \in Jobs /\ row[cur[w]] \in RowType /\ tx[w] \in TxType
         /\ row[cur[w]].attempts \in Nat /\ row[cur[w]].deliveries \in Nat
         /\ row[cur[w]].attempts <= row[cur[w]].deliveries
         /\ w \notin cut /\ RunLive(w)
<1>1. cur[w] \in Jobs /\ row[cur[w]] \in RowType /\ tx[w] \in TxType
  BY DEF LiveInv, SafetyInv, TypeOK, WorkerSound
<1>2. QED
  BY <1>1, RowFields DEF LiveInv, CountsSound

\* Two workers are not both between a lock and its release for one job.
LEMMA LockExcludes ==
  ASSUME LiveInv, NEW w \in Workers, NEW v \in Workers \ {w},
         pc[w] \in Running \cup {"locked", "error", "unlock"},
         pc[v] \in Running \cup {"locked", "error", "unlock"}
  PROVE  cur[v] # cur[w]
BY DEF LiveInv, RunLive

-----------------------------------------------------------------------------
(* The parts of the invariant that follow from what happens to the rows.   *)

\* Every change of a row keeps its two counters in step.
LEMMA CountsKept ==
  ASSUME LiveInv, RowsMove
  PROVE  \A j \in Jobs : CountsSound(j)'
<1> SUFFICES ASSUME NEW j \in Jobs PROVE CountsSound(j)'
  OBVIOUS
<1>1. /\ row[j].attempts \in Nat /\ row[j].deliveries \in Nat /\ CountsSound(j)
  BY RowFields DEF LiveInv, SafetyInv, TypeOK
<1>2. CASE OutcomeKept(j)
  BY <1>1, <1>2 DEF OutcomeKept, CountsSound
<1>3. CASE Moved(j)
  BY <1>1, <1>3 DEF Moved, Submitted, Delivered, GivenUp, AttemptFailed, Completed,
       CountsSound, Open, NewRow, NoRow
<1>4. QED
  BY <1>2, <1>3 DEF RowsMove, OneMoves

\* A job completes with its artifacts and chunks in place, and keeps them.
LEMMA PublishedKept ==
  ASSUME LiveInv, RowsMove, normalized \subseteq normalized',
         \A j \in Jobs : row[j].state = "completed" /\ j \in indexed => j \in indexed'
  PROVE  CompletedIsPublished'
<1> SUFFICES ASSUME NEW j \in Jobs, row'[j].state = "completed"
             PROVE  j \in normalized' /\ j \in indexed'
  BY DEF CompletedIsPublished
<1>1. CASE OutcomeKept(j)
  BY <1>1 DEF OutcomeKept, LiveInv, CompletedIsPublished
<1>2. CASE Moved(j)
  BY <1>2 DEF Moved, Submitted, Delivered, GivenUp, AttemptFailed, Completed,
       Open, Terminal, NewRow, NoRow
<1>3. QED
  BY <1>1, <1>2 DEF RowsMove, OneMoves

\* A worker that a step does not concern keeps its run: nobody else may write
\* its row or take its lock.
LEMMA OtherLive ==
  ASSUME NEW v \in Workers, RunLive(v),
         pc'[v] = pc[v], cur'[v] = cur[v], tx'[v] = tx[v],
         pc[v] \in Running \cup {"locked", "error", "unlock"} /\ lock[cur[v]] = v
           => lock'[cur[v]] = v,
         pc[v] \in Running \cup {"error"} => OutcomeKept(cur[v]),
         pc[v] = "finishing" /\ cur[v] \in indexed => cur[v] \in indexed'
  PROVE  RunLive(v)'
<1>1. pc[v] \in Running \cup {"error"} =>
        /\ row'[cur[v]].state = row[cur[v]].state
        /\ row'[cur[v]].attempts = row[cur[v]].attempts
        /\ row'[cur[v]].deliveries = row[cur[v]].deliveries
  BY DEF OutcomeKept
<1>2. QED
  BY <1>1 DEF RunLive, Open, Running

-----------------------------------------------------------------------------
(* Steps of submitters, the recovery scan, the clock and the broker.       *)

\* They leave workers and index alone, and create a row or mark one at most.
LEMMA OutsideLive ==
  ASSUME LiveInv, SafetyInv',
         \/ \E j \in Jobs : Submitter(j)
         \/ ClaimRecovery \/ AbandonRecovery
         \/ \E j \in Jobs : PublishRecovered(j) \/ AgeDispatch(j) \/ LoseMessages(j)
  PROVE  LiveInv' /\ RowsMove
<1>1. UNCHANGED <<normalized, indexed, lock, cut, pc, cur, tx>>
  BY DEF Submitter, StoreRaw, CommitSubmission, PublishSubmission, MarkDispatched,
         AbortSubmission, ClaimRecovery, AbandonRecovery, PublishRecovered,
         AgeDispatch, LoseMessages, stores, worker
<1>2. /\ \A k \in Jobs : OutcomeKept(k) \/ Submitted(k)
      /\ RowsMove
  <2>1. CASE \E j \in Jobs : Submitter(j)
    <3>1. PICK j \in Jobs : Submitter(j)
      BY <2>1
    <3>2. \A k \in Jobs : OutcomeKept(k) \/ Submitted(k)
      BY <3>1, SubmitterRows DEF LiveInv, Submitted
    <3>3. \A k \in Jobs \ {j} : OutcomeKept(k)
      <4>1. CASE CommitSubmission(j)
        BY <4>1 DEF CommitSubmission, OutcomeKept, LiveInv, SafetyInv, TypeOK
      <4>2. CASE MarkDispatched(j)
        BY <4>2, MarkedRow DEF LiveInv
      <4>3. CASE UNCHANGED row
        BY <4>3 DEF OutcomeKept
      <4>4. QED
        BY <3>1, <4>1, <4>2, <4>3 DEF Submitter, StoreRaw, PublishSubmission, AbortSubmission
    <3>4. QED
      BY <3>2, <3>3 DEF RowsMove, OneMoves, Moved
  <2>2. CASE \/ ClaimRecovery \/ AbandonRecovery
             \/ \E j \in Jobs : PublishRecovered(j) \/ AgeDispatch(j) \/ LoseMessages(j)
    BY <2>2, DispatchRows DEF LiveInv, RowsMove
  <2>3. QED
    BY <2>1, <2>2
<1>3. ASSUME NEW v \in Workers PROVE RunLive(v)'
  <2>1. pc[v] \in Running \cup {"error"} => cur[v] \in Jobs /\ Open(row[cur[v]])
    BY RunFacts DEF Running, RunLive
  <2>2. pc[v] \in Running \cup {"error"} => OutcomeKept(cur[v])
    BY <1>2, <2>1 DEF Submitted, Open
  <2>3. QED
    BY <1>1, <2>2, OtherLive DEF LiveInv
<1>4. CompletedIsPublished' /\ \A j \in Jobs : CountsSound(j)'
  BY <1>1, <1>2, CountsKept, PublishedKept
<1>5. QED
  BY <1>1, <1>2, <1>3, <1>4 DEF LiveInv

-----------------------------------------------------------------------------
(* Steps of a worker.                                                      *)

\* A step of w that changes at most the row of its own job, under its lock, and
\* takes nothing of another job out of the index.
LEMMA WorkerLive ==
  ASSUME LiveInv, SafetyInv', NEW w \in Workers, Frame(w), cut' = {}, RunLive(w)',
         RowsMove, normalized \subseteq normalized',
         \/ UNCHANGED <<row, indexed>>
         \/ /\ pc[w] \in Running \cup {"locked", "error", "unlock"}
            /\ \A k \in Jobs \ {cur[w]} : OutcomeKept(k) /\ (k \in indexed => k \in indexed'),
         \A j \in Jobs : row[j].state = "completed" /\ j \in indexed => j \in indexed'
  PROVE  LiveInv'
<1>1. ASSUME NEW v \in Workers \ {w} PROVE RunLive(v)'
  <2>1. /\ pc'[v] = pc[v] /\ cur'[v] = cur[v] /\ tx'[v] = tx[v] /\ RunLive(v)
        /\ pc[v] # "idle" => cur[v] \in Jobs
    BY RunFacts DEF Frame, LiveInv
  <2>2. pc[v] \in Running \cup {"locked", "error", "unlock"} /\ lock[cur[v]] = v
          => lock'[cur[v]] = v
    BY <2>1 DEF Frame, Running
  <2>3. pc[v] \in Running \cup {"error"} =>
          OutcomeKept(cur[v]) /\ (cur[v] \in indexed => cur[v] \in indexed')
    <3>1. CASE UNCHANGED <<row, indexed>>
      BY <3>1 DEF OutcomeKept
    <3>2. CASE /\ pc[w] \in Running \cup {"locked", "error", "unlock"}
               /\ \A k \in Jobs \ {cur[w]} :
                    OutcomeKept(k) /\ (k \in indexed => k \in indexed')
      BY <2>1, <3>2, LockExcludes DEF Running
    <3>3. QED
      BY <3>1, <3>2
  <2>4. QED
    BY <2>1, <2>2, <2>3, OtherLive DEF Running
<1>2. CompletedIsPublished' /\ \A j \in Jobs : CountsSound(j)'
  BY CountsKept, PublishedKept
<1>3. QED
  BY <1>1, <1>2 DEF LiveInv

\* A step of w that leaves rows, artifacts and index as they are.
LEMMA QuietLive ==
  ASSUME LiveInv, SafetyInv', NEW w \in Workers, Frame(w), cut' = {}, RunLive(w)',
         UNCHANGED <<row, normalized, indexed>>
  PROVE  LiveInv' /\ RowsMove
<1>1. RowsMove
  BY DEF RowsMove, OutcomeKept
<1>2. QED
  BY <1>1, WorkerLive

\* A task begins or ends: the worker has no run to answer for.
LEMMA TaskLive ==
  ASSUME LiveInv, SafetyInv', NEW w \in Workers,
         (\E j \in Jobs : Receive(w, j)) \/ Busy(w) \/ Requeue(w) \/ Crash(w)
  PROVE  LiveInv' /\ RowsMove
<1>1. UNCHANGED <<row, normalized, indexed>> /\ cut' = {}
  BY DEF LiveInv, Receive, Busy, Requeue, Crash, ToIdle, stores
<1>2. pc'[w] \in {"idle", "received"}
  BY DEF LiveInv, SafetyInv, TypeOK, Receive, Busy, Requeue, Crash, ToIdle, GoTo
<1>3. Frame(w)
  <2>1. CASE \E j \in Jobs : Receive(w, j)
    BY <2>1 DEF LiveInv, SafetyInv, TypeOK, Receive, GoTo, Frame
  <2>2. CASE Busy(w) \/ Requeue(w) \/ Crash(w)
    BY <2>2, IdleSound, ReleaseFrame DEF Busy, Requeue, Crash, Frame, LiveInv, SafetyInv
  <2>3. QED
    BY <2>1, <2>2
<1>4. RunLive(w)'
  BY <1>2 DEF RunLive, Running
<1>5. QED
  BY <1>1, <1>3, <1>4, QuietLive

\* The lock is taken before the first statement and given back after the last.
LEMMA LockLive ==
  ASSUME LiveInv, SafetyInv', NEW w \in Workers, Acquire(w) \/ Unlock(w)
  PROVE  LiveInv' /\ RowsMove
<1>1. cur[w] \in Jobs /\ w \notin cut
  BY RunFacts DEF Acquire, Unlock
<1>2. UNCHANGED <<row, normalized, indexed>> /\ cut' = {}
  BY DEF LiveInv, Acquire, Unlock, ToIdle, stores
<1>3. CASE Acquire(w)
  <2>1. Frame(w)
    BY <1>1, <1>3 DEF LiveInv, SafetyInv, TypeOK, Acquire, GoTo, Frame
  <2>2. pc'[w] = "locked" /\ cur'[w] = cur[w] /\ lock'[cur[w]] = w
    BY <1>1, <1>3 DEF LiveInv, SafetyInv, TypeOK, Acquire, GoTo
  <2>3. RunLive(w)'
    BY <2>2 DEF RunLive, Running
  <2>4. QED
    BY <1>2, <2>1, <2>3, QuietLive
<1>4. CASE Unlock(w)
  <2>1. Frame(w)
    <3>1. CASE tx[w].state = "retrying"
      BY <1>4, <3>1, ReleaseFrame DEF LiveInv, SafetyInv, TypeOK, Unlock, GoTo, Frame
    <3>2. CASE tx[w].state # "retrying"
      BY <1>4, <3>2, ReleaseFrame, IdleSound DEF LiveInv, SafetyInv, Unlock, Frame
    <3>3. QED
      BY <3>1, <3>2
  <2>2. pc'[w] \in {"idle", "requeue"}
    BY <1>4 DEF LiveInv, SafetyInv, TypeOK, Unlock, ToIdle, GoTo
  <2>3. RunLive(w)'
    BY <2>2 DEF RunLive, Running
  <2>4. QED
    BY <1>2, <2>1, <2>3, QuietLive
<1>5. QED
  BY <1>3, <1>4

\* A step inside a run: only the worker's own position and job value move.
LEMMA RunFrame ==
  ASSUME LiveInv, NEW w \in Workers, NEW c, NEW t,
         pc' = [pc EXCEPT ![w] = c], tx' = [tx EXCEPT ![w] = t],
         UNCHANGED <<lock, cut, cur>>
  PROVE  Frame(w) /\ pc'[w] = c /\ tx'[w] = t /\ cut' = {} /\ cur'[w] = cur[w]
BY DEF LiveInv, SafetyInv, TypeOK, Frame

\* The job value of a run is the row's until its first transition, and counts
\* what the row counts until it ends (get_job, _continue).
LEMMA LoadLive ==
  ASSUME LiveInv, SafetyInv', NEW w \in Workers, Load(w)
  PROVE  LiveInv' /\ RowsMove
<1> DEFINE r == row[cur[w]]
           t == [state |-> r.state, attempts |-> r.attempts,
                 error |-> r.error, resume |-> r.resume, parsed |-> FALSE]
<1>1. /\ pc' = [pc EXCEPT ![w] = "loaded"] /\ tx' = [tx EXCEPT ![w] = t]
      /\ UNCHANGED <<row, normalized, indexed, lock, cut, cur>> /\ pc[w] = "claimed"
  BY DEF Load, GoTo, stores
<1>2. t.state = r.state /\ t.attempts = r.attempts
  OBVIOUS
<1> HIDE DEF t
<1>3. Frame(w) /\ pc'[w] = "loaded" /\ tx'[w] = t /\ cut' = {} /\ cur'[w] = cur[w]
  BY <1>1, RunFrame
<1>4. RunLive(w)'
  BY <1>1, <1>2, <1>3, RunFacts DEF RunLive, Running
<1>5. QED
  BY <1>1, <1>3, <1>4, QuietLive

\* The row a run has loaded is open, so the run begins; nothing is counted yet.
LEMMA BeginRunLive ==
  ASSUME LiveInv, SafetyInv', NEW w \in Workers, BeginRun(w)
  PROVE  LiveInv' /\ RowsMove
<1>1. /\ pc[w] = "loaded" /\ RunLive(w) /\ tx[w] \in TxType
      /\ UNCHANGED <<row, normalized, indexed, lock, cut, cur>>
  BY RunFacts DEF BeginRun, stores
<1>2. tx[w].state \notin Terminal
  BY <1>1 DEF RunLive, Open, Running
<1>3. tx' = [tx EXCEPT ![w] = Resumed(tx[w])] /\ pc' = [pc EXCEPT ![w] = "running"]
  BY <1>2 DEF BeginRun, GoTo
<1>4. Frame(w) /\ pc'[w] = "running" /\ tx'[w] = Resumed(tx[w]) /\ cut' = {} /\ cur'[w] = cur[w]
  BY <1>1, <1>3, RunFrame
<1>5. tx'[w].attempts = tx[w].attempts
  BY <1>1, <1>4, ResumedCounts
<1>6. RunLive(w)'
  BY <1>1, <1>4, <1>5 DEF RunLive, Running
<1>7. QED
  BY <1>1, <1>4, <1>6, QuietLive

\* A stage that succeeds moves on, one that fails counts its failure.
LEMMA StagesLive ==
  ASSUME LiveInv, SafetyInv', NEW w \in Workers,
         StageFails(w) \/ Fetch(w) \/ Parse(w) \/ Upsert(w)
  PROVE  LiveInv' /\ RowsMove
<1>1. /\ pc[w] = "running" /\ RunLive(w) /\ tx[w] \in TxType /\ cur[w] \in Jobs
      /\ UNCHANGED <<row, normalized, indexed, lock, cut, cur>>
  BY RunFacts DEF StageFails, Fetch, Parse, Upsert, stores
<1>2. CASE StageFails(w)
  <2>1. /\ tx' = [tx EXCEPT ![w] = FailedAttempt(tx[w])]
        /\ pc' = [pc EXCEPT ![w] = "finishing"]
    BY <1>2 DEF StageFails, GoTo
  <2>2. /\ Frame(w) /\ pc'[w] = "finishing" /\ tx'[w] = FailedAttempt(tx[w])
        /\ cut' = {} /\ cur'[w] = cur[w]
    BY <1>1, <2>1, RunFrame
  <2>3. RunLive(w)'
    BY <1>1, <2>2, FailedCounts DEF RunLive, Running
  <2>4. QED
    BY <1>1, <2>2, <2>3, QuietLive
<1>3. CASE Fetch(w) \/ Parse(w) \/ Upsert(w)
  <2>1. PICK c \in {"running", "upserting"} : \E t :
          /\ pc' = [pc EXCEPT ![w] = c] /\ tx' = [tx EXCEPT ![w] = t]
          /\ t.attempts = tx[w].attempts
    <3>1. CASE Fetch(w)
      <4> DEFINE t == [tx[w] EXCEPT !.state = "parsing"]
      <4>1. t.attempts = tx[w].attempts
        BY <1>1 DEF TxType
      <4>2. pc' = [pc EXCEPT ![w] = "running"] /\ tx' = [tx EXCEPT ![w] = t]
        BY <1>1, <3>1 DEF Fetch, LiveInv, SafetyInv, TypeOK
      <4> HIDE DEF t
      <4>3. QED
        BY <4>1, <4>2
    <3>2. CASE Parse(w)
      <4> DEFINE t == [tx[w] EXCEPT !.state = "indexing", !.parsed = TRUE]
      <4>1. t.attempts = tx[w].attempts
        BY <1>1 DEF TxType
      <4>2. pc' = [pc EXCEPT ![w] = "running"] /\ tx' = [tx EXCEPT ![w] = t]
        BY <1>1, <3>2 DEF Parse, LiveInv, SafetyInv, TypeOK
      <4> HIDE DEF t
      <4>3. QED
        BY <4>1, <4>2
    <3>3. CASE Upsert(w)
      <4>1. pc' = [pc EXCEPT ![w] = "upserting"] /\ tx' = [tx EXCEPT ![w] = tx[w]]
        BY <3>3 DEF Upsert, GoTo, LiveInv, SafetyInv, TypeOK
      <4>2. QED
        BY <4>1
    <3>4. QED
      BY <1>3, <3>1, <3>2, <3>3
  <2>2. PICK t : /\ pc' = [pc EXCEPT ![w] = c] /\ tx' = [tx EXCEPT ![w] = t]
                 /\ t.attempts = tx[w].attempts
    BY <2>1
  <2>3. Frame(w) /\ pc'[w] = c /\ tx'[w] = t /\ cut' = {} /\ cur'[w] = cur[w]
    BY <1>1, <2>2, RunFrame
  <2>4. RunLive(w)'
    BY <1>1, <2>2, <2>3 DEF RunLive, Running
  <2>5. QED
    BY <1>1, <2>3, <2>4, QuietLive
<1>4. QED
  BY <1>2, <1>3

\* The index answers a run that has the lock, so no completed job loses chunks.
LEMMA IndexedLive ==
  ASSUME LiveInv, SafetyInv', NEW w \in Workers, UpsertDone(w) \/ UpsertFails(w)
  PROVE  LiveInv' /\ RowsMove
<1>1. /\ pc[w] = "upserting" /\ RunLive(w) /\ tx[w] \in TxType /\ cur[w] \in Jobs
      /\ w \notin cut /\ UNCHANGED <<row, normalized, lock, cur>>
      /\ row[cur[w]].attempts \in Nat
  BY RunFacts DEF UpsertDone, UpsertFails
<1>2. \A k \in Jobs \ {cur[w]} : k \in indexed => k \in indexed'
  BY DEF UpsertDone, UpsertFails
<1>3. Open(row[cur[w]])
  BY <1>1 DEF RunLive, Running
<1>4. \A j \in Jobs : row[j].state = "completed" /\ j \in indexed => j \in indexed'
  BY <1>2, <1>3 DEF Open, Terminal
<1>5. Frame(w) /\ cut' = {} /\ RunLive(w)'
  <2>1. CASE UpsertDone(w)
    <3> DEFINE t == [tx[w] EXCEPT !.state = "completed"]
    <3>1. t.attempts = tx[w].attempts /\ t.state = "completed"
      BY <1>1 DEF TxType
    <3>2. /\ pc' = [pc EXCEPT ![w] = "finishing"] /\ tx' = [tx EXCEPT ![w] = t]
          /\ UNCHANGED cut /\ cur[w] \in indexed'
      BY <1>1, <2>1 DEF UpsertDone, GoTo
    <3> HIDE DEF t
    <3>3. Frame(w) /\ pc'[w] = "finishing" /\ tx'[w] = t /\ cut' = {} /\ cur'[w] = cur[w]
      BY <1>1, <3>2, RunFrame
    <3>4. RunLive(w)'
      BY <1>1, <3>1, <3>2, <3>3 DEF RunLive, Running
    <3>5. QED
      BY <3>3, <3>4
  <2>2. CASE UpsertFails(w)
    <3>1. /\ pc' = [pc EXCEPT ![w] = "finishing"] /\ UNCHANGED cut
          /\ tx' = [tx EXCEPT ![w] = FailedAttempt(tx[w])]
      BY <1>1, <2>2 DEF UpsertFails, GoTo
    <3>2. /\ Frame(w) /\ pc'[w] = "finishing" /\ tx'[w] = FailedAttempt(tx[w])
          /\ cut' = {} /\ cur'[w] = cur[w]
      BY <1>1, <3>1, RunFrame
    <3>3. RunLive(w)'
      BY <1>1, <3>2, FailedCounts DEF RunLive, Running
    <3>4. QED
      BY <3>2, <3>3
  <2>3. QED
    BY <2>1, <2>2
<1>6. RowsMove /\ \A k \in Jobs : OutcomeKept(k)
  BY <1>1 DEF RowsMove, OutcomeKept
<1>7. QED
  BY <1>1, <1>2, <1>4, <1>5, <1>6, WorkerLive DEF Running

\* A rollback forgets the job value; the row is as it was, under the same lock.
LEMMA RaisesLive ==
  ASSUME LiveInv, SafetyInv', NEW w \in Workers, RunRaises(w)
  PROVE  LiveInv' /\ RowsMove
<1>1. /\ pc[w] \in Running /\ RunLive(w) /\ cut = {} /\ cut' = {}
      /\ pc' = [pc EXCEPT ![w] = "error"] /\ tx' = [tx EXCEPT ![w] = NoTx]
      /\ UNCHANGED <<row, normalized, indexed, lock, cur>>
  BY RunFacts DEF RunRaises, Rollback, GoTo, LiveInv, stores, Running
<1>2. Frame(w) /\ pc'[w] = "error" /\ cur'[w] = cur[w]
  BY <1>1, RunFrame
<1>3. RunLive(w)'
  BY <1>1, <1>2 DEF RunLive, Running
<1>4. QED
  BY <1>1, <1>2, <1>3, QuietLive

-----------------------------------------------------------------------------
(* The three statements of a worker that write its job's row.              *)

\* A worker that writes a row holds its lock: one job moves, all others stay.
LEMMA WriteLive ==
  ASSUME LiveInv, SafetyInv', NEW w \in Workers,
         pc[w] \in {"locked", "finishing", "error"},
         \A k \in Jobs \ {cur[w]} : row'[k] = row[k],
         OutcomeKept(cur[w]) \/ Moved(cur[w]),
         normalized \subseteq normalized', UNCHANGED <<indexed, lock, cut, cur>>,
         Frame(w), RunLive(w)'
  PROVE  LiveInv' /\ RowsMove
<1>1. cur[w] \in Jobs
  BY RunFacts
<1>2. \A k \in Jobs \ {cur[w]} : OutcomeKept(k)
  BY DEF OutcomeKept
<1>3. RowsMove
  BY <1>1, <1>2 DEF RowsMove, OneMoves
<1>4. QED
  BY <1>2, <1>3, WorkerLive DEF LiveInv, Running

\* claim_delivery counts a delivery, so the run has a failure to spare.
LEMMA ClaimLive ==
  ASSUME LiveInv, SafetyInv', NEW w \in Workers, Claim(w)
  PROVE  LiveInv' /\ RowsMove
<1> DEFINE old == row[cur[w]]
           r   == ClaimedRow(old)
           c   == IF Open(r) THEN "claimed" ELSE "unlock"
           t   == [tx[w] EXCEPT !.state = r.state]
<1>1. /\ pc[w] = "locked" /\ cur[w] \in Jobs /\ old \in RowType /\ old.attempts \in Nat
      /\ old.deliveries \in Nat /\ old.attempts <= old.deliveries /\ lock[cur[w]] = w
  BY RunFacts DEF Claim, RunLive
<1>2. /\ row' = [row EXCEPT ![cur[w]] = r] /\ pc' = [pc EXCEPT ![w] = c]
      /\ tx' = [tx EXCEPT ![w] = t]
      /\ UNCHANGED <<normalized, indexed, lock, cut, cur>>
  BY DEF Claim, GoTo, stores
<1>3. ~Open(old) => r = old
  BY DEF ClaimedRow
<1>4. Open(old) =>
      /\ r.attempts = old.attempts /\ r.deliveries = old.deliveries + 1
      /\ \/ old.deliveries < MaxDeliveries /\ r.state = old.state
         \/ old.deliveries = MaxDeliveries /\ r.state = "failed"
  <2>1. Open(old) => old.deliveries <= MaxDeliveries
    BY <1>1 DEF LiveInv, SafetyInv, BudgetSpentOnFailure, Open, Terminal
  <2>2. QED
    BY <1>1, <2>1, ClaimedRowFacts, ClaimedCounts
<1>5. c = "unlock" \/ (c = "claimed" /\ Open(r))
  OBVIOUS
<1> HIDE DEF r, c, t
<1>6. row'[cur[w]] = r /\ \A k \in Jobs \ {cur[w]} : row'[k] = row[k]
  BY <1>1, <1>2 DEF LiveInv, SafetyInv, TypeOK
<1>7. OutcomeKept(cur[w]) \/ Moved(cur[w])
  BY <1>3, <1>4, <1>6 DEF OutcomeKept, Moved, Delivered, GivenUp
<1>8. Frame(w) /\ pc'[w] = c /\ cur'[w] = cur[w]
  BY <1>2, RunFrame
<1>9. Open(r) => r.attempts < r.deliveries
  BY <1>1, <1>3, <1>4
<1>10. RunLive(w)'
  BY <1>1, <1>2, <1>5, <1>6, <1>8, <1>9 DEF RunLive, Running
<1>11. QED
  BY <1>1, <1>2, <1>6, <1>7, <1>8, <1>10, WriteLive

\* The commit of a run ends its attempt: published, failed or to be tried again.
LEMMA CommitLive ==
  ASSUME LiveInv, SafetyInv', NEW w \in Workers, Commit(w)
  PROVE  LiveInv' /\ RowsMove
<1> DEFINE old == row[cur[w]]
           r   == Saved(old, tx[w])
<1>1. /\ pc[w] = "finishing" /\ cur[w] \in Jobs /\ old \in RowType /\ tx[w] \in TxType
      /\ old.attempts \in Nat /\ old.deliveries \in Nat /\ RunLive(w)
  BY RunFacts DEF Commit
<1>2. /\ Open(old) /\ old.attempts < old.deliveries /\ lock[cur[w]] = w
      /\ \/ /\ tx[w].state = "completed" /\ tx[w].attempts = old.attempts
            /\ cur[w] \in indexed
         \/ /\ tx[w].attempts = old.attempts + 1
            /\ \/ tx[w].state = "failed" /\ tx[w].attempts >= MaxDeliveries
               \/ tx[w].state = "retrying" /\ tx[w].attempts < MaxDeliveries
  BY <1>1 DEF RunLive, Running
<1>3. /\ row' = [row EXCEPT ![cur[w]] = r] /\ pc' = [pc EXCEPT ![w] = "unlock"]
      /\ tx' = [tx EXCEPT ![w] = tx[w]] /\ UNCHANGED <<indexed, lock, cut, cur>>
      /\ normalized \subseteq normalized'
  BY DEF Commit, SaveRun, GoTo, LiveInv, SafetyInv, TypeOK
<1>4. tx[w].state = "completed" => cur[w] \in normalized'
  <2>1. tx[w].state = "completed" => Normalized(w)
    BY <1>1 DEF LiveInv, SafetyInv, WorkerSound, TxSound
  <2>2. QED
    BY <2>1 DEF Normalized, Commit, SaveRun
<1>5. /\ r.state = tx[w].state /\ r.attempts = tx[w].attempts
      /\ r.deliveries = old.deliveries
  BY <1>1, SavedFacts
<1> HIDE DEF r
<1>6. row'[cur[w]] = r /\ \A k \in Jobs \ {cur[w]} : row'[k] = row[k]
  BY <1>1, <1>3 DEF LiveInv, SafetyInv, TypeOK
<1>7. Completed(cur[w]) \/ AttemptFailed(cur[w])
  BY <1>2, <1>3, <1>4, <1>5, <1>6 DEF Completed, AttemptFailed
<1>8. Frame(w) /\ pc'[w] = "unlock" /\ cur'[w] = cur[w]
  BY <1>3, RunFrame
<1>9. RunLive(w)'
  BY <1>2, <1>3, <1>8 DEF RunLive, Running
<1>10. QED
  BY <1>1, <1>3, <1>6, <1>7, <1>8, <1>9, WriteLive DEF Moved

\* record_worker_error ends the attempt of a run that raised.
LEMMA RecordErrorLive ==
  ASSUME LiveInv, SafetyInv', NEW w \in Workers, RecordError(w)
  PROVE  LiveInv' /\ RowsMove
<1> DEFINE old == row[cur[w]]
           r   == ErrorRow(old)
           t   == [tx[w] EXCEPT !.state = r.state]
<1>1. /\ pc[w] = "error" /\ cur[w] \in Jobs /\ old \in RowType
      /\ Open(old) /\ old.attempts < old.deliveries /\ lock[cur[w]] = w
  BY RunFacts DEF RecordError, RunLive
<1>2. /\ row' = [row EXCEPT ![cur[w]] = r] /\ pc' = [pc EXCEPT ![w] = "unlock"]
      /\ tx' = [tx EXCEPT ![w] = t]
      /\ UNCHANGED <<normalized, indexed, lock, cut, cur>>
  BY DEF RecordError, GoTo, stores
<1>3. /\ r.attempts = old.attempts + 1 /\ r.deliveries = old.deliveries
      /\ \/ r.state = "retrying" /\ old.attempts + 1 < MaxDeliveries
         \/ /\ r.state = "failed"
            /\ old.attempts + 1 >= MaxDeliveries \/ old.deliveries >= MaxDeliveries
  BY <1>1, ErrorCounts
<1> HIDE DEF r, t
<1>4. row'[cur[w]] = r /\ \A k \in Jobs \ {cur[w]} : row'[k] = row[k]
  BY <1>1, <1>2 DEF LiveInv, SafetyInv, TypeOK
<1>5. AttemptFailed(cur[w])
  BY <1>1, <1>3, <1>4 DEF AttemptFailed
<1>6. Frame(w) /\ pc'[w] = "unlock" /\ cur'[w] = cur[w]
  BY <1>2, RunFrame
<1>7. RunLive(w)'
  BY <1>1, <1>2, <1>6 DEF RunLive, Running
<1>8. QED
  BY <1>1, <1>2, <1>4, <1>5, <1>6, <1>7, WriteLive DEF Moved

-----------------------------------------------------------------------------
(* Theorems about the outcome of a job.                                    *)

\* At the start there is nothing to publish and nobody to hold a lock.
LEMMA LiveInit == Init => LiveInv
<1> SUFFICES ASSUME Init PROVE LiveInv
  OBVIOUS
<1>1. \A w \in Workers : RunLive(w)
  BY DEF Init, RunLive, Running
<1>2. CompletedIsPublished /\ \A j \in Jobs : CountsSound(j)
  BY DEF Init, CompletedIsPublished, CountsSound, NoRow
<1>3. QED
  BY <1>1, <1>2, SafetyInit DEF LiveInv, Init

\* While PostgreSQL keeps its sessions the invariant is inductive, and every step
\* leaves all outcomes alone or takes one job through one statement of its life.
THEOREM LiveStep ==
  ~SessionLoss => (LiveInv /\ [Next]_vars => LiveInv' /\ RowsMove)
<1> SUFFICES ASSUME ~SessionLoss, LiveInv, [Next]_vars PROVE LiveInv' /\ RowsMove
  OBVIOUS
<1>1. SafetyInv'
  BY SafetyStep DEF LiveInv
<1>2. CASE \/ \E j \in Jobs : Submitter(j)
           \/ ClaimRecovery \/ AbandonRecovery
           \/ \E j \in Jobs : PublishRecovered(j) \/ AgeDispatch(j) \/ LoseMessages(j)
  BY <1>1, <1>2, OutsideLive
<1>3. ASSUME NEW w \in Workers, (\E j \in Jobs : Receive(w, j)) \/ Crash(w)
      PROVE  LiveInv' /\ RowsMove
  BY <1>1, <1>3, TaskLive
<1>4. ASSUME NEW w \in Workers, RunStep(w) PROVE LiveInv' /\ RowsMove
  BY <1>1, <1>4, LoadLive, BeginRunLive, StagesLive, IndexedLive, CommitLive,
     RaisesLive, RecordErrorLive DEF RunStep
<1>5. ASSUME NEW w \in Workers, WorkerStep(w) PROVE LiveInv' /\ RowsMove
  BY <1>1, <1>4, <1>5, LockLive, TaskLive, ClaimLive DEF WorkerStep
<1>6. CASE UNCHANGED vars
  <2>1. RowsMove
    BY <1>6 DEF vars, RowsMove, OutcomeKept
  <2>2. \A w \in Workers : RunLive(w)'
    BY <1>6 DEF vars, LiveInv, RunLive
  <2>3. CompletedIsPublished' /\ \A j \in Jobs : CountsSound(j)'
    BY <1>6 DEF vars, LiveInv, CompletedIsPublished, CountsSound
  <2>4. QED
    BY <1>1, <1>6, <2>1, <2>2, <2>3 DEF LiveInv, vars
<1>7. QED
  BY <1>2, <1>3, <1>5, <1>6 DEF Next, Environment, LoseSession, LoseCommit

\* For any number of jobs, workers and deliveries, while sessions live.
THEOREM LiveSafety == ~SessionLoss => (Spec => []LiveInv)
<1> SUFFICES ASSUME ~SessionLoss PROVE Spec => []LiveInv
  OBVIOUS
<1>1. LiveInv /\ [Next]_vars => LiveInv'
  BY LiveStep
<1>2. QED
  BY <1>1, LiveInit, PTL DEF Spec

\* A completed job's artifacts are committed and its chunks indexed, although
\* neither store takes part in the transaction that completes it (run_job).
THEOREM CompletedPublished == ~SessionLoss => (Spec => []CompletedIsPublished)
<1> SUFFICES ASSUME ~SessionLoss PROVE Spec => []CompletedIsPublished
  OBVIOUS
<1>1. LiveInv => CompletedIsPublished
  BY DEF LiveInv
<1>2. QED
  BY <1>1, LiveSafety, PTL

\* completed and failed have no successor: save_job, record_worker_error and the
\* claims find the row of a run open because the run's lock kept all others out.
THEOREM OutcomeIsFinal == ~SessionLoss => (Spec => TerminalIsFinal)
<1> SUFFICES ASSUME ~SessionLoss PROVE Spec => TerminalIsFinal
  OBVIOUS
<1>1. ASSUME LiveInv, LiveInv', RowsMove, NEW j \in Jobs, row[j].state \in Terminal
      PROVE  row'[j] = [row[j] EXCEPT !.dispatched = row'[j].dispatched]
  <2>1. row[j] \in RowType /\ row'[j] \in RowType
    BY <1>1 DEF LiveInv, SafetyInv, TypeOK
  <2>2. OutcomeKept(j)
    BY <1>1 DEF RowsMove, OneMoves, Moved, Submitted, Delivered, GivenUp,
         AttemptFailed, Completed, Open, Terminal
  <2>3. QED
    BY <2>1, <2>2 DEF OutcomeKept, RowType
<1>2. LiveInv /\ LiveInv' /\ [Next]_vars =>
        [\A j \in Jobs : row[j].state \in Terminal =>
           row'[j] = [row[j] EXCEPT !.dispatched = row'[j].dispatched]]_vars
  BY <1>1, LiveStep
<1>3. QED
  BY <1>2, LiveSafety, PTL DEF Spec, TerminalIsFinal

\* Seen through status, tries and failures, submitters, broker, workers, crashes
\* and duplicate deliveries implement the job that JobLifecycle promises.
THEOREM ImplementsJob == ~SessionLoss => (Spec => ImplementsLifecycle)
<1> SUFFICES ASSUME ~SessionLoss PROVE Spec => ImplementsLifecycle
  OBVIOUS
<1> DEFINE status   == [j \in Jobs |-> Status(row[j])]
           tries    == [j \in Jobs |-> row[j].deliveries]
           failures == [j \in Jobs |-> row[j].attempts]
<1>1. Init => Lifecycle!Init
  BY DEF Init, Lifecycle!Init, Status, Open, NoRow
<1>2. ASSUME LiveInv, \A k \in Jobs : OutcomeKept(k)
      PROVE  UNCHANGED Lifecycle!lifecycle
  BY <1>2 DEF Lifecycle!lifecycle, OutcomeKept, Status, Open
<1>3. ASSUME LiveInv, NEW j \in Jobs, Moved(j), \A k \in Jobs \ {j} : OutcomeKept(k)
      PROVE  Lifecycle!Next
  <2>1. /\ \A k \in Jobs \ {j} : /\ Status(row'[k]) = Status(row[k])
                                 /\ row'[k].deliveries = row[k].deliveries
                                 /\ row'[k].attempts = row[k].attempts
        /\ row[j].attempts \in Nat /\ row[j].deliveries \in Nat /\ CountsSound(j)
    BY <1>3, RowFields DEF OutcomeKept, Status, Open, LiveInv, SafetyInv, TypeOK
  <2>2. CASE Submitted(j)
    <3>1. /\ row[j].attempts = 0 /\ row[j].deliveries = 0 /\ Status(row[j]) = "absent"
          /\ row'[j].attempts = 0 /\ row'[j].deliveries = 0
          /\ Status(row'[j]) = "pending"
      BY <2>1, <2>2 DEF Submitted, CountsSound, NewRow, NoRow, Status, Open, Terminal
    <3>2. QED
      BY <2>1, <3>1 DEF Lifecycle!Next, Lifecycle!Submit
  <2>3. CASE Delivered(j)
    BY <2>1, <2>3 DEF Delivered, Status, Open, Lifecycle!Next, Lifecycle!Try
  <2>4. CASE GivenUp(j)
    BY <2>1, <2>4 DEF GivenUp, Status, Open, Terminal, Lifecycle!Next, Lifecycle!GiveUp
  <2>5. CASE AttemptFailed(j)
    BY <2>1, <2>5 DEF AttemptFailed, Status, Open, Terminal,
       Lifecycle!Next, Lifecycle!FailedTry
  <2>6. CASE Completed(j)
    BY <2>1, <2>6 DEF Completed, Status, Open, Terminal, Lifecycle!Next, Lifecycle!Succeed
  <2>7. QED
    BY <1>3, <2>2, <2>3, <2>4, <2>5, <2>6 DEF Moved
<1>4. LiveInv /\ [Next]_vars => [Lifecycle!Next]_(Lifecycle!lifecycle)
  BY <1>2, <1>3, LiveStep DEF RowsMove, OneMoves
<1>5. QED
  BY <1>1, <1>4, LiveSafety, PTL DEF Spec, ImplementsLifecycle, Lifecycle!Spec
=============================================================================
