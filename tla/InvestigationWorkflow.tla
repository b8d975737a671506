------------------------ MODULE InvestigationWorkflow ------------------------
(***************************************************************************)
(* One investigation: the record in the store, the clients that submit and *)
(* cancel it, and the workers that execute its nodes. Everyone reads a     *)
(* snapshot, works on a copy, and saves it only if the revision is still   *)
(* the one it read. The queue in between is external: durable, idempotent, *)
(* delivering at least once.                                               *)
(***************************************************************************)
EXTENDS Naturals, FiniteSets

CONSTANTS
  Workers, Clients,
  Plans,          \* what the planner may return: numbers of tool requests
  MaxSteps, MaxDuration, MaxTokens, MaxToolCalls, MaxRetrievals,  \* the budget
  MaxUse,         \* bound on the tokens that one node may use
  MaxTime,        \* bound on the clock
  MaxCrashes,     \* bound on the crashes of workers
  None

ASSUME InvestigationAssumption ==
  /\ \A n \in {MaxSteps, MaxDuration, MaxTokens, MaxToolCalls, MaxRetrievals} : n \in Nat \ {0}
  /\ \A n \in {MaxUse, MaxTime, MaxCrashes} : n \in Nat
  /\ Plans \subseteq [searches : Nat, comparisons : Nat]
  /\ None \notin Plans \cup Nat

VARIABLES
  record,    \* the row of the investigation, None before it is created
  now,       \* the clock, in units of the duration budget
  queued,    \* whether the queue holds its id
  worker,    \* per worker: where it is, the snapshot it read, its copy, calls made
  client,    \* per client: where it is, and the snapshot it read
  crashes,   \* crashes of workers so far
  executed,  \* history: tool calls made, saved or not
  told       \* history: how a client was told that its investigation has ended

vars == <<record, now, queued, worker, client, crashes, executed, told>>

Nodes == {"plan", "retrieve", "compare", "verify", "report", "done"}

Reasons == {"success", "insufficient_evidence", "max_steps", "timeout",
            "token_budget", "tool_budget", "retrieval_budget", "tool_failure",
            "cancelled", "workflow_failure"}

StatusOf(reason) ==
  IF reason = "success" THEN "completed"
  ELSE IF reason = "cancelled" THEN "cancelled"
  ELSE IF reason = "workflow_failure" THEN "failed"
  ELSE "partial"

New == [status |-> "queued", node |-> "plan", revision |-> 0, started |-> None,
        steps |-> 0, tokens |-> 0, tools |-> 0, retrievals |-> 0,
        plan |-> None, pending |-> None, stop |-> None]

State ==
  [status : {"queued", "running", "completed", "partial", "failed", "cancelled"},
   node : Nodes, revision : Nat, started : 0..MaxTime \cup {None},
   steps : 0..MaxSteps, tokens : 0..(MaxTokens + MaxUse), tools : 0..MaxToolCalls,
   retrievals : 0..MaxRetrievals, plan : Plans \cup {None},
   pending : {None, "success", "insufficient_evidence", "tool_failure"},
   stop : Reasons \cup {None}]

\* None stands for no record and for no reason.
ASSUME NoneAssumption == None \notin State \cup Reasons

Away == [at |-> "idle", seen |-> None, draft |-> None, calls |-> 0]

Terminal(s) == s.stop # None

\* __post_init__: a terminal state is one at the node done with a reason to stop.
WellFormed(s) == Terminal(s) <=> (s.node = "done" /\ s.status \notin {"queued", "running"})

TypeOK ==
  /\ record \in State \cup {None}
  /\ record # None => WellFormed(record)
  /\ now \in 0..MaxTime
  /\ queued \in BOOLEAN
  /\ worker \in [Workers -> [at : {"idle", "read", "node", "tools", "save"},
                             seen : State \cup {None}, draft : State \cup {None},
                             calls : Nat]]
  /\ client \in [Clients -> [at : {"idle", "enqueue", "cancel"}, seen : State \cup {None}]]
  /\ crashes \in 0..MaxCrashes /\ executed \in Nat /\ told \in Reasons \cup {None}

Init ==
  /\ record = None /\ now = 0 /\ queued = FALSE
  /\ worker = [w \in Workers |-> Away]
  /\ client = [c \in Clients |-> [at |-> "idle", seen |-> None]]
  /\ crashes = 0 /\ executed = 0 /\ told = None

-----------------------------------------------------------------------------
(* Budgets and stopping.                                                   *)

Elapsed(s) == s.started # None /\ now - s.started >= MaxDuration

\* Fault: the token budget is not looked at.
SpentTimeOnly(s) == IF Elapsed(s) THEN "timeout" ELSE None

\* _budget_reason without steps: what stops a node that has just run.
Spent(s) ==
  IF s.tokens >= MaxTokens THEN "token_budget"
  ELSE IF Elapsed(s) THEN "timeout" ELSE None

\* _budget_reason with steps: what stops the next node.
Exhausted(s) == IF s.steps >= MaxSteps THEN "max_steps" ELSE Spent(s)

\* Fault: the two budgets of a call are compared after it is counted.
ToolsSpentLate(s) ==
  IF s.tools > MaxToolCalls THEN "tool_budget"
  ELSE IF s.node = "retrieve" /\ s.retrievals > MaxRetrievals THEN "retrieval_budget"
  ELSE None

\* _tool_budget_reason: searches of evidence and incidents count as retrievals.
ToolsSpent(s) ==
  IF s.tools >= MaxToolCalls THEN "tool_budget"
  ELSE IF s.node = "retrieve" /\ s.retrievals >= MaxRetrievals THEN "retrieval_budget"
  ELSE None

Stopped(s, reason) ==
  [s EXCEPT !.status = StatusOf(reason), !.node = "done", !.stop = reason]

StoppedIf(s, reason) == IF reason = None THEN s ELSE Stopped(s, reason)

\* The running copy of a snapshot; the clock of a queued one starts.
Started(s) ==
  IF s.status = "queued" THEN [s EXCEPT !.status = "running", !.started = now] ELSE s

-----------------------------------------------------------------------------
(* Clients: submission and cancellation over HTTP.                         *)

\* start: the id is a digest of the owner and the idempotency key, so a repeated
\* submission finds the record, whatever its state, and enqueues it again. (One with
\* another question under the same key is answered 409 and does nothing more.)
SubmitCreate(c) ==
  /\ client[c].at = "idle"
  /\ record' = IF record = None THEN New ELSE record
  /\ client' = [client EXCEPT ![c].at = "enqueue"]
  /\ UNCHANGED <<now, queued, worker, crashes, executed, told>>

\* The queue takes the id, or is unavailable and the client is answered 503.
Enqueue(c) ==
  /\ client[c].at = "enqueue"
  /\ queued' \in {queued, TRUE}
  /\ client' = [client EXCEPT ![c].at = "idle"]
  /\ UNCHANGED <<record, now, worker, crashes, executed, told>>

CancelRead(c) ==
  /\ client[c].at = "idle" /\ record # None /\ ~Terminal(record)
  /\ client' = [client EXCEPT ![c] = [at |-> "cancel", seen |-> record]]
  /\ UNCHANGED <<record, now, queued, worker, crashes, executed, told>>

\* Cancelled again, it is cancelled; ended otherwise, that is answered with 409.
CancelAgain(c) ==
  /\ client[c].at = "idle" /\ record # None /\ Terminal(record)
  /\ told' = IF record.status = "cancelled" THEN record.stop ELSE told
  /\ UNCHANGED <<record, now, queued, worker, client, crashes, executed>>

\* The report of an investigation that has ended says how.
Reported(s) == s.stop

\* Before the end the client is answered 409, and nothing changes.
ReadReport(c) ==
  /\ client[c].at = "idle" /\ record # None /\ Terminal(record)
  /\ told' = Reported(record)
  /\ UNCHANGED <<record, now, queued, worker, client, crashes, executed>>

\* Fault: the row is saved whatever its revision.
MatchesAny(seen) == TRUE

\* The store's UPDATE ... WHERE revision = expected.
Matches(seen) == record.revision = seen.revision

\* Fault: a conflict is swallowed, and the client told that it has cancelled.
CancelAnyway(c) ==
  LET seen == client[c].seen
      stopped == [Stopped(seen, "cancelled") EXCEPT !.revision = seen.revision + 1]
  IN
  /\ client[c].at = "cancel"
  /\ record' = IF Matches(seen) THEN stopped ELSE record
  /\ told' = "cancelled"
  /\ client' = [client EXCEPT ![c] = [at |-> "idle", seen |-> None]]
  /\ UNCHANGED <<now, queued, worker, crashes, executed>>

\* A conflict raises: the cancellation is not accepted, and may be asked again.
CancelSave(c) ==
  LET seen == client[c].seen
      stopped == [Stopped(seen, "cancelled") EXCEPT !.revision = seen.revision + 1]
  IN
  /\ client[c].at = "cancel"
  /\ \/ Matches(seen) /\ record' = stopped /\ told' = "cancelled"
     \/ ~Matches(seen) /\ UNCHANGED <<record, told>>
  /\ client' = [client EXCEPT ![c] = [at |-> "idle", seen |-> None]]
  /\ UNCHANGED <<now, queued, worker, crashes, executed>>

-----------------------------------------------------------------------------
(* Workers: run, one node after the other.                                 *)

Goto(w, at, draft) == worker' = [worker EXCEPT ![w].at = at, ![w].draft = draft]

\* A message is received, and may be delivered again.
Receive(w) ==
  /\ worker[w].at = "idle" /\ queued
  /\ queued' \in BOOLEAN
  /\ worker' = [worker EXCEPT ![w].at = "read"]
  /\ UNCHANGED <<record, now, client, crashes, executed, told>>

\* advance, up to the node: a terminal record ends the run.
Read(w) ==
  /\ worker[w].at = "read"
  /\ LET copy == Started(record) IN
     \/ /\ Terminal(record)
        /\ worker' = [worker EXCEPT ![w] = Away]
     \/ /\ ~Terminal(record)
        /\ worker' = [worker EXCEPT ![w] =
             [at |-> IF Exhausted(copy) = None THEN "node" ELSE "save",
              seen |-> record, draft |-> StoppedIf(copy, Exhausted(copy)), calls |-> 0]]
  /\ UNCHANGED <<record, now, queued, client, crashes, executed, told>>

AtNode(w, node) == worker[w].at = "node" /\ worker[w].draft.node = node

\* The node ran: it is counted with its tokens, and the budget is looked at.
Ran(s, use) == [s EXCEPT !.steps = @ + 1, !.tokens = @ + use]
AfterNode(s) == StoppedIf(s, Spent(s))

Plan(w) ==
  /\ AtNode(w, "plan")
  /\ \E p \in Plans, use \in 0..MaxUse :
       Goto(w, "save", AfterNode([Ran(worker[w].draft, use) EXCEPT
                                    !.plan = p, !.node = "retrieve"]))
  /\ UNCHANGED <<record, now, queued, client, crashes, executed, told>>

BeginTools(w) ==
  /\ AtNode(w, "retrieve") \/ AtNode(w, "compare")
  /\ Goto(w, "tools", Ran(worker[w].draft, 0))
  /\ UNCHANGED <<record, now, queued, client, crashes, executed, told>>

\* The tool requests of the node.
Requests(s) == IF s.node = "retrieve" THEN s.plan.searches ELSE s.plan.comparisons

Calling(w) == worker[w].at = "tools" /\ worker[w].calls < Requests(worker[w].draft)

\* The budget refuses the next call.
CallRefused(w) ==
  LET s == worker[w].draft IN
  /\ Calling(w) /\ ToolsSpent(s) # None
  /\ Goto(w, "save", Stopped(s, ToolsSpent(s)))
  /\ UNCHANGED <<record, now, queued, client, crashes, executed, told>>

\* A call that succeeds is counted, and may have taken the duration budget; one
\* that fails sends the investigation to verify with what it has.
Call(w) ==
  LET s == worker[w].draft
      counted == [s EXCEPT !.tools = @ + 1,
                           !.retrievals = @ + (IF s.node = "retrieve" THEN 1 ELSE 0)]
  IN
  /\ Calling(w) /\ ToolsSpent(s) = None
  /\ executed' = executed + 1
  /\ \/ worker' = [worker EXCEPT ![w].draft = AfterNode(counted), ![w].calls = @ + 1,
                                 ![w].at = IF Spent(counted) = None THEN "tools" ELSE "save"]
     \/ Goto(w, "save", [counted EXCEPT !.node = "verify", !.pending = "tool_failure"])
  /\ UNCHANGED <<record, now, queued, client, crashes, told>>

EndTools(w) ==
  LET s == worker[w].draft IN
  /\ worker[w].at = "tools" /\ ~Calling(w)
  /\ Goto(w, "save", [s EXCEPT !.node = IF @ = "retrieve" THEN "compare" ELSE "verify"])
  /\ UNCHANGED <<record, now, queued, client, crashes, executed, told>>

\* Fault: the verdict of the verifier replaces the failure of a tool.
VerdictAlone(pending, sufficient) ==
  IF sufficient THEN "success" ELSE "insufficient_evidence"

\* What the report will end with: a failed tool is not forgotten.
Verdict(pending, sufficient) ==
  IF pending # None THEN pending
  ELSE IF sufficient THEN "success" ELSE "insufficient_evidence"

Verify(w) ==
  LET s == worker[w].draft IN
  /\ AtNode(w, "verify")
  /\ \E sufficient \in BOOLEAN, use \in 0..MaxUse :
       Goto(w, "save", AfterNode([Ran(s, use) EXCEPT
              !.node = "report", !.pending = Verdict(s.pending, sufficient)]))
  /\ UNCHANGED <<record, now, queued, client, crashes, executed, told>>

\* _report: the budget comes before the pending reason.
Report(w) ==
  LET s == worker[w].draft IN
  /\ AtNode(w, "report")
  /\ \E use \in 0..MaxUse :
       LET ran == Ran(s, use) IN
       Goto(w, "save", Stopped(ran, IF Spent(ran) = None THEN s.pending ELSE Spent(ran)))
  /\ UNCHANGED <<record, now, queued, client, crashes, executed, told>>

\* The planner, a tool, the verifier or the reporter raises: the copy made at the
\* start of the node is stopped, and what the node did is not counted.
NodeRaises(w) ==
  LET s == worker[w].draft
      begun == [worker[w].seen EXCEPT !.status = "running", !.started = s.started]
  IN
  /\ worker[w].at \in {"node", "tools"}
  /\ Goto(w, "save", Stopped(begun, "workflow_failure"))
  /\ UNCHANGED <<record, now, queued, client, crashes, executed, told>>

\* Fault: the revision is not incremented.
SaveUncounted(w) ==
  LET seen == worker[w].seen
      saved == worker[w].draft
  IN
  /\ worker[w].at = "save"
  /\ record' = IF Matches(seen) THEN saved ELSE record
  /\ worker' = [worker EXCEPT ![w] = IF Matches(seen) /\ ~Terminal(saved)
                                     THEN [Away EXCEPT !.at = "read"] ELSE Away]
  /\ UNCHANGED <<now, queued, client, crashes, executed, told>>

\* Fault: a run is one node.
SaveOnce(w) ==
  LET seen == worker[w].seen
      saved == [worker[w].draft EXCEPT !.revision = seen.revision + 1]
  IN
  /\ worker[w].at = "save"
  /\ record' = IF Matches(seen) THEN saved ELSE record
  /\ worker' = [worker EXCEPT ![w] = Away]
  /\ UNCHANGED <<now, queued, client, crashes, executed, told>>

\* _persist: the next node, the end of the run, or a conflict that raises.
Save(w) ==
  LET seen == worker[w].seen
      saved == [worker[w].draft EXCEPT !.revision = seen.revision + 1]
  IN
  /\ worker[w].at = "save"
  /\ \/ /\ Matches(seen) /\ record' = saved
        /\ worker' = [worker EXCEPT ![w] = IF Terminal(saved) THEN Away
                                           ELSE [Away EXCEPT !.at = "read"]]
     \/ /\ ~Matches(seen) /\ UNCHANGED record
        /\ worker' = [worker EXCEPT ![w] = Away]
  /\ UNCHANGED <<now, queued, client, crashes, executed, told>>

\* A worker dies, or its store fails, and its message is delivered again.
Crash(w) ==
  /\ worker[w].at # "idle" /\ crashes < MaxCrashes
  /\ crashes' = crashes + 1 /\ queued' = TRUE
  /\ worker' = [worker EXCEPT ![w] = Away]
  /\ UNCHANGED <<record, now, client, executed, told>>

Tick ==
  /\ now < MaxTime
  /\ now' = now + 1
  /\ UNCHANGED <<record, queued, worker, client, crashes, executed, told>>

Work(w) == \/ Receive(w) \/ Read(w) \/ Plan(w) \/ BeginTools(w) \/ CallRefused(w) \/ Call(w)
           \/ EndTools(w) \/ Verify(w) \/ Report(w) \/ Save(w)

Next == \/ \E c \in Clients : SubmitCreate(c) \/ Enqueue(c) \/ CancelRead(c) \/ CancelSave(c)
                              \/ CancelAgain(c) \/ ReadReport(c)
        \/ \E w \in Workers : Work(w) \/ NodeRaises(w) \/ Crash(w)
        \/ Tick

Spec == Init /\ [][Next]_vars

\* A worker process takes its messages and does not stop in the middle of a run.
Fairness == \A w \in Workers : WF_vars(Work(w))

FairSpec == Spec /\ Fairness

-----------------------------------------------------------------------------
(* Properties.                                                             *)

\* A finished investigation never changes, whoever still works on it: a worker
\* that was overtaken by a cancellation, or by another delivery, saves nothing.
TerminalIsFinal ==
  [][record # None /\ Terminal(record) => record' = record]_vars

\* What a client was told of the end holds: after a cancellation was accepted no
\* worker's node completes, and a report that was read is the report.
EndHolds == told # None => record.stop = told

\* The saved usage stays within the budget; only the tokens of the last node,
\* known once it ran, may pass it.
UsageWithinBudget ==
  record # None =>
    /\ record.steps <= MaxSteps
    /\ record.tools <= MaxToolCalls /\ record.retrievals <= MaxRetrievals
    /\ record.tokens >= MaxTokens => Terminal(record)

\* An investigation completes only after every request of its plan was answered
\* and its evidence was found sufficient, over all workers that had a part in it.
SuccessIsEarned ==
  record # None /\ record.stop = "success" =>
    /\ record.plan # None /\ record.pending = "success"
    /\ record.tools = record.plan.searches + record.plan.comparisons
    /\ record.retrievals = record.plan.searches

Abstract == INSTANCE InvestigationRecord WITH
  status <- IF record = None THEN None ELSE record.status,
  node   <- IF record = None THEN None ELSE record.node,
  steps  <- IF record = None THEN 0 ELSE record.steps,
  stop   <- IF record = None THEN None ELSE record.stop

\* Workers and clients that race on one record look to its owner like a single
\* executor: the compare-and-set loses no node and repeats none.
ActsAsOne == Abstract!Spec

\* An investigation that is in the queue ends, within its budget or by it.
QueuedTerminates ==
  (queued /\ record # None) ~> (record # None /\ Terminal(record))

\* The tools are called no more often than the budget says (spec.md:107, "the
\* agent SHALL enforce configured limits for ... tools").
ExecutedWithinBudget == executed <= MaxToolCalls
=============================================================================
