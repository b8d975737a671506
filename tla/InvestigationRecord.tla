------------------------- MODULE InvestigationRecord -------------------------
(***************************************************************************)
(* What the owner of an investigation sees of it: a record that goes       *)
(* through the nodes in order, one at a time, counts them, and stops once, *)
(* for one reason, as if a single executor had worked on it.               *)
(***************************************************************************)
EXTENDS Naturals

CONSTANTS MaxSteps, None

VARIABLES status, node, steps, stop

vars == <<status, node, steps, stop>>

\* The nodes that may come after each node; a failed tool skips to verify.
Follows == [plan |-> {"retrieve"}, retrieve |-> {"compare", "verify"},
            compare |-> {"verify"}, verify |-> {"report"}]

\* The status that each reason to stop gives.
StatusOf(reason) ==
  IF reason = "success" THEN "completed"
  ELSE IF reason = "cancelled" THEN "cancelled"
  ELSE IF reason = "workflow_failure" THEN "failed"
  ELSE "partial"

Init == status = None /\ node = None /\ steps = 0 /\ stop = None

Create ==
  /\ status = None
  /\ status' = "queued" /\ node' = "plan"
  /\ UNCHANGED <<steps, stop>>

Advance ==
  /\ status \in {"queued", "running"} /\ node \in DOMAIN Follows
  /\ steps < MaxSteps
  /\ status' = "running" /\ node' \in Follows[node] /\ steps' = steps + 1
  /\ UNCHANGED stop

Stop(reason) ==
  /\ status \in {"queued", "running"}
  /\ status' = StatusOf(reason) /\ node' = "done" /\ stop' = reason
  /\ steps' \in {steps, steps + 1}
  /\ steps' <= MaxSteps

\* Success, and a verdict on the evidence, come out of the report alone; nodes
\* are counted when they end the investigation, its interruptions are not.
Stops ==
  \/ \E reason \in {"success", "insufficient_evidence", "tool_failure"} :
       node = "report" /\ Stop(reason) /\ steps' = steps + 1
  \/ \E reason \in {"token_budget", "timeout"} : Stop(reason)
  \/ \E reason \in {"tool_budget", "retrieval_budget"} :
       node \in {"retrieve", "compare"} /\ Stop(reason) /\ steps' = steps + 1
  \/ steps = MaxSteps /\ Stop("max_steps")
  \/ \E reason \in {"cancelled", "workflow_failure"} : Stop(reason) /\ steps' = steps

Next == Create \/ Advance \/ Stops

Spec == Init /\ [][Next]_vars
=============================================================================
