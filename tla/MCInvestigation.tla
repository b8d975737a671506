--------------------------- MODULE MCInvestigation ---------------------------
(* Instances of InvestigationWorkflow for TLC. *)
EXTENDS InvestigationWorkflow, TLC

Ask(s, c) == [searches |-> s, comparisons |-> c]

\* The budget exactly, and one request too many of either kind.
SomePlans == {Ask(1, 1), Ask(2, 0), Ask(1, 2)}
OnePlan == {Ask(1, 1)}

\* Workers run the same code, clients send the same requests.
ActorSymmetry == Permutations(Workers) \cup Permutations(Clients)
=============================================================================
