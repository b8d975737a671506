------------------------- MODULE InvestigationTools -------------------------
(***************************************************************************)
(* The tools of an investigation: retrieval of evidence, comparison of two *)
(* versions of a document, search for incidents. A tool runs its operation *)
(* in a thread of its own and waits for it only so long: the caller is     *)
(* told of a timeout, the thread goes on. Retrieval is a search of         *)
(* EvidenceSearch without lease and cache. External: the version store and *)
(* the incident search.                                                    *)
(***************************************************************************)
EXTENDS EvidenceSearch

CONSTANT MaxResults   \* max_results of the limits of a tool

ASSUME ToolsAssumption ==
  /\ MaxResults \in Nat \ {0}
  /\ \A w \in ToSet(Worlds) : \A r \in DOMAIN w.tools :
       r \in DOMAIN w.asking /\ w.tools[r].tool \in {"retrieve", "compare", "incidents"}

VARIABLE calls   \* per request: the tool call it is, if it is one

toolVars == <<vars, calls>>

IsTool(r) == r \in DOMAIN Outside.tools
Asked(r) == Outside.tools[r]

\* A call: where its thread is, the number of policy changes when it began, the
\* references it found, what came of the operation, what the caller was told.
NoCall == [thread |-> "none", since |-> 1, found |-> <<>>, outcome |-> None, answer |-> None]

Told(code) == [code |-> code, documents |-> {}, changes |-> {}]
Found(documents, changes) == [code |-> "ok", documents |-> documents, changes |-> changes]

Ended(r, outcome) ==
  calls' = [calls EXCEPT ![r].thread = "ended", ![r].outcome = outcome]

InThread(r, step) == IsTool(r) /\ calls[r].thread = step

\* Strangers, and limits past the application's, are refused before any thread.
Refusal(r) ==
  IF ~Who(r).known THEN "unknown_principal"
  ELSE IF Asked(r).tool # "compare" /\ Outside.context.limit > MaxResults THEN "invalid_input"
  ELSE "none"

Call(r) ==
  /\ InThread(r, "none") /\ calls[r].answer = None
  /\ calls' = [calls EXCEPT ![r].since = Len(past),
                 ![r].thread = IF Refusal(r) = "none" THEN "submitted" ELSE "none",
                 ![r].answer = IF Refusal(r) = "none" THEN None ELSE Told(Refusal(r))]
  /\ UNCHANGED vars

\* The thread starts on the operation of its tool.
Begin(r) ==
  /\ InThread(r, "submitted")
  /\ calls' = [calls EXCEPT ![r].thread = Asked(r).tool]
  /\ IF Asked(r).tool = "retrieve" THEN Goes(r, [Idle EXCEPT !.phase = "lexical"])
     ELSE UNCHANGED search
  /\ UNCHANGED <<world, entries, now, quota, breaker, cache, past, published>>

\* At most as many items as the limit.
Bounded(items, limit) == SubSeq(items, 1, IF limit < Len(items) THEN limit ELSE Len(items))

\* The search is over: its evidence, or its failure.
Retrieved(r) ==
  LET evidence == Bounded(search[r].result.evidence, Outside.context.limit)
  IN
  /\ InThread(r, "retrieve") /\ search[r].phase = "done"
  /\ Ended(r, IF search[r].status = "200" THEN Found({RefOf(e) : e \in ToSet(evidence)}, {})
              ELSE Told("backend_unavailable"))
  /\ UNCHANGED vars

\* The references of the two versions to compare.
Compared(r) == <<<<Who(r).tenant, Asked(r).document, Asked(r).left>>,
                 <<Who(r).tenant, Asked(r).document, Asked(r).right>>>>

\* Fault: one readable version is enough.
GrantedSome(principal, references, policies) ==
  AuthorizeReads(principal, references, policies) # {}

\* As many references are authorized as were asked for.
Granted(principal, references, policies) ==
  AuthorizeReads(principal, references, policies) = references

AuthorizeVersions(r) ==
  /\ InThread(r, "compare")
  /\ IF Granted(Who(r), ToSet(Compared(r)), Policies)
     THEN calls' = [calls EXCEPT ![r].thread = "versions", ![r].found = Compared(r)]
     ELSE Ended(r, Told("policy_denied"))
  /\ UNCHANGED vars

Fields == {"source", "content", "timestamp", "parser"}
Changes(left, right) == {f \in Fields : left[f] # right[f]}

\* The versions of the store with this id and document: none if it has no such id.
StoredVersion(r, id) ==
  {v \in Outside.versions : v.tenant = Who(r).tenant /\ v.id = id /\ v.document = Asked(r).document}

CompareVersions(r) ==
  LET left == StoredVersion(r, Asked(r).left)
      right == StoredVersion(r, Asked(r).right)
  IN
  /\ InThread(r, "versions")
  /\ IF left = {} \/ right = {} THEN Ended(r, Told("backend_unavailable"))
     ELSE \E l \in left, k \in right : Ended(r, Found(ToSet(calls[r].found), Changes(l, k)))
  /\ UNCHANGED vars

\* The incidents of the tenant, as many as the limit; each names a version.
SearchIncidents(r) ==
  /\ InThread(r, "incidents")
  /\ LET all == Outside.incidents
         mine == Selected(all, {n \in DOMAIN all : all[n][1] = Who(r).tenant})
     IN calls' = [calls EXCEPT ![r].thread = "authorize",
                               ![r].found = Bounded(mine, Outside.context.limit)]
  /\ UNCHANGED vars

\* Only incidents of documents that may be read now are returned.
AuthorizeIncidents(r) ==
  /\ InThread(r, "authorize")
  /\ Ended(r, Found(AuthorizeReads(Who(r), ToSet(calls[r].found), Policies), {}))
  /\ UNCHANGED vars

\* A store raises in the thread.
OperationFails(r) ==
  /\ "tools" \in Outside.down
  /\ \E step \in {"compare", "versions", "incidents", "authorize"} : InThread(r, step)
  /\ Ended(r, Told("backend_unavailable"))
  /\ UNCHANGED vars

\* The caller gets what came of the operation.
Answer(r) ==
  /\ InThread(r, "ended") /\ calls[r].answer = None
  /\ calls' = [calls EXCEPT ![r].answer = calls[r].outcome]
  /\ UNCHANGED vars

\* The deadline: a thread that has started goes on, and nobody hears of it.
TimeOut(r) ==
  /\ IsTool(r) /\ calls[r].thread \notin {"none", "ended"} /\ calls[r].answer = None
  /\ calls' = [calls EXCEPT ![r].answer = Told("timeout"),
                 ![r].thread = IF @ = "submitted" THEN "ended" ELSE @]
  /\ UNCHANGED vars

ToolStep(r) ==
  \/ Call(r) \/ Begin(r) \/ Retrieved(r) \/ AuthorizeVersions(r) \/ CompareVersions(r)
  \/ SearchIncidents(r) \/ AuthorizeIncidents(r) \/ OperationFails(r) \/ Answer(r) \/ TimeOut(r)

ToolsInit == Init /\ calls = [r \in Requests |-> NoCall]
ToolsNext == (Next /\ UNCHANGED calls) \/ (\E r \in Requests : ToolStep(r))
ToolsSpec == ToolsInit /\ [][ToolsNext]_toolVars

-----------------------------------------------------------------------------

\* What a tool returns its caller could read at a moment between the call and the
\* answer: evidence, both versions of a comparison and incidents alike, although
\* policies change between the steps of a thread.
ToolsReadInTime ==
  \A r \in DOMAIN Outside.tools :
    (calls[r].answer # None) =>
      \A d \in calls[r].answer.documents :
        \E n \in calls[r].since..Len(past) : d \in AuthorizeReads(Who(r), {d}, past[n])
=============================================================================
