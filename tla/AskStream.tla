------------------------------ MODULE AskStream ------------------------------
(***************************************************************************)
(* The streaming Ask endpoint. Every request is a generator that one event *)
(* loop drives: it runs without interruption from one event to the next,   *)
(* and other requests run while it is suspended at an event. A request in  *)
(* a provider call, in the pause before a retry or at the queries of the   *)
(* verifier blocks the loop; time and the policy table move on. The        *)
(* generation breaker is shared, and the quota rows, which are in          *)
(* PostgreSQL: one principal asks, so that the row of its tenant and its   *)
(* own always agree and one bucket stands for both. (The searches that the *)
(* same quota admits are in EvidenceSearch.) External: the index (what it  *)
(* finds) and the model (what it streams).                                 *)
(***************************************************************************)
EXTENDS CircuitBreaker, Grounding, Authorization, Quota

CONSTANTS
  Requests,      \* HTTP requests, each made at most once
  Principal,     \* who asks
  Worlds,        \* what is outside, and the bounds on it: a sequence of [asking, hits, words,
                 \* outcomes, replies, policies, releases, quota, maxDeltas,
                 \* maxChanges, maxTime, maxCrashes]
  MaxAttempts    \* max_generation_attempts

ASSUME AskAssumption ==
  /\ MaxAttempts \in 1..2
  /\ \A w \in ToSet(Worlds) :
       /\ w.asking \subseteq Requests
       /\ {w.maxDeltas, w.maxChanges, w.maxTime, w.maxCrashes} \subseteq Nat
       /\ w.hits \in Seq(ToSet(w.hits))
       /\ \A i \in ToSet(w.hits) : i.text \in Seq(ToSet(i.text))
       /\ \A i, k \in ToSet(w.hits) :  \* an index has one item per chunk
            Identity(i) = Identity(k) => i = k
       /\ \A m \in w.replies :
            /\ m.claims \in Seq(ToSet(m.claims))
            /\ \A c \in ToSet(m.claims) : c.cites \in Seq(ToSet(c.cites))
  /\ IsFiniteSet(Requests)

VARIABLES
  world,      \* the index in Worlds of the one this behaviour happens in
  policies,   \* document policies in PostgreSQL
  stream,     \* per request: the state of its generator
  bucket,     \* the quota row: its window, the requests and the active ones it counts
  lease,      \* per request: the window its lease was reserved in, or NoWindow
  breaker,    \* the circuit breaker on generation
  now,        \* the clock
  changes,    \* policy changes so far
  crashes,    \* restarts of the process so far
  probe,      \* history: the request whose call made the circuit half open
  outage,     \* history: when a failure last left the circuit open, None after a success
  leaks,      \* history: requests that ended without a release the backend accepted
  since       \* history: per request, the policy tables in force since its call completed

quota == <<bucket, lease, leaks>>
circuit == <<breaker, probe, outage>>
environment == <<world, now, changes, crashes>>
vars == <<environment, policies, stream, quota, circuit, since>>

Outside == Worlds[world]

\* How a provider call can end badly, and what the adapter makes of it.
Failure == [
  timeout      |-> [kind |-> "timeout",     retryable |-> TRUE],
  rate_limit   |-> [kind |-> "unavailable", retryable |-> TRUE],
  server_error |-> [kind |-> "unavailable", retryable |-> TRUE],
  client_error |-> [kind |-> "unavailable", retryable |-> FALSE],
  failed       |-> [kind |-> "unavailable", retryable |-> TRUE],
  cut_short    |-> [kind |-> "incomplete",  retryable |-> FALSE],
  bad_schema   |-> [kind |-> "malformed",   retryable |-> FALSE]]

\* _parse_response: an error, an unfinished or an unusable final response.
ParseFailure(reply) ==
  CASE reply.error               -> "failed"
    [] reply.status # "completed" -> "cut_short"
    [] reply.claims = <<>> \/ ~reply.usage
         \/ \E c \in ToSet(reply.claims) : \E q \in ToSet(c.cites) : Len(q[3]) # 2
                                 -> "bad_schema"
    [] OTHER                     -> "none"

EmptyContext == [evidence |-> <<>>, tokens |-> 0]

NoFinal == [status |-> "none", reason |-> "none", claims |-> <<>>, sources |-> {}]

Idle == [phase |-> "idle", attempt |-> 0, evidence |-> <<>>, packed |-> EmptyContext,
         candidate |-> <<>>, released |-> <<>>,
         claims |-> <<>>, checked |-> 0, failures |-> {}, final |-> NoFinal]

\* What GroundedAnswer's constructor insists on.
WellFormedAnswer(final) ==
  /\ (final.status = "verified") =>
       final.claims # <<>> /\ \A c \in ToSet(final.claims) : c.cites # <<>>
  /\ (final.status = "abstained") => final.reason # "none" /\ final.claims = <<>>

Suspended == {"retrieving", "generating", "delta", "final"}
Blocking  == {"calling", "backoff", "verifying"}

\* The event loop is free for this request.
Runs(r, phase) == /\ stream[r].phase = phase
                  /\ \A q \in Requests \ {r} : stream[q].phase \notin Blocking

Set(r, s) == stream' = [stream EXCEPT ![r] = s]

Finals(s, status, reason, claims, sources) ==
  [s EXCEPT !.phase = "final",
            !.final = [status |-> status, reason |-> reason,
                       claims |-> claims, sources |-> sources]]

Identities(evidence) == {Identity(i) : i \in ToSet(evidence)}

\* The references of these items that the principal may read now.
Readable(evidence) ==
  AuthorizeReads(Principal, {Reference(i) : i \in ToSet(evidence)}, policies)

Init ==
  /\ world \in DOMAIN Worlds
  /\ policies = Worlds[world].policies
  /\ stream = [r \in Requests |-> Idle]
  /\ bucket = Fresh(NoWindow) /\ lease = [r \in Requests |-> NoWindow]
  /\ breaker = Closed
  /\ now = 0 /\ changes = 0 /\ crashes = 0
  /\ probe = None /\ outage = None
  /\ leaks = {} /\ since = [r \in Requests |-> {}]

-----------------------------------------------------------------------------
(* Admission *)

Full(b) == RateLimited(b) \/ ConcurrentLimited(b)

\* The route reserves a lease and only creates the generator.
Ask(r) ==
  /\ r \in Outside.asking
  /\ Runs(r, "idle")
  /\ LET row == CurrentBucket(bucket, WindowStart(now))
     IN ~Full(row) /\ bucket' = Counted(row)
  /\ lease' = [lease EXCEPT ![r] = WindowStart(now)]
  /\ Set(r, [Idle EXCEPT !.phase = "opened"])
  /\ UNCHANGED <<environment, policies, circuit, leaks, since>>

\* Quota exceeded, or its backend unavailable.
Refuse(r) ==
  /\ r \in Outside.asking
  /\ Runs(r, "idle")
  /\ LET row == CurrentBucket(bucket, WindowStart(now))
     IN \/ Full(row) /\ bucket' = row
        \/ "unavailable" \in Outside.quota /\ UNCHANGED bucket
  /\ Set(r, [Idle EXCEPT !.phase = "closed"])
  /\ UNCHANGED <<environment, policies, circuit, lease, leaks, since>>

\* The response is iterated for the first time: the first status event.
Begin(r) ==
  /\ Runs(r, "opened")
  /\ Set(r, [stream[r] EXCEPT !.phase = "retrieving"])
  /\ UNCHANGED <<environment, policies, quota, circuit, since>>

-----------------------------------------------------------------------------
(* Retrieval *)

\* The hits of the index within the principal's scope that the enforcer authorizes.
Retrieved ==
  LET hits == Outside.hits
  IN Selected(hits, {n \in DOMAIN hits : Reference(hits[n]) \in Readable(hits)})

RetrievalFails(r) ==
  /\ Runs(r, "retrieving")
  /\ Set(r, Finals(stream[r], "failed", "retrieval_unavailable", <<>>, {}))
  /\ UNCHANGED <<environment, policies, quota, circuit, since>>

\* Retrieve, pack, and either abstain at once or announce the generation.
Retrieve(r) ==
  /\ Runs(r, "retrieving")
  /\ LET s == [stream[r] EXCEPT !.evidence = Retrieved, !.packed = Pack(Retrieved)]
         reason == Decide(s.packed.evidence, {})
     IN Set(r, IF reason # "none" THEN Finals(s, "abstained", reason, <<>>, {})
               ELSE [s EXCEPT !.phase = "generating"])
  /\ UNCHANGED <<environment, policies, quota, circuit, since>>

-----------------------------------------------------------------------------
(* Generation *)

EvidenceOnly(s, reason) == Finals(s, "degraded", reason, <<>>, Identities(s.evidence))

\* One turn of the attempt loop up to the provider call: the breaker admits
\* the call, or the client gets the evidence without an answer.
Attempt(r) ==
  /\ stream[r].phase \in {"generating", "backoff"}
  /\ Runs(r, stream[r].phase)
  /\ IF Acquires(breaker, now)
     THEN /\ breaker' = Acquired(breaker)
          /\ Set(r, [stream[r] EXCEPT !.phase = "calling", !.attempt = @ + 1,
                                      !.candidate = <<>>])
          /\ probe' = IF breaker.state = "open" THEN r ELSE probe
     ELSE /\ Set(r, EvidenceOnly(stream[r], "unavailable"))
          /\ UNCHANGED <<breaker, probe>>
  /\ UNCHANGED <<environment, policies, quota, outage, since>>

\* A text delta: released if the text so far begins an evidence text.
Delta(r, word) ==
  /\ Runs(r, "calling")
  /\ Len(stream[r].candidate) < Outside.maxDeltas
  /\ LET candidate == Append(stream[r].candidate, word)
         s == [stream[r] EXCEPT !.candidate = candidate]
     IN Set(r, IF Passes(s.packed.evidence, candidate)
               THEN [s EXCEPT !.phase = "delta", !.released = Append(@, word)]
               ELSE s)
  /\ UNCHANGED <<environment, policies, quota, circuit, since>>

Resume(r) ==
  /\ Runs(r, "delta")
  /\ Set(r, [stream[r] EXCEPT !.phase = "calling"])
  /\ UNCHANGED <<environment, policies, quota, circuit, since>>

\* Fault: the attempts are counted from zero.
CanRetryOnceMore(s, failure) ==
  failure.retryable /\ s.released = <<>> /\ s.attempt < MaxAttempts + 1

CanRetry(s, failure) ==
  failure.retryable /\ s.released = <<>> /\ s.attempt < MaxAttempts

AfterFailure(s, failure) ==
  IF CanRetry(s, failure) THEN [s EXCEPT !.phase = "backoff"]
  ELSE IF failure.kind \in {"incomplete", "malformed"}
  THEN Finals(s, "failed", failure.kind, <<>>, {})
  ELSE EvidenceOnly(s, failure.kind)

\* attempt(): every exception counts, whatever it is.
Failed == /\ breaker' = RecordFailure(breaker, now)
          /\ outage' = IF breaker'.state = "open" THEN now ELSE outage

Fails(r, failure) == Failed /\ Set(r, AfterFailure(stream[r], failure))

ProviderFails(r, outcome) ==
  /\ Runs(r, "calling")
  /\ Fails(r, Failure[outcome])
  /\ UNCHANGED <<environment, policies, quota, probe, since>>

Succeeds == /\ breaker' = RecordSuccess(breaker)
            /\ outage' = None

\* The provider's stream ends without a completed response.
ProviderStops(r) ==
  /\ Runs(r, "calling")
  /\ Succeeds
  /\ Set(r, Finals(stream[r], "failed", "incomplete", <<>>, {}))
  /\ UNCHANGED <<environment, policies, quota, probe, since>>

\* build_grounded_draft: the claims go to the verifier, or are refused.
Drafted(s, claims) ==
  IF DraftAccepted(s.packed.evidence, claims)
  THEN [s EXCEPT !.phase = "verifying", !.claims = claims]
  ELSE Finals(s, "failed", "malformed", <<>>, {})

\* The final response arrives: unusable, it is a failure of the call; else the
\* call has succeeded whatever becomes of the claims.
ProviderCompletes(r, reply) ==
  /\ Runs(r, "calling")
  /\ IF ParseFailure(reply) # "none"
     THEN Fails(r, Failure[ParseFailure(reply)]) /\ UNCHANGED since
     ELSE /\ Succeeds
          /\ Set(r, Drafted(stream[r], reply.claims))
          /\ since' = [since EXCEPT ![r] = {policies}]
  /\ UNCHANGED <<environment, policies, quota, probe>>

-----------------------------------------------------------------------------
(* Verification *)

\* Fault: the verifier relies on the authorization of the retrieval.
VerifierReadsAsRetrieved(s, up) == {Reference(i) : i \in ToSet(s.evidence)}

\* What the verifier finds authorized; nothing when the policy store is down.
VerifierReads(s, up) == IF up THEN Readable(s.evidence) ELSE {}

\* One turn of the verifier's loop: a claim is resolved, authorized by a query
\* of its own, and compared with the words it cites.
VerifyClaim(r, up) ==
  /\ Runs(r, "verifying")
  /\ stream[r].checked < Len(stream[r].claims)
  /\ LET s == stream[r]
         claim == s.claims[s.checked + 1]
     IN Set(r, [s EXCEPT !.checked = @ + 1,
                         !.failures = @ \cup ClaimFailures(claim, s.evidence,
                                                           VerifierReads(s, up))])
  /\ UNCHANGED <<environment, policies, quota, circuit, since>>

\* After the last claim: the answer goes out, or the abstention.
Conclude(r) ==
  /\ Runs(r, "verifying")
  /\ stream[r].checked = Len(stream[r].claims)
  /\ LET s == stream[r]
         reason == Decide(s.packed.evidence, s.failures)
     IN Set(r, IF reason # "none" THEN Finals(s, "abstained", reason, <<>>, {})
               ELSE Finals(s, "verified", "none", s.claims, CitedSources(s.claims, s.evidence)))
  /\ UNCHANGED <<environment, policies, quota, circuit, since>>

-----------------------------------------------------------------------------
(* The end of a stream *)

\* The generator is over and the lease released; a release that fails is dropped.
Ends(r, accepted) ==
  /\ Set(r, [Idle EXCEPT !.phase = "closed"])
  /\ bucket' = IF accepted THEN Freed(bucket, lease[r]) ELSE bucket
  /\ leaks' = IF accepted THEN leaks ELSE leaks \cup {r}
  /\ since' = [since EXCEPT ![r] = {}]
  /\ UNCHANGED lease

Finish(r) ==
  /\ Runs(r, "final")
  /\ \E accepted \in Outside.releases : Ends(r, accepted)
  /\ UNCHANGED <<environment, policies, circuit>>

\* Fault: a cancelled stream keeps its lease.
DisconnectKeepsLease(r) ==
  /\ stream[r].phase \in Suspended
  /\ Runs(r, stream[r].phase)
  /\ Set(r, [Idle EXCEPT !.phase = "closed"])
  /\ since' = [since EXCEPT ![r] = {}]
  /\ UNCHANGED <<environment, policies, quota, circuit>>

\* The client is gone: the generator is closed at the event it is suspended
\* at. In a provider call, the breaker learns of neither success nor failure.
Disconnect(r) ==
  /\ stream[r].phase \in Suspended
  /\ Runs(r, stream[r].phase)
  /\ \E accepted \in Outside.releases : Ends(r, accepted)
  /\ UNCHANGED <<environment, policies, circuit>>

\* An exception that nothing in the generator names, out of the retrieval or of
\* the provider's stream: the response breaks off without a last event.
Raises(r) ==
  /\ "raises" \in Outside.outcomes
  /\ stream[r].phase \in {"retrieving", "calling"}
  /\ Runs(r, stream[r].phase)
  /\ IF stream[r].phase = "calling" THEN Failed ELSE UNCHANGED <<breaker, outage>>
  /\ \E accepted \in Outside.releases : Ends(r, accepted)
  /\ UNCHANGED <<environment, policies, probe>>

\* Gone before the first iteration: closing a generator that has not begun
\* runs none of it, so the lease stays counted until its window is over.
Abandon(r) ==
  /\ Runs(r, "opened")
  /\ Set(r, [Idle EXCEPT !.phase = "closed"])
  /\ leaks' = leaks \cup {r}
  /\ UNCHANGED <<environment, policies, bucket, lease, circuit, since>>

-----------------------------------------------------------------------------
(* The environment *)

Tick == /\ now < Outside.maxTime
        /\ now' = now + 1
        /\ UNCHANGED <<world, policies, stream, quota, circuit, changes, crashes, since>>

\* A document is deleted or its access policy replaced, perhaps between two
\* queries of a verifier.
PolicyChange ==
  /\ changes < Outside.maxChanges
  /\ changes' = changes + 1
  /\ \E p \in policies : \E q \in {[p EXCEPT !.deleted = TRUE], [p EXCEPT !.policy = {}]} :
       policies' = (policies \ {p}) \cup {q}
  /\ since' = [r \in Requests |-> IF stream[r].phase = "verifying"
                                  THEN since[r] \cup {policies'} ELSE since[r]]
  /\ UNCHANGED <<world, stream, quota, circuit, now, crashes>>

Open(r) == stream[r].phase \notin {"idle", "closed"}

\* The process restarts: its streams and its breaker are gone, its leases stay.
Crash ==
  /\ crashes < Outside.maxCrashes
  /\ crashes' = crashes + 1
  /\ stream' = [r \in Requests |-> IF Open(r) THEN [Idle EXCEPT !.phase = "closed"]
                                   ELSE stream[r]]
  /\ leaks' = leaks \cup {r \in Requests : Open(r)}
  /\ breaker' = Closed
  /\ probe' = None /\ outage' = None
  /\ since' = [r \in Requests |-> {}]
  /\ UNCHANGED <<world, policies, bucket, lease, now, changes>>

\* What the loop does for an admitted request while its client stays.
Step(r) ==
  \/ Begin(r) \/ RetrievalFails(r) \/ Retrieve(r) \/ Attempt(r) \/ Resume(r)
  \/ \E word \in Outside.words : Delta(r, word)
  \/ \E outcome \in Outside.outcomes \cap DOMAIN Failure : ProviderFails(r, outcome)
  \/ ProviderStops(r) \/ Raises(r)
  \/ \E reply \in Outside.replies : ProviderCompletes(r, reply)
  \/ \E up \in BOOLEAN : VerifyClaim(r, up)
  \/ Conclude(r) \/ Finish(r)

Next ==
  \/ \E r \in Requests : Ask(r) \/ Refuse(r) \/ Step(r) \/ Disconnect(r) \/ Abandon(r)
  \/ Tick \/ PolicyChange \/ Crash

Spec == Init /\ [][Next]_vars

-----------------------------------------------------------------------------
(* Properties *)

TypeOK ==
  /\ world \in DOMAIN Worlds
  /\ \A r \in Requests :
       /\ stream[r].phase \in {"idle", "opened", "closed"} \cup Suspended \cup Blocking
       /\ stream[r].attempt \in 0..MaxAttempts
       /\ stream[r].final.status \in {"none", "failed", "degraded", "abstained", "verified"}
       /\ WellFormedAnswer(stream[r].final)
       /\ lease[r] \in {NoWindow} \cup 0..now
  /\ bucket.started \in {NoWindow} \cup 0..now
  /\ bucket.requests \in 0..MaxRequests /\ bucket.active \in 0..MaxConcurrent
  /\ leaks \subseteq Requests
  /\ breaker.state \in {"closed", "open", "half_open"}
  /\ breaker.failures \in Nat
  /\ breaker.openedAt \in 0..Outside.maxTime \cup {None}
  /\ (breaker.state = "open") => (breaker.openedAt # None)
  /\ now \in 0..Outside.maxTime
  /\ probe \in Requests \cup {None}
  /\ outage \in 0..Outside.maxTime \cup {None}

\* A half-open circuit is the business of one call: the probe is still in the
\* provider, or its client left in the middle of it (attempt() records nothing
\* for a closed generator). No probe ends and leaves the circuit half open.
ProbeAccounted ==
  (breaker.state = "half_open") => stream[probe].phase \in {"calling", "delta", "closed"}

\* A call to the provider begins within the recovery timeout of a failure that
\* left the circuit open only if another call has succeeded since: a call from
\* before the opening that ends well closes the circuit early.
CallsWaitOut ==
  [][\A r \in Requests :
       (stream[r].phase # "calling" /\ stream'[r].attempt > stream[r].attempt)
         => (outage = None \/ now - outage >= RecoveryTimeout)]_vars

\* The text a client is shown before verification is the beginning of one text
\* of the packed evidence, and all of it comes from the attempt in progress:
\* a call that has streamed text is never retried.
TextIsGrounded ==
  \A r \in Requests :
    LET s == stream[r] IN
      (s.released # <<>>) =>
        /\ IsPrefix(s.released, s.candidate)
        /\ \E i \in ToSet(s.packed.evidence) : IsPrefix(s.released, i.text)

\* The packed context is within its token budget, holds each piece of evidence
\* once, and leaves out only pieces that do not fit in what remains of it.
ContextIsMaximal ==
  \A r \in Requests :
    LET evidence == stream[r].evidence
        packed == stream[r].packed
        left == Identities(evidence) \ Identities(packed.evidence)
    IN /\ packed.tokens <= ContextTokens
       /\ Cardinality(Identities(packed.evidence)) = Len(packed.evidence)
       /\ \A i \in ToSet(evidence) :
            (Identity(i) \in left) => Len(i.text) > ContextTokens - packed.tokens

\* An answer goes out only if every claim cites retrieved evidence that live
\* policy rows let this principal read, all of it at one moment since the model's
\* reply was complete, all its words occur in what it cites, and no cited document
\* is quoted in two wordings. (Each claim has a moment of its own: policies may
\* change between two claims' queries, and between the last one and the answer.)
AnswersAreGrounded ==
  [][\A r \in Requests :
       (stream'[r].final # stream[r].final /\ stream'[r].final.status = "verified") =>
         \A claim \in ToSet(stream'[r].final.claims) :
           LET cited == {i \in ToSet(stream[r].evidence) : Identity(i) \in ToSet(claim.cites)}
           IN /\ cited # {}
              /\ ToSet(claim.cites) \subseteq stream'[r].final.sources
              /\ Tokens(claim.text) \subseteq UNION {Tokens(i.text) : i \in cited}
              /\ \E rows \in since[r] : \A i \in cited : \E p \in rows :
                   /\ Reference(i) = <<Principal.tenant, p.document, p.version>>
                   /\ ~p.deleted /\ p.policy \cap SearchScope(Principal) # {}
              /\ \A i, k \in cited : (i.document = k.document) =>
                   (i.version = k.version \/ i.text = k.text)]_vars

\* Of the window its row is in, the quota backend counts as active exactly the
\* streams that are open, and those that ended without a release it accepted: by
\* a client that left before the first event, with the process, or in a release
\* that failed. A stream that ends at its last event, at any event its client
\* leaves at, or in an exception counts no more, and none is taken off twice,
\* whichever windows reservations and releases fall in.
LeaseFollowsStream ==
  bucket.active =
    Cardinality({r \in Requests : lease[r] = bucket.started /\ (Open(r) \/ r \in leaks)})
=============================================================================
