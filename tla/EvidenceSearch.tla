--------------------------- MODULE EvidenceSearch ---------------------------
(***************************************************************************)
(* Requests for evidence, each in a thread of its own: a quota lease, an   *)
(* optional cache, the lexical leg, the dense leg behind an embedding      *)
(* provider with a circuit breaker, their fusion, an optional reranking,   *)
(* and the return of the lease. Between any two steps other threads run,   *)
(* time passes and policies change. External: the cluster's answers, the   *)
(* providers, the quota and cache stores' availability, the publisher of   *)
(* the versions that cache keys carry.                                     *)
(***************************************************************************)
EXTENDS Quota, Ranking, CachePolicy, CircuitBreaker

CONSTANTS
  Requests,      \* requests, each made at most once
  Worlds,        \* what is outside, and the bounds on it: a sequence of [asking, limited,
                 \* cached, kind, hybrid, reranked, context, corpora, policies, embeds, scores, replies,
                 \* down, tools, versions, incidents, maxTime, maxChanges]; asking gives
                 \* each request its principal, tools those that a tool makes
  MaxAttempts,   \* attempts at one embedding, and at one generation
  RerankLimit    \* candidates that are reranked

ASSUME SearchAssumption ==
  /\ {MaxAttempts, RerankLimit} \subseteq Nat \ {0}
  /\ \A w \in ToSet(Worlds) :
       /\ DOMAIN w.asking \subseteq Requests
       /\ {w.maxTime, w.maxChanges, w.context.offset} \subseteq Nat
       /\ w.context.limit \in Nat \ {0}
       /\ \A n \in 1..w.context.limit : ScoreUnit % (RrfK + n) = 0
       /\ \A index \in w.corpora :  \* its documents have their chunk's id
            /\ IsFiniteSet(index)
            /\ \A e \in index : {e.chunk, e.match, e.near} \subseteq Int
            /\ \A e, f \in index : e.chunk = f.chunk => e = f
       /\ \A scores \in w.scores : \A s \in ToSet(scores) : s.score \in Int

VARIABLES
  world,      \* the index in Worlds of the one this behaviour happens in
  entries,    \* the entries of the index
  now,        \* the clock
  buckets,    \* quota_buckets
  twin,       \* history: the buckets of an in-memory backend given the same calls
  late,       \* history: a reservation was stamped before a window already begun
  search,     \* per request: how far it is
  breaker,    \* the circuit breakers on embedding and on generation
  cache,      \* cached results
  past,       \* the document policies, after each change
  published   \* the version the application has published

vars == <<world, entries, now, buckets, twin, late, search, breaker, cache, past, published>>
quota == <<buckets, twin, late>>

Outside == Worlds[world]
Policies == Last(past)
Who(r) == Outside.asking[r]
Asking == DOMAIN Outside.asking

NoLease == [scopes |-> <<>>, started |-> None, held |-> FALSE]
Lost(reason) == [lost |-> TRUE, reason |-> reason, hits |-> <<>>]
Leg(hits) == [lost |-> FALSE, reason |-> "none", hits |-> hits]
NoLeg == Lost("not_asked")
NoResult == [evidence |-> <<>>, degraded |-> FALSE, verified |-> FALSE]

Idle == [phase |-> "idle", at |-> 0, lease |-> NoLease, versions |-> 0, hit |-> FALSE,
         attempt |-> 0, lexical |-> NoLeg, dense |-> NoLeg, result |-> NoResult,
         status |-> "none"]

\* The scopes that the requests of a world are counted in.
ScopesOf(asking) == UNION {ToSet(Scopes(asking[r])) : r \in DOMAIN asking}

Init ==
  /\ world \in DOMAIN Worlds
  /\ entries \in Worlds[world].corpora
  /\ now = 0
  /\ buckets = [s \in ScopesOf(Worlds[world].asking) |-> Fresh(NoWindow)]
  /\ twin = buckets /\ late = FALSE
  /\ search = [r \in Requests |-> Idle]
  /\ breaker = [d \in {"embedding", "generation"} |-> Closed]
  /\ cache = {}
  /\ past = <<Worlds[world].policies>> /\ published = 1

At(r, phase) == r \in Asking /\ search[r].phase = phase
Goes(r, s) == search' = [search EXCEPT ![r] = s]

\* The route answers with an error, once the lease is back.
Errs(s, status) == [s EXCEPT !.phase = "release", !.status = status, !.result = NoResult]

\* Retrieval is over: the result, or the answer that is to be made of it.
Retrieval == IF Outside.kind = "answer" THEN "answer" ELSE "keep"

-----------------------------------------------------------------------------
(* The lease *)

\* acquire reads the clock before the backend takes its locks.
Stamp(r) ==
  /\ At(r, "idle") /\ r \notin DOMAIN Outside.tools
  /\ Goes(r, [Idle EXCEPT !.at = now, !.phase = IF Outside.limited THEN "stamped" ELSE "admitted"])
  /\ UNCHANGED <<world, entries, now, quota, breaker, cache, past, published>>

\* The stamp of a request is of a window before one that has begun.
Behind(r) ==
  \E s \in ToSet(Scopes(Who(r))) : \E b \in {buckets[s], twin[s]} :
    b.started # NoWindow /\ WindowStart(search[r].at) < b.started

Reserve(r) ==
  /\ At(r, "stamped")
  /\ LET scopes == Scopes(Who(r))
         decision == PostgresReserve(buckets, scopes, search[r].at)
     IN /\ buckets' = decision.buckets
        /\ twin' = MemoryReserve(twin, scopes, search[r].at).buckets
        /\ late' = (late \/ Behind(r))
        /\ Goes(r, IF decision.outcome = "allowed"
                   THEN [search[r] EXCEPT !.phase = "admitted",
                           !.lease = [scopes |-> scopes, started |-> WindowStart(search[r].at),
                                      held |-> TRUE]]
                   ELSE [search[r] EXCEPT !.phase = "done", !.status = "429"])
  /\ UNCHANGED <<world, entries, now, breaker, cache, past, published>>

\* No decision can be made: the request is refused and nothing is counted.
ReserveFails(r) ==
  /\ At(r, "stamped") /\ "quota" \in Outside.down
  /\ Goes(r, [search[r] EXCEPT !.phase = "done", !.status = "503"])
  /\ UNCHANGED <<world, entries, now, quota, breaker, cache, past, published>>

\* The lease is released whatever became of the search.
Release(r) ==
  /\ At(r, "release")
  /\ Goes(r, [search[r] EXCEPT !.phase = "done", !.lease.held = FALSE])
  /\ IF search[r].lease.held
     THEN buckets' = Released(buckets, search[r].lease) /\ twin' = Released(twin, search[r].lease)
     ELSE UNCHANGED <<buckets, twin>>
  /\ UNCHANGED <<world, entries, now, late, breaker, cache, past, published>>

\* The release fails and is not tried again: nobody takes the lease back.
ReleaseFails(r) ==
  /\ At(r, "release") /\ "quota" \in Outside.down /\ search[r].lease.held
  /\ Goes(r, [search[r] EXCEPT !.phase = "done"])
  /\ UNCHANGED <<world, entries, now, quota, breaker, cache, past, published>>

-----------------------------------------------------------------------------
(* The cache *)

\* The caller names the versions it goes by, before anything is looked up.
Admit(r) ==
  /\ At(r, "admitted")
  /\ Goes(r, [search[r] EXCEPT !.versions = published,
                               !.phase = IF Outside.cached THEN "lookup" ELSE "lexical"])
  /\ UNCHANGED <<world, entries, now, quota, breaker, cache, past, published>>

\* A question has no parameters but its text.
RequestOf(kind) == IF kind = "answer" THEN "question" ELSE Outside.context
KeyOf(r) == CacheKey(Outside.kind, Who(r), search[r].versions, RequestOf(Outside.kind))

\* A read that fails is a miss.
LookUp(r) ==
  /\ At(r, "lookup")
  /\ LET hits == Hits(cache, KeyOf(r), Outside.kind, Who(r))
     IN \/ /\ hits = {} \/ "cache" \in Outside.down
           /\ Goes(r, [search[r] EXCEPT !.phase = "lexical"])
        \/ \E c \in hits :
             Goes(r, [search[r] EXCEPT !.phase = "release", !.hit = TRUE, !.status = "200",
                                       !.result = c.value])
  /\ UNCHANGED <<world, entries, now, quota, breaker, cache, past, published>>

\* The result is kept under the key of the lookup, if it is eligible.
Keep(r) ==
  /\ At(r, "keep")
  /\ cache' = IF Outside.cached /\ EligibleFor(Outside.kind, search[r].result, Who(r))
              THEN Stored(cache, KeyOf(r), Outside.kind, search[r].result) ELSE cache
  /\ Goes(r, [search[r] EXCEPT !.phase = "release", !.status = "200"])
  /\ UNCHANGED <<world, entries, now, quota, breaker, past, published>>

\* A write that fails is dropped.
KeepFails(r) ==
  /\ At(r, "keep") /\ "cache" \in Outside.down
  /\ Goes(r, [search[r] EXCEPT !.phase = "release", !.status = "200"])
  /\ UNCHANGED <<world, entries, now, quota, breaker, cache, past, published>>

-----------------------------------------------------------------------------
(* The legs *)

\* After the lexical leg: on to the dense one, or, alone, to its result.
AfterLexical(s, leg) ==
  IF Outside.hybrid THEN [s EXCEPT !.phase = "embed", !.lexical = leg]
  ELSE IF leg.lost THEN Errs(s, "503")
  ELSE [s EXCEPT !.phase = Retrieval, !.lexical = leg, !.result.evidence = leg.hits]

Lexical(r) ==
  /\ At(r, "lexical")
  /\ Goes(r, AfterLexical(search[r],
               Leg(Authorized(LexicalHits(entries, Who(r), Outside.context),
                              Who(r), Policies))))
  /\ UNCHANGED <<world, entries, now, quota, breaker, cache, past, published>>

\* The cluster or the policy store fails.
LexicalFails(r) ==
  /\ At(r, "lexical") /\ "lexical" \in Outside.down
  /\ Goes(r, AfterLexical(search[r], Lost("none")))
  /\ UNCHANGED <<world, entries, now, quota, breaker, cache, past, published>>

NoEmbedding == Lost("embedding_provider_unavailable")

\* One attempt at a provider, if its breaker admits it.
Attempt(r, provider, phase, refused) ==
  IF Acquires(breaker[provider], now)
  THEN /\ breaker' = [breaker EXCEPT ![provider] = Acquired(@)]
       /\ Goes(r, [search[r] EXCEPT !.phase = phase, !.attempt = @ + 1])
  ELSE Goes(r, refused) /\ UNCHANGED breaker

\* How the attempt ended is recorded, whatever the answer is worth.
Recorded(provider, failed) ==
  breaker' = [breaker EXCEPT ![provider] = IF failed THEN RecordFailure(@, now)
                                           ELSE RecordSuccess(@)]

\* A failure is retried if it may pass and attempts are left.
Retried(r, outcome) == outcome = "retryable" /\ search[r].attempt < MaxAttempts

WithoutDense(s) == [s EXCEPT !.phase = "fuse", !.dense = NoEmbedding, !.attempt = 0]

Embed(r) ==
  /\ At(r, "embed")
  /\ Attempt(r, "embedding", "embedding", WithoutDense(search[r]))
  /\ UNCHANGED <<world, entries, now, quota, cache, past, published>>

\* A reply of another model, number of vectors or dimension is refused.
ValidVectors(outcome) == outcome = "vector"

Embedded(r, outcome) ==
  /\ At(r, "embedding") /\ outcome \in Outside.embeds
  /\ Recorded("embedding", outcome \in {"retryable", "fatal"})
  /\ Goes(r, IF ValidVectors(outcome) THEN [search[r] EXCEPT !.phase = "dense", !.attempt = 0]
             ELSE IF Retried(r, outcome) THEN [search[r] EXCEPT !.phase = "embed"]
             ELSE WithoutDense(search[r]))
  /\ UNCHANGED <<world, entries, now, quota, cache, past, published>>

Dense(r) ==
  /\ At(r, "dense")
  /\ Goes(r, [search[r] EXCEPT !.phase = "fuse",
                !.dense = Leg(Authorized(DenseHits(entries, Who(r), Outside.context),
                                         Who(r), Policies))])
  /\ UNCHANGED <<world, entries, now, quota, breaker, cache, past, published>>

DenseFails(r) ==
  /\ At(r, "dense") /\ "dense" \in Outside.down
  /\ Goes(r, [search[r] EXCEPT !.phase = "fuse", !.dense = Lost("none")])
  /\ UNCHANGED <<world, entries, now, quota, breaker, cache, past, published>>

\* A lost leg has no hits.
LegHits(s) == <<s.lexical.hits, s.dense.hits>>

\* The fusion of the legs there are. Only a lost embedding counts as degraded.
Fuse(r) ==
  /\ At(r, "fuse")
  /\ LET s == search[r]
     IN Goes(r, IF s.lexical.lost /\ s.dense.lost THEN Errs(s, "503")
                ELSE [s EXCEPT !.phase = IF Outside.reranked THEN "rerank" ELSE Retrieval,
                       !.result.degraded = s.dense = NoEmbedding,
                       !.result.evidence = Fused(LegHits(s), Who(r), Policies,
                                                 Outside.context.limit)])
  /\ UNCHANGED <<world, entries, now, quota, breaker, cache, past, published>>

FuseFails(r) ==
  /\ At(r, "fuse") /\ "lexical" \in Outside.down
  /\ Goes(r, Errs(search[r], "503"))
  /\ UNCHANGED <<world, entries, now, quota, breaker, cache, past, published>>

\* The provider of scores takes too long, and the order stays, or it fails.
RerankFails(r) ==
  /\ At(r, "rerank")
  /\ \/ /\ "slow_rerank" \in Outside.down
        /\ Goes(r, [search[r] EXCEPT !.phase = Retrieval, !.result.degraded = FALSE])
     \/ "rerank" \in Outside.down /\ Goes(r, Errs(search[r], "500"))
  /\ UNCHANGED <<world, entries, now, quota, breaker, cache, past, published>>

\* The reranker scores the first candidates; the rest is dropped, and so is
\* the mark of a degraded result.
Rerank(r, scores) ==
  /\ At(r, "rerank")
  /\ LET evidence == search[r].result.evidence
         some == SubSeq(evidence, 1, IF RerankLimit < Len(evidence) THEN RerankLimit
                                     ELSE Len(evidence))
     IN Goes(r, IF ~ValidReply(some, scores) THEN Errs(search[r], "500")
                ELSE [search[r] EXCEPT !.phase = Retrieval,
                        !.result.evidence = Reranked(some, scores), !.result.degraded = FALSE])
  /\ UNCHANGED <<world, entries, now, quota, breaker, cache, past, published>>

-----------------------------------------------------------------------------
(* The answer, where answers are what is cached *)

Generate(r) ==
  /\ At(r, "answer")
  /\ Attempt(r, "generation", "generating", Errs(search[r], "500"))
  /\ UNCHANGED <<world, entries, now, quota, cache, past, published>>

\* A reply that is no structured answer is a failure of the provider, one that
\* cites what it was not given is not. A draft is verified, or found wanting.
Generated(r, outcome) ==
  /\ At(r, "generating") /\ outcome \in Outside.replies
  /\ Recorded("generation", outcome \in {"retryable", "fatal"})
  /\ \E verified \in BOOLEAN :
       Goes(r, IF outcome = "draft" THEN [search[r] EXCEPT !.phase = "keep",
                                                          !.result.verified = verified]
               ELSE IF Retried(r, outcome) THEN [search[r] EXCEPT !.phase = "answer"]
               ELSE Errs(search[r], "500"))
  /\ UNCHANGED <<world, entries, now, quota, cache, past, published>>

-----------------------------------------------------------------------------
(* The environment *)

Tick == /\ now < Outside.maxTime
        /\ now' = now + 1
        /\ UNCHANGED <<world, entries, quota, search, breaker, cache, past, published>>

\* A document's access policy is withdrawn, or the document deleted.
PolicyChange ==
  /\ Len(past) <= Outside.maxChanges
  /\ \E p \in Policies : \E q \in {[p EXCEPT !.deleted = TRUE], [p EXCEPT !.policy = {}]} :
       q # p /\ past' = Append(past, (Policies \ {p}) \cup {q})
  /\ UNCHANGED <<world, entries, now, quota, search, breaker, cache, published>>

\* The application publishes the version of a change that is in force.
Publish ==
  /\ published < Len(past)
  /\ published' = published + 1
  /\ UNCHANGED <<world, entries, now, quota, search, breaker, cache, past>>

\* A cached result is past its time to live.
Expire ==
  /\ \E c \in cache : cache' = cache \ {c}
  /\ UNCHANGED <<world, entries, now, quota, search, breaker, past, published>>

Next ==
  \/ \E r \in Requests :
       \/ Stamp(r) \/ Reserve(r) \/ ReserveFails(r) \/ Release(r) \/ ReleaseFails(r)
       \/ Admit(r) \/ LookUp(r) \/ Keep(r) \/ KeepFails(r)
       \/ Lexical(r) \/ LexicalFails(r) \/ Embed(r)
       \/ \E outcome \in Outside.embeds : Embedded(r, outcome)
       \/ Dense(r) \/ DenseFails(r) \/ Fuse(r) \/ FuseFails(r)
       \/ RerankFails(r) \/ \E scores \in Outside.scores : Rerank(r, scores)
       \/ Generate(r) \/ \E outcome \in Outside.replies : Generated(r, outcome)
  \/ Tick \/ PolicyChange \/ Publish \/ Expire

Spec == Init /\ [][Next]_vars

-----------------------------------------------------------------------------
(* Properties *)

TypeOK ==
  /\ world \in DOMAIN Worlds /\ now \in 0..Outside.maxTime
  /\ \A s \in DOMAIN buckets : \A b \in {buckets[s], twin[s]} :
       /\ b.started \in {NoWindow} \cup Nat
       /\ b.requests \in 0..MaxRequests /\ b.active \in 0..MaxConcurrent
  /\ \A r \in Requests :
       /\ search[r].attempt \in 0..MaxAttempts
       /\ Len(search[r].result.evidence) <= Outside.context.limit
       /\ search[r].status \in {"none", "200", "429", "500", "503"}
  /\ \A d \in DOMAIN breaker : breaker[d].state \in {"closed", "open", "half_open"}
  /\ published \in 1..Len(past)

\* The requests admitted in a window for a scope.
AdmittedIn(s, started) ==
  {r \in Requests : s \in ToSet(search[r].lease.scopes) /\ search[r].lease.started = started}

\* As long as no reservation is stamped before a window that has begun, a bucket
\* counts exactly the admissions of its window and the leases of it that have
\* not come back; so a window admits no more than its limits, however leases
\* and releases of two windows overlap. (A late stamp takes the bucket back to
\* the old window and forgets the new one's calls.)
CountsAreExact ==
  ~late => \A s \in DOMAIN buckets :
    LET admitted == AdmittedIn(s, buckets[s].started)
    IN (buckets[s].started # NoWindow) =>
         /\ buckets[s].requests = Cardinality(admitted)
         /\ buckets[s].active = Cardinality({r \in admitted : search[r].lease.held})

\* The in-memory backend of tests and local runs stands for the PostgreSQL one:
\* given the same calls it would admit the same next request, although it
\* looks at all buckets where the other stops at the first that is full and
\* leaves the later ones in their old window. (Stamps that come late are where
\* the two differ: the one has begun a window that the other has not.)
BackendsAgree ==
  ~late => \A r \in Asking :
    (At(r, "stamped") /\ ~Behind(r)) =>
      LET scopes == Scopes(Who(r))
      IN (PostgresReserve(buckets, scopes, search[r].at).outcome = "allowed")
           <=> (MemoryReserve(twin, scopes, search[r].at).outcome = "allowed")

Precedes(evidence, i, k) ==
  \E m, n \in DOMAIN evidence :
    m < n /\ ChunkVersion(evidence[m]) = i /\ ChunkVersion(evidence[n]) = k

\* Wherever the second item is found, the first is found before it.
Dominates(legs, i, k) ==
  /\ \E l \in DOMAIN legs : \E n \in DOMAIN legs[l] : ChunkVersion(legs[l][n]) = k
  /\ \A l \in DOMAIN legs : \A n \in DOMAIN legs[l] :
       (ChunkVersion(legs[l][n]) = k) => Precedes(legs[l], i, k)

\* What the fusion returns the principal may read at that moment, though each
\* leg was authorized earlier; an item that every leg puts before another comes
\* before it; and nothing readable is left out before the limit is reached.
FusionIsSound ==
  [][\A r \in Requests :
       (search[r].phase = "fuse" /\ search'[r].phase \in {"keep", "rerank", "answer"}) =>
         LET legs == LegHits(search[r])
             evidence == search'[r].result.evidence
             found == UNION {ToSet(legs[l]) : l \in DOMAIN legs}
             returned == {ChunkVersion(h) : h \in ToSet(evidence)}
             readable == {ChunkVersion(h) : h \in {f \in found :
                            RefOf(f) \in AuthorizeReads(Who(r), {RefOf(f)}, Policies)}}
         IN /\ returned \subseteq readable
            /\ \A i, k \in readable :
                 (Dominates(legs, i, k) /\ k \in returned) => Precedes(evidence, i, k)
            /\ (returned # readable) => Len(evidence) = Outside.context.limit]_vars

\* A result from the cache holds for the versions its request goes by: each item
\* of it was readable to this very principal under policies at least as new as
\* those versions, even if policies changed while the result was computed.
HitsAreFresh ==
  \A r \in Asking :
    search[r].hit => \A h \in ToSet(search[r].result.evidence) :
      \E n \in search[r].versions..Len(past) :
        RefOf(h) \in AuthorizeReads(Who(r), {RefOf(h)}, past[n])

\* An outage ends with the request that met it: a result from the cache has every
\* chunk that either leg finds and that was readable throughout, up to the limit,
\* although a result without its dense leg for want of an embedding was returned
\* to somebody. (What is fused without a leg that was lost for another reason is
\* kept, so is a result that the reranker has gone over, and so is an answer,
\* once it is verified.)
OutagesAreNotKept ==
  \A r \in Asking :
    (search[r].hit /\ ~Outside.reranked /\ Outside.down \cap {"lexical", "dense"} = {}
       /\ Outside.kind = "retrieval") =>
      LET legs == <<LexicalHits(entries, Who(r), Outside.context)>> \o
                  (IF Outside.hybrid THEN <<DenseHits(entries, Who(r), Outside.context)>>
                   ELSE <<>>)
          evidence == search[r].result.evidence
      IN \A h \in UNION {ToSet(legs[l]) : l \in DOMAIN legs} :
           \/ \E n \in DOMAIN past : RefOf(h) \notin AuthorizeReads(Who(r), {RefOf(h)}, past[n])
           \/ ChunkVersion(h) \in {ChunkVersion(e) : e \in ToSet(evidence)}
           \/ Len(evidence) = Outside.context.limit
=============================================================================
