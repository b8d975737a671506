---------------------- MODULE InvestigationToolsProofs ----------------------
(***************************************************************************)
(* Theorems about the quotas of EvidenceSearch and the tools of            *)
(* InvestigationTools, for any requests, principals, limits and windows,   *)
(* with leases that never come back and stamps that come late.             *)
(***************************************************************************)
EXTENDS InvestigationTools, FiniteSetTheorems, TLAPS

-----------------------------------------------------------------------------
(* The inductive invariant.                                                *)

\* A row of quota_buckets, within its limits.
BucketType == [started : Nat \cup {NoWindow}, requests : 0..MaxRequests,
               active : 0..MaxConcurrent]

\* The same rows in both backends: one per scope of the requests.
BucketsSound ==
  /\ buckets \in [ScopesOf(Outside.asking) -> BucketType]
  /\ twin \in [ScopesOf(Outside.asking) -> BucketType]

SearchFields == {"phase", "at", "lease", "versions", "hit", "attempt", "lexical", "dense",
                 "result", "status"}

\* A request has no lease until it is admitted, and then one on its two scopes.
LeaseSound(r, s) ==
  LET l == s.lease
  IN \/ l = NoLease
     \/ /\ r \in Asking /\ s.phase \notin {"idle", "stamped"}
        /\ l.scopes = Scopes(Who(r)) /\ l.started \in Nat /\ l.held \in BOOLEAN
        /\ DOMAIN l = {"scopes", "started", "held"}

SearchesSound ==
  /\ now \in Nat /\ late \in BOOLEAN
  /\ DOMAIN search = Requests
  /\ \A r \in Requests : /\ DOMAIN search[r] = SearchFields
                         /\ search[r].at \in Nat
                         /\ LeaseSound(r, search[r])

\* Windows only begin later ones: no lease is of a window after its bucket's.
WindowsSound ==
  ~late => \A r \in Requests : \A s \in ToSet(search[r].lease.scopes) :
    buckets[s].started # NoWindow /\ search[r].lease.started <= buckets[s].started

\* So far finitely many requests were admitted.
AdmittedFinite == IsFiniteSet({r \in Requests : search[r].lease # NoLease})

\* The in-memory backend has begun a window that the other will begin with the
\* next request it looks at.
Ahead(s) ==
  /\ twin[s].started # NoWindow /\ twin[s] = Fresh(twin[s].started)
  /\ buckets[s].started = NoWindow \/ buckets[s].started < twin[s].started

TwinSound == ~late => \A s \in DOMAIN buckets : buckets[s] = twin[s] \/ Ahead(s)

\* A tool's search begins in its thread.
ThreadsSound ==
  /\ DOMAIN calls = Requests
  /\ \A r \in Requests : /\ DOMAIN calls[r] = DOMAIN NoCall
                         /\ (IsTool(r) /\ calls[r].thread \in {"none", "submitted"}) =>
                              search[r].phase = "idle"

QuotaInv ==
  /\ world \in DOMAIN Worlds
  /\ BucketsSound /\ SearchesSound /\ WindowsSound /\ AdmittedFinite
  /\ CountsAreExact /\ TwinSound /\ ThreadsSound

-----------------------------------------------------------------------------
(* The arithmetic of one bucket.                                           *)

\* What the constants are assumed to be.
LEMMA Constants ==
  /\ MaxRequests \in Nat \ {0} /\ MaxConcurrent \in Nat \ {0} /\ Window \in Nat \ {0}
  /\ NoWindow \notin Int /\ NoWindow \notin Nat
BY QuotaAssumption

\* Windows begin at whole numbers.
LEMMA WindowStartNat == \A at \in Nat : WindowStart(at) \in Nat
<1> SUFFICES ASSUME NEW at \in Nat PROVE WindowStart(at) \in Nat
  OBVIOUS
<1>1. at % Window \in Nat /\ at \div Window \in Nat /\ at = Window * (at \div Window) + (at % Window)
  BY Constants
<1>2. Window * (at \div Window) \in Nat
  BY <1>1, Constants
<1>3. QED
  BY <1>1, <1>2 DEF WindowStart

\* The fields of a bucket, and the buckets that arise from it.
LEMMA BucketFields ==
  ASSUME NEW b \in BucketType
  PROVE  /\ b.started \in Nat \cup {NoWindow}
         /\ b.requests \in 0..MaxRequests /\ b.active \in 0..MaxConcurrent
         /\ b = [started |-> b.started, requests |-> b.requests, active |-> b.active]
BY DEF BucketType

\* Two buckets with the same fields are the same.
LEMMA SameBucket ==
  ASSUME NEW b \in BucketType, NEW c \in BucketType, b.started = c.started,
         b.requests = c.requests, b.active = c.active
  PROVE  b = c
BY BucketFields

\* A bucket whose window begins counts nothing yet.
LEMMA FreshBucket ==
  ASSUME NEW started \in Nat \cup {NoWindow}
  PROVE  /\ Fresh(started) \in BucketType
         /\ Fresh(started).started = started
         /\ Fresh(started).requests = 0 /\ Fresh(started).active = 0
BY Constants DEF Fresh, BucketType

\* The bucket brought to a window is in that window.
LEMMA CurrentBucketFacts ==
  ASSUME NEW b \in BucketType, NEW started \in Nat
  PROVE  /\ CurrentBucket(b, started) \in BucketType
         /\ CurrentBucket(b, started).started = started
BY FreshBucket DEF CurrentBucket

\* An admission counts within the limits it was checked against.
LEMMA CountedFacts ==
  ASSUME NEW b \in BucketType, ~RateLimited(b), ~ConcurrentLimited(b)
  PROVE  /\ Counted(b) \in BucketType /\ Counted(b).started = b.started
         /\ Counted(b).requests = b.requests + 1 /\ Counted(b).active = b.active + 1
<1>1. /\ b.requests \in 0..MaxRequests /\ b.active \in 0..MaxConcurrent
      /\ b.started \in Nat \cup {NoWindow}
  BY BucketFields
<1>2. b.requests + 1 \in 0..MaxRequests /\ b.active + 1 \in 0..MaxConcurrent
  BY <1>1, Constants DEF RateLimited, ConcurrentLimited
<1>3. QED
  BY <1>1, <1>2 DEF Counted, BucketType

\* A release takes one active call away at most, and only in the lease's window.
LEMMA ReleasedFacts ==
  ASSUME NEW S, NEW table \in [S -> BucketType], NEW lease, NEW s \in S
  PROVE  LET after == Released(table, lease)[s]
             counts == /\ s \in ToSet(lease.scopes) /\ table[s].started = lease.started
                       /\ table[s].active > 0
         IN /\ after \in BucketType /\ after.started = table[s].started
            /\ after.requests = table[s].requests
            /\ after.active = IF counts THEN table[s].active - 1 ELSE table[s].active
            /\ ~counts => after = table[s]
<1> DEFINE b == table[s]
           counts == /\ s \in ToSet(lease.scopes) /\ b.started = lease.started
                     /\ b.active > 0
           less == [b EXCEPT !.active = b.active - 1]
<1>1. b \in BucketType /\ b.active \in 0..MaxConcurrent
  BY BucketFields
<1>2. Released(table, lease)[s] = IF counts THEN less ELSE b
  BY DEF Released, Freed
<1>3. counts => b.active - 1 \in 0..MaxConcurrent
  BY <1>1, Constants
<1>4. counts => /\ less \in BucketType /\ less.started = b.started
                /\ less.requests = b.requests /\ less.active = b.active - 1
  BY <1>1, <1>3 DEF BucketType
<1> HIDE DEF less
<1>5. QED
  BY <1>1, <1>2, <1>4

-----------------------------------------------------------------------------
(* The two decisions.                                                      *)

\* The two scopes of a principal.
LEMMA ScopesFacts ==
  ASSUME NEW p
  PROVE  /\ DOMAIN Scopes(p) = {1, 2} /\ Len(Scopes(p)) = 2
         /\ Scopes(p)[1] # Scopes(p)[2]
         /\ ToSet(Scopes(p)) = {Scopes(p)[1], Scopes(p)[2]}
<1> DEFINE a == <<"tenant", p.tenant>>
           b == <<"principal", p.id>>
<1>1. Scopes(p) = <<a, b>> /\ a # b
  BY DEF Scopes
<1> HIDE DEF a, b
<1>2. DOMAIN <<a, b>> = {1, 2} /\ Len(<<a, b>>) = 2 /\ <<a, b>>[1] = a /\ <<a, b>>[2] = b
  OBVIOUS
<1>3. QED
  BY <1>1, <1>2 DEF ToSet

Full(b) == RateLimited(b) \/ ConcurrentLimited(b)

Brought(b, at) == CurrentBucket(b, WindowStart(at))

\* A decision on two scopes: what it is, and what it leaves in every bucket.
Decides(d, S, table, scopes, at) ==
  /\ (d.outcome = "allowed") <=> ~\E s \in ToSet(scopes) : Full(Brought(table[s], at))
  /\ d.buckets \in [S -> BucketType]
  /\ \A s \in S \ ToSet(scopes) : d.buckets[s] = table[s]
  /\ (d.outcome = "allowed") =>
       \A s \in ToSet(scopes) : d.buckets[s] = Counted(Brought(table[s], at))

\* The in-memory backend brings every bucket of a refused call to the window.
LEMMA MemoryDecision ==
  ASSUME NEW S, NEW table \in [S -> BucketType], NEW scopes, ToSet(scopes) \subseteq S,
         NEW at \in Nat
  PROVE  LET d == MemoryReserve(table, scopes, at)
         IN /\ Decides(d, S, table, scopes, at)
            /\ (d.outcome # "allowed") =>
                 \A s \in ToSet(scopes) : d.buckets[s] = Brought(table[s], at)
<1> DEFINE d == MemoryReserve(table, scopes, at)
           current == [s \in S |-> IF s \in ToSet(scopes) THEN Brought(table[s], at)
                                   ELSE table[s]]
           counted == [s \in S |-> IF s \in ToSet(scopes) THEN Counted(current[s])
                                   ELSE current[s]]
           rate == \E s \in ToSet(scopes) : RateLimited(current[s])
           concurrent == \E s \in ToSet(scopes) : ConcurrentLimited(current[s])
<1>1. d = IF rate THEN [outcome |-> "rate_limited", buckets |-> current]
          ELSE IF concurrent THEN [outcome |-> "concurrent_limited", buckets |-> current]
          ELSE [outcome |-> "allowed", buckets |-> counted]
  BY Zenon DEF MemoryReserve, Brought
<1>2. /\ \A s \in S \ ToSet(scopes) : current[s] = table[s] /\ counted[s] = table[s]
      /\ \A s \in ToSet(scopes) : /\ current[s] = Brought(table[s], at)
                                  /\ counted[s] = Counted(Brought(table[s], at))
  OBVIOUS
<1>3. \A s \in S : current[s] \in BucketType
  BY WindowStartNat, CurrentBucketFacts DEF Brought
<1>4. current \in [S -> BucketType]
  BY <1>3
<1>5. ~rate /\ ~concurrent => counted \in [S -> BucketType]
  <2> SUFFICES ASSUME ~rate, ~concurrent, NEW s \in S PROVE counted[s] \in BucketType
    OBVIOUS
  <2>1. CASE s \in ToSet(scopes)
    BY <1>3, <2>1, CountedFacts
  <2>2. CASE s \notin ToSet(scopes)
    BY <1>3, <2>2
  <2>3. QED
    BY <2>1, <2>2
<1>6. (rate \/ concurrent) <=> \E s \in ToSet(scopes) : Full(Brought(table[s], at))
  BY <1>2 DEF Full
<1> HIDE DEF d, current, counted, rate, concurrent
<1>7. /\ (d.outcome = "allowed") <=> ~(rate \/ concurrent)
      /\ d.buckets = IF rate \/ concurrent THEN current ELSE counted
  BY <1>1
<1>8. Decides(d, S, table, scopes, at)
  BY <1>2, <1>4, <1>5, <1>6, <1>7 DEF Decides
<1>9. (d.outcome # "allowed") => \A s \in ToSet(scopes) : d.buckets[s] = Brought(table[s], at)
  BY <1>2, <1>7
<1>10. QED
  BY <1>8, <1>9 DEF d

\* The PostgreSQL backend leaves rows after a full one in the window they are in.
LEMMA PostgresDecision ==
  ASSUME NEW S, NEW table \in [S -> BucketType], NEW p, ToSet(Scopes(p)) \subseteq S,
         NEW at \in Nat
  PROVE  LET d == PostgresReserve(table, Scopes(p), at)
         IN /\ Decides(d, S, table, Scopes(p), at)
            /\ (d.outcome # "allowed") =>
                 \A s \in ToSet(Scopes(p)) :
                   \/ d.buckets[s] = Brought(table[s], at)
                   \/ d.buckets[s] = table[s] /\ table[s].started # NoWindow
<1> DEFINE scopes == Scopes(p)
           d == PostgresReserve(table, scopes, at)
           stops == {n \in DOMAIN scopes : RateLimited(Brought(table[scopes[n]], at))
                                             \/ ConcurrentLimited(Brought(table[scopes[n]], at))}
           last == IF stops = {} THEN Len(scopes) ELSE Min(stops)
           seen == {scopes[n] : n \in 1..last}
           brought == [s \in S |->
                         IF s \in seen \/ (s \in ToSet(scopes) /\ table[s].started = NoWindow)
                         THEN Brought(table[s], at) ELSE table[s]]
           counted == [s \in S |-> IF s \in ToSet(scopes) THEN Counted(brought[s])
                                   ELSE brought[s]]
           refusal == IF RateLimited(Brought(table[scopes[last]], at)) THEN "rate_limited"
                      ELSE "concurrent_limited"
<1>1. d = IF stops # {} THEN [outcome |-> refusal, buckets |-> brought]
          ELSE [outcome |-> "allowed", buckets |-> counted]
  BY Zenon DEF PostgresReserve, Brought
<1>2. /\ DOMAIN scopes = {1, 2} /\ Len(scopes) = 2 /\ scopes[1] # scopes[2]
      /\ ToSet(scopes) = {scopes[1], scopes[2]}
  BY ScopesFacts
<1>3. stops = {} <=> ~\E s \in ToSet(scopes) : Full(Brought(table[s], at))
  BY <1>2 DEF Full
<1> HIDE DEF scopes
<1>4. last \in {1, 2} /\ (stops = {} => last = 2)
  <2>1. CASE stops = {}
    BY <1>2, <2>1
  <2>2. CASE stops # {}
    <3> DEFINE least(x) == x \in stops /\ \A y \in stops : x <= y
    <3>1. stops \subseteq {1, 2}
      BY <1>2
    <3>2. \E x : least(x)
      <4> HIDE DEF stops
      <4>1. CASE 1 \in stops
        BY <3>1, <4>1
      <4>2. CASE 1 \notin stops
        BY <2>2, <3>1, <4>2
      <4>3. QED
        BY <4>1, <4>2
    <3> HIDE DEF stops
    <3>3. Min(stops) \in stops
      BY <3>2 DEF Min
    <3>4. QED
      BY <2>2, <3>1, <3>3
  <2>3. QED
    BY <2>1, <2>2
<1> HIDE DEF stops, last
<1>5. /\ seen \subseteq ToSet(scopes)
      /\ stops = {} => seen = ToSet(scopes)
  BY <1>2, <1>4
<1> HIDE DEF seen
<1>6. /\ \A s \in S \ ToSet(scopes) : brought[s] = table[s] /\ counted[s] = table[s]
      /\ \A s \in ToSet(scopes) :
           \/ brought[s] = Brought(table[s], at)
           \/ brought[s] = table[s] /\ table[s].started # NoWindow
      /\ stops = {} => \A s \in ToSet(scopes) :
                         /\ brought[s] = Brought(table[s], at)
                         /\ counted[s] = Counted(Brought(table[s], at))
  BY <1>5 DEF scopes
<1>7. \A s \in S : brought[s] \in BucketType
  BY <1>6, WindowStartNat, CurrentBucketFacts DEF Brought
<1>8. brought \in [S -> BucketType]
  BY <1>7
<1>9. stops = {} => counted \in [S -> BucketType]
  <2> SUFFICES ASSUME stops = {}, NEW s \in S PROVE counted[s] \in BucketType
    OBVIOUS
  <2>1. CASE s \in ToSet(scopes)
    BY <1>3, <1>6, <1>7, <2>1, CountedFacts DEF Full
  <2>2. CASE s \notin ToSet(scopes)
    BY <1>6, <2>2
  <2>3. QED
    BY <2>1, <2>2
<1>10. refusal # "allowed"
  OBVIOUS
<1> HIDE DEF d, brought, counted, refusal
<1>11. /\ (d.outcome = "allowed") <=> stops = {}
       /\ d.buckets = IF stops = {} THEN counted ELSE brought
  BY <1>1, <1>10
<1>12. Decides(d, S, table, scopes, at)
  BY <1>3, <1>6, <1>8, <1>9, <1>11 DEF Decides
<1>13. (d.outcome # "allowed") =>
         \A s \in ToSet(scopes) : \/ d.buckets[s] = Brought(table[s], at)
                                  \/ d.buckets[s] = table[s] /\ table[s].started # NoWindow
  BY <1>6, <1>11
<1>14. QED
  BY <1>12, <1>13 DEF d, scopes

-----------------------------------------------------------------------------
(* Steps that leave the quota alone.                                       *)

\* The search goes on with the lease it has.
Follows(s, t) ==
  /\ DOMAIN t = SearchFields
  /\ t.lease = s.lease /\ t.at = s.at /\ t.phase \notin {"idle", "stamped"}

\* A step of a search that neither reserves nor releases.
GoesOn(r) ==
  /\ r \in Asking /\ search[r].phase # "idle"
  /\ \E t : Goes(r, t) /\ Follows(search[r], t)
  /\ UNCHANGED <<world, now, quota>>

\* An error keeps the lease for its release.
LEMMA ErrsFollows ==
  ASSUME NEW s, DOMAIN s = SearchFields, NEW status
  PROVE  Follows(s, Errs(s, status))
BY DEF Errs, Follows, SearchFields

\* Without the dense leg the search goes on to the fusion.
LEMMA WithoutDenseFollows ==
  ASSUME NEW s, DOMAIN s = SearchFields
  PROVE  Follows(s, WithoutDense(s))
BY DEF WithoutDense, Follows, SearchFields

\* After the lexical leg the search goes on, or has failed.
LEMMA AfterLexicalFollows ==
  ASSUME NEW s, DOMAIN s = SearchFields, NEW leg
  PROVE  Follows(s, AfterLexical(s, leg))
<1> DEFINE kept == [s EXCEPT !.phase = Retrieval, !.lexical = leg, !.result.evidence = leg.hits]
           embeds == [s EXCEPT !.phase = "embed", !.lexical = leg]
<1>1. Retrieval \notin {"idle", "stamped"}
  BY DEF Retrieval
<1>2. Follows(s, embeds)
  BY DEF Follows, SearchFields
<1>3. Follows(s, kept)
  BY <1>1 DEF Follows, SearchFields
<1> HIDE DEF kept, embeds
<1>4. AfterLexical(s, leg) \in {embeds, kept, Errs(s, "503")}
  BY DEF AfterLexical, kept, embeds
<1>5. QED
  BY <1>2, <1>3, <1>4, ErrsFollows

\* An attempt at a provider goes on, or is refused by the circuit.
LEMMA AttemptFollows ==
  ASSUME NEW r, DOMAIN search[r] = SearchFields, NEW provider, NEW phase, NEW refused,
         Attempt(r, provider, phase, refused), phase \notin {"idle", "stamped"},
         Follows(search[r], refused)
  PROVE  \E t : Goes(r, t) /\ Follows(search[r], t)
<1> DEFINE t == [search[r] EXCEPT !.phase = phase, !.attempt = @ + 1]
<1>1. Follows(search[r], t)
  BY DEF Follows, SearchFields
<1>2. Goes(r, t) \/ Goes(r, refused)
  BY DEF Attempt
<1>3. QED
  BY <1>1, <1>2

\* Cache steps, and refusals of the quota store, keep what lease there is.
LEMMA CacheGoesOn ==
  ASSUME QuotaInv, NEW r \in Requests,
         ReserveFails(r) \/ ReleaseFails(r) \/ Admit(r) \/ LookUp(r) \/ Keep(r) \/ KeepFails(r)
  PROVE  GoesOn(r)
<1>1. /\ r \in Asking /\ search[r].phase # "idle" /\ DOMAIN search[r] = SearchFields
      /\ UNCHANGED <<world, now, quota>>
  BY DEF ReserveFails, ReleaseFails, Admit, LookUp, Keep, KeepFails, At, QuotaInv, SearchesSound
<1>2. CASE ReserveFails(r)
  <2> DEFINE t == [search[r] EXCEPT !.phase = "done", !.status = "503"]
  <2>1. Goes(r, t) /\ Follows(search[r], t)
    BY <1>1, <1>2 DEF ReserveFails, Follows, SearchFields
  <2> HIDE DEF t
  <2>2. QED
    BY <1>1, <2>1 DEF GoesOn
<1>3. CASE ReleaseFails(r)
  <2> DEFINE t == [search[r] EXCEPT !.phase = "done"]
  <2>1. Goes(r, t) /\ Follows(search[r], t)
    BY <1>1, <1>3 DEF ReleaseFails, Follows, SearchFields
  <2> HIDE DEF t
  <2>2. QED
    BY <1>1, <2>1 DEF GoesOn
<1>4. CASE Admit(r)
  <2> DEFINE t == [search[r] EXCEPT !.versions = published,
                                    !.phase = IF Outside.cached THEN "lookup" ELSE "lexical"]
  <2>1. Goes(r, t) /\ Follows(search[r], t)
    BY <1>1, <1>4 DEF Admit, Follows, SearchFields
  <2> HIDE DEF t
  <2>2. QED
    BY <1>1, <2>1 DEF GoesOn
<1>5. CASE LookUp(r)
  <2> DEFINE hits == Hits(cache, KeyOf(r), Outside.kind, Who(r))
             miss == [search[r] EXCEPT !.phase = "lexical"]
             found(c) == [search[r] EXCEPT !.phase = "release", !.hit = TRUE, !.status = "200",
                                           !.result = c.value]
  <2>1. Goes(r, miss) \/ \E c \in hits : Goes(r, found(c))
    BY <1>5, Zenon DEF LookUp
  <2>2. Follows(search[r], miss) /\ \A c : Follows(search[r], found(c))
    BY <1>1 DEF Follows, SearchFields
  <2> HIDE DEF miss, found, hits
  <2>3. QED
    BY <1>1, <2>1, <2>2 DEF GoesOn
<1>6. CASE Keep(r) \/ KeepFails(r)
  <2> DEFINE t == [search[r] EXCEPT !.phase = "release", !.status = "200"]
  <2>1. Goes(r, t) /\ Follows(search[r], t)
    BY <1>1, <1>6 DEF Keep, KeepFails, Follows, SearchFields
  <2> HIDE DEF t
  <2>2. QED
    BY <1>1, <2>1 DEF GoesOn
<1>7. QED
  BY <1>2, <1>3, <1>4, <1>5, <1>6

\* The legs and the embedding of a search do not touch its lease.
LEMMA LegsGoOn ==
  ASSUME QuotaInv, NEW r \in Requests,
         \/ Lexical(r) \/ LexicalFails(r) \/ Embed(r)
         \/ \E outcome \in Outside.embeds : Embedded(r, outcome)
         \/ Dense(r) \/ DenseFails(r)
  PROVE  GoesOn(r)
<1>1. /\ r \in Asking /\ search[r].phase # "idle" /\ DOMAIN search[r] = SearchFields
      /\ UNCHANGED <<world, now, quota>>
  BY DEF Lexical, LexicalFails, Embed, Embedded, Dense, DenseFails, At, QuotaInv, SearchesSound
<1>2. CASE Lexical(r) \/ LexicalFails(r)
  <2>1. \E leg : Goes(r, AfterLexical(search[r], leg))
    BY <1>2 DEF Lexical, LexicalFails
  <2>2. PICK leg : Goes(r, AfterLexical(search[r], leg))
    BY <2>1
  <2>3. QED
    BY <1>1, <2>2, AfterLexicalFollows DEF GoesOn
<1>3. CASE Embed(r)
  <2>1. Attempt(r, "embedding", "embedding", WithoutDense(search[r]))
    BY <1>3 DEF Embed
  <2>2. \E t : Goes(r, t) /\ Follows(search[r], t)
    BY <1>1, <2>1, WithoutDenseFollows, AttemptFollows
  <2>3. QED
    BY <1>1, <2>2 DEF GoesOn
<1>4. CASE \E outcome \in Outside.embeds : Embedded(r, outcome)
  <2> DEFINE dense == [search[r] EXCEPT !.phase = "dense", !.attempt = 0]
             again == [search[r] EXCEPT !.phase = "embed"]
             none  == WithoutDense(search[r])
  <2>1. Goes(r, dense) \/ Goes(r, again) \/ Goes(r, none)
    BY <1>4 DEF Embedded
  <2>2. Follows(search[r], dense) /\ Follows(search[r], again)
    BY <1>1 DEF Follows, SearchFields
  <2>3. Follows(search[r], none)
    BY <1>1, WithoutDenseFollows
  <2> HIDE DEF dense, again, none
  <2>4. QED
    BY <1>1, <2>1, <2>2, <2>3 DEF GoesOn
<1>5. CASE Dense(r) \/ DenseFails(r)
  <2> DEFINE t(leg) == [search[r] EXCEPT !.phase = "fuse", !.dense = leg]
  <2>1. \E leg : Goes(r, t(leg))
    BY <1>5 DEF Dense, DenseFails
  <2>2. \A leg : Follows(search[r], t(leg))
    BY <1>1 DEF Follows, SearchFields
  <2> HIDE DEF t
  <2>3. QED
    BY <1>1, <2>1, <2>2 DEF GoesOn
<1>6. QED
  BY <1>2, <1>3, <1>4, <1>5

\* Nor do fusion, reranking and generation.
LEMMA ResultGoesOn ==
  ASSUME QuotaInv, NEW r \in Requests,
         \/ Fuse(r) \/ FuseFails(r) \/ RerankFails(r)
         \/ \E scores \in Outside.scores : Rerank(r, scores)
         \/ Generate(r) \/ \E outcome \in Outside.replies : Generated(r, outcome)
  PROVE  GoesOn(r)
<1>1. /\ r \in Asking /\ search[r].phase # "idle" /\ DOMAIN search[r] = SearchFields
      /\ UNCHANGED <<world, now, quota>>
  BY DEF Fuse, FuseFails, RerankFails, Rerank, Generate, Generated, At, QuotaInv, SearchesSound
<1>2. /\ \A status : Follows(search[r], Errs(search[r], status))
      /\ Retrieval \notin {"idle", "stamped"}
  BY <1>1, ErrsFollows DEF Retrieval
<1>3. CASE Fuse(r) \/ FuseFails(r)
  <2> DEFINE t(p, d, e) == [search[r] EXCEPT !.phase = p, !.result.degraded = d,
                                             !.result.evidence = e]
  <2>1. \/ Goes(r, Errs(search[r], "503"))
        \/ \E p \in {"rerank", Retrieval} : \E d, e : Goes(r, t(p, d, e))
    BY <1>3 DEF Fuse, FuseFails
  <2>2. \A p \in {"rerank", Retrieval} : \A d, e : Follows(search[r], t(p, d, e))
    BY <1>1, <1>2 DEF Follows, SearchFields
  <2> HIDE DEF t
  <2>3. QED
    BY <1>1, <1>2, <2>1, <2>2 DEF GoesOn
<1>4. CASE RerankFails(r) \/ \E scores \in Outside.scores : Rerank(r, scores)
  <2> DEFINE t(e) == [search[r] EXCEPT !.phase = Retrieval, !.result.evidence = e,
                                       !.result.degraded = FALSE]
             u == [search[r] EXCEPT !.phase = Retrieval, !.result.degraded = FALSE]
  <2>1. Goes(r, Errs(search[r], "500")) \/ Goes(r, u) \/ \E e : Goes(r, t(e))
    BY <1>4 DEF RerankFails, Rerank
  <2>2. Follows(search[r], u) /\ \A e : Follows(search[r], t(e))
    BY <1>1, <1>2 DEF Follows, SearchFields
  <2> HIDE DEF t, u
  <2>3. QED
    BY <1>1, <1>2, <2>1, <2>2 DEF GoesOn
<1>5. CASE Generate(r)
  <2>1. Attempt(r, "generation", "generating", Errs(search[r], "500"))
    BY <1>5 DEF Generate
  <2>2. \E t : Goes(r, t) /\ Follows(search[r], t)
    BY <1>1, <1>2, <2>1, AttemptFollows
  <2>3. QED
    BY <1>1, <2>2 DEF GoesOn
<1>6. CASE \E outcome \in Outside.replies : Generated(r, outcome)
  <2> DEFINE t(v) == [search[r] EXCEPT !.phase = "keep", !.result.verified = v]
             u == [search[r] EXCEPT !.phase = "answer"]
  <2>1. Goes(r, Errs(search[r], "500")) \/ Goes(r, u) \/ \E v : Goes(r, t(v))
    BY <1>6 DEF Generated
  <2>2. Follows(search[r], u) /\ \A v : Follows(search[r], t(v))
    BY <1>1 DEF Follows, SearchFields
  <2> HIDE DEF t, u
  <2>3. QED
    BY <1>1, <1>2, <2>1, <2>2 DEF GoesOn
<1>7. QED
  BY <1>3, <1>4, <1>5, <1>6

\* The leases stay as they are, and so do the tables.
Quiet ==
  /\ UNCHANGED <<world, quota>> /\ DOMAIN search' = Requests
  /\ \A r \in Requests : search'[r].lease = search[r].lease

\* What is said of tables and leases holds as long as neither changes.
LEMMA QuietKeeps ==
  ASSUME QuotaInv, Quiet
  PROVE  /\ (world \in DOMAIN Worlds)' /\ BucketsSound' /\ WindowsSound' /\ AdmittedFinite'
         /\ CountsAreExact' /\ TwinSound'
<1>1. /\ UNCHANGED <<world, buckets, twin, late>>
      /\ \A r \in Requests : search'[r].lease = search[r].lease
  BY DEF Quiet, quota
<1>2. (world \in DOMAIN Worlds)' /\ BucketsSound'
  BY <1>1 DEF QuotaInv, BucketsSound, Outside
<1>3. WindowsSound'
  BY <1>1 DEF QuotaInv, WindowsSound
<1>4. {r \in Requests : search'[r].lease # NoLease} = {r \in Requests : search[r].lease # NoLease}
  BY <1>1
<1>5. AdmittedFinite'
  BY <1>4 DEF QuotaInv, AdmittedFinite
<1>6. \A s, started : /\ AdmittedIn(s, started)' = AdmittedIn(s, started)
                      /\ {r \in AdmittedIn(s, started) : search[r].lease.held}'
                           = {r \in AdmittedIn(s, started) : search[r].lease.held}
  BY <1>1 DEF AdmittedIn
<1>7. CountsAreExact'
  BY <1>1, <1>6 DEF QuotaInv, CountsAreExact
<1>8. TwinSound'
  BY <1>1 DEF QuotaInv, TwinSound, Ahead
<1>9. QED
  BY <1>2, <1>3, <1>5, <1>7, <1>8

\* A step of one search leaves the other searches as they are.
LEMMA SearchesKept ==
  ASSUME QuotaInv, NEW r \in Requests, NEW t, Goes(r, t), UNCHANGED <<world, now>>,
         late' \in BOOLEAN, DOMAIN t = SearchFields, t.at \in Nat, LeaseSound(r, t)
  PROVE  SearchesSound'
<1>1. DOMAIN search' = Requests /\ search'[r] = t
      /\ \A q \in Requests : q # r => search'[q] = search[q]
  BY DEF QuotaInv, SearchesSound, Goes
<1>2. QED
  BY <1>1 DEF QuotaInv, SearchesSound, LeaseSound, Asking, Outside, Who

\* No search of a tool starts but in its thread.
LEMMA ThreadsKept ==
  ASSUME QuotaInv, NEW r \in Requests, NEW t, Goes(r, t), UNCHANGED <<world, calls>>,
         search[r].phase # "idle" \/ ~IsTool(r)
  PROVE  ThreadsSound'
<1>1. \A q \in Requests : q # r => search'[q] = search[q]
  BY DEF QuotaInv, SearchesSound, Goes
<1>2. QED
  BY <1>1 DEF QuotaInv, ThreadsSound, IsTool, Outside

\* A search that neither reserves nor releases keeps the invariant.
LEMMA GoesOnKeeps ==
  ASSUME QuotaInv, NEW r \in Requests, GoesOn(r), UNCHANGED calls
  PROVE  QuotaInv'
<1>1. PICK t : Goes(r, t) /\ Follows(search[r], t)
  BY DEF GoesOn
<1>2. UNCHANGED <<world, now, quota>> /\ search[r].phase # "idle"
  BY DEF GoesOn
<1>3. DOMAIN t = SearchFields /\ t.at \in Nat /\ LeaseSound(r, t) /\ t.lease = search[r].lease
  BY <1>1 DEF QuotaInv, SearchesSound, Follows, LeaseSound
<1>4. late' \in BOOLEAN
  BY <1>2 DEF quota, QuotaInv, SearchesSound
<1>5. SearchesSound' /\ ThreadsSound'
  BY <1>1, <1>2, <1>3, <1>4, SearchesKept, ThreadsKept
<1>6. Quiet
  BY <1>1, <1>2, <1>3 DEF Quiet, Goes, QuotaInv, SearchesSound
<1>7. QED
  BY <1>5, <1>6, QuietKeeps DEF QuotaInv

\* A stamp takes no lease.
LEMMA StampKeeps ==
  ASSUME QuotaInv, NEW r \in Requests, Stamp(r), UNCHANGED calls
  PROVE  QuotaInv'
<1> DEFINE t == [Idle EXCEPT !.at = now, !.phase = IF Outside.limited THEN "stamped" ELSE "admitted"]
<1>1. /\ Goes(r, t) /\ UNCHANGED <<world, now, quota>>
      /\ search[r].phase = "idle" /\ ~IsTool(r)
  BY DEF Stamp, At, IsTool
<1>2. DOMAIN t = SearchFields /\ t.at = now /\ t.lease = NoLease
  BY DEF Idle, SearchFields
<1> HIDE DEF t
<1>3. t.at \in Nat /\ LeaseSound(r, t) /\ search[r].lease = NoLease
  BY <1>1, <1>2 DEF QuotaInv, SearchesSound, LeaseSound
<1>4. late' \in BOOLEAN
  BY <1>1 DEF quota, QuotaInv, SearchesSound
<1>5. SearchesSound' /\ ThreadsSound'
  BY <1>1, <1>2, <1>3, <1>4, SearchesKept, ThreadsKept
<1>6. Quiet
  BY <1>1, <1>2, <1>3 DEF Quiet, Goes, QuotaInv, SearchesSound
<1>7. QED
  BY <1>5, <1>6, QuietKeeps DEF QuotaInv

\* Time, policies and the cache's own steps leave every search as it is.
LEMMA EnvironmentKeeps ==
  ASSUME QuotaInv, Tick \/ PolicyChange \/ Publish \/ Expire, UNCHANGED calls
  PROVE  QuotaInv'
<1>1. UNCHANGED <<world, quota, search, calls>> /\ now' \in Nat
  BY DEF QuotaInv, SearchesSound, Tick, PolicyChange, Publish, Expire
<1>2. Quiet
  BY <1>1 DEF Quiet, QuotaInv, SearchesSound
<1>3. SearchesSound'
  BY <1>1 DEF QuotaInv, SearchesSound, LeaseSound, Asking, Outside, Who, quota
<1>4. ThreadsSound'
  BY <1>1 DEF QuotaInv, ThreadsSound, IsTool, Outside
<1>5. QED
  BY <1>2, <1>3, <1>4, QuietKeeps DEF QuotaInv

-----------------------------------------------------------------------------
(* The steps of the tools.                                                 *)

\* The tools of every world are the three there are.
LEMMA ToolNames ==
  ASSUME QuotaInv, NEW r, IsTool(r)
  PROVE  Asked(r).tool \in {"retrieve", "compare", "incidents"}
<1>1. Outside \in ToSet(Worlds)
  BY DEF QuotaInv, Outside, ToSet
<1>2. QED
  BY <1>1, ToolsAssumption DEF IsTool, Asked

\* A step of one call: a thread that has begun does not begin again.
CallMoves(r) ==
  /\ DOMAIN calls' = Requests /\ \A q \in Requests : q # r => calls'[q] = calls[q]
  /\ DOMAIN calls'[r] = DOMAIN NoCall
  /\ calls'[r].thread \in {"none", "submitted"} => calls[r].thread \in {"none", "submitted"}

\* All steps of a tool but the first of its thread leave the search alone.
LEMMA ToolMoves ==
  ASSUME QuotaInv, NEW r \in Requests, ToolStep(r), ~Begin(r)
  PROVE  CallMoves(r) /\ UNCHANGED vars
<1>1. DOMAIN calls = Requests /\ DOMAIN calls[r] = {"thread", "since", "found", "outcome", "answer"}
  BY DEF QuotaInv, ThreadsSound, NoCall
<1>2. DOMAIN NoCall = {"thread", "since", "found", "outcome", "answer"}
  BY DEF NoCall
<1>3. UNCHANGED vars
  BY DEF ToolStep, Call, Retrieved, AuthorizeVersions, CompareVersions, SearchIncidents,
         AuthorizeIncidents, OperationFails, Answer, TimeOut
<1>4. ASSUME NEW outcome, Ended(r, outcome) PROVE CallMoves(r)
  BY <1>1, <1>2, <1>4 DEF Ended, CallMoves
<1>5. CASE Call(r)
  BY <1>1, <1>2, <1>5 DEF Call, CallMoves, InThread
<1>6. CASE AuthorizeVersions(r)
  <2>1. CASE \E outcome : Ended(r, outcome)
    BY <1>3, <1>4, <2>1
  <2>2. CASE calls' = [calls EXCEPT ![r].thread = "versions", ![r].found = Compared(r)]
    BY <1>1, <1>2, <1>3, <2>2 DEF CallMoves
  <2>3. QED
    BY <1>6, <2>1, <2>2 DEF AuthorizeVersions
<1>7. CASE SearchIncidents(r)
  <2> DEFINE all == Outside.incidents
             mine == Selected(all, {n \in DOMAIN all : all[n][1] = Who(r).tenant})
             some == Bounded(mine, Outside.context.limit)
  <2>1. calls' = [calls EXCEPT ![r].thread = "authorize", ![r].found = some]
    BY <1>7, Zenon DEF SearchIncidents
  <2> HIDE DEF mine, some
  <2>2. QED
    BY <1>1, <1>2, <1>3, <2>1 DEF CallMoves
<1>8. CASE Answer(r) \/ TimeOut(r)
  BY <1>1, <1>2, <1>8 DEF Answer, TimeOut, CallMoves, InThread
<1>9. CASE \/ Retrieved(r) \/ CompareVersions(r) \/ AuthorizeIncidents(r) \/ OperationFails(r)
  <2>1. \E outcome : Ended(r, outcome)
    <3>1. CASE Retrieved(r)
      BY <3>1 DEF Retrieved
    <3>2. CASE CompareVersions(r)
      BY <3>2 DEF CompareVersions
    <3>3. CASE AuthorizeIncidents(r) \/ OperationFails(r)
      BY <3>3 DEF AuthorizeIncidents, OperationFails
    <3>4. QED
      BY <1>9, <3>1, <3>2, <3>3
  <2>2. QED
    BY <1>3, <1>4, <2>1
<1>10. QED
  BY <1>3, <1>5, <1>6, <1>7, <1>8, <1>9 DEF ToolStep

\* A step of a tool keeps the invariant: no tool takes a lease.
LEMMA ToolKeeps ==
  ASSUME QuotaInv, NEW r \in Requests, ToolStep(r)
  PROVE  QuotaInv'
<1>1. CASE ~Begin(r)
  <2>1. CallMoves(r) /\ UNCHANGED vars
    BY <1>1, ToolMoves
  <2>2. UNCHANGED <<world, now, quota, search>>
    BY <2>1 DEF vars, quota
  <2>3. Quiet
    BY <2>2 DEF Quiet, QuotaInv, SearchesSound
  <2>4. SearchesSound'
    BY <2>2 DEF QuotaInv, SearchesSound, LeaseSound, Asking, Outside, Who, quota
  <2>5. ThreadsSound'
    BY <2>1, <2>2 DEF CallMoves, QuotaInv, ThreadsSound, IsTool, Outside
  <2>6. QED
    BY <2>3, <2>4, <2>5, QuietKeeps DEF QuotaInv
<1>2. CASE Begin(r)
  <2> DEFINE t == [Idle EXCEPT !.phase = "lexical"]
  <2>1. /\ UNCHANGED <<world, now, quota>>
        /\ (Asked(r).tool = "retrieve" /\ Goes(r, t)) \/ UNCHANGED search
        /\ calls' = [calls EXCEPT ![r].thread = Asked(r).tool]
        /\ IsTool(r) /\ calls[r].thread = "submitted"
    BY <1>2 DEF Begin, InThread
  <2>2. DOMAIN t = SearchFields /\ t.at = 0 /\ t.lease = NoLease
    BY DEF Idle, SearchFields
  <2> HIDE DEF t
  <2>3. search[r].lease = NoLease
    BY <2>1 DEF QuotaInv, ThreadsSound, SearchesSound, LeaseSound
  <2>4. Quiet
    BY <2>1, <2>2, <2>3 DEF Quiet, Goes, QuotaInv, SearchesSound
  <2>5. late' \in BOOLEAN
    BY <2>1 DEF quota, QuotaInv, SearchesSound
  <2>6. SearchesSound'
    <3>1. CASE Goes(r, t)
      BY <2>1, <2>2, <2>5, <3>1, SearchesKept DEF LeaseSound
    <3>2. CASE UNCHANGED search
      BY <2>1, <3>2 DEF QuotaInv, SearchesSound, LeaseSound, Asking, Outside, Who, quota
    <3>3. QED
      BY <2>1, <3>1, <3>2
  <2>7. Asked(r).tool \notin {"none", "submitted"}
    BY <2>1, ToolNames
  <2>8. /\ DOMAIN calls' = Requests /\ \A q \in Requests : q # r => calls'[q] = calls[q]
        /\ DOMAIN calls'[r] = DOMAIN NoCall /\ calls'[r].thread = Asked(r).tool
    BY <2>1 DEF QuotaInv, ThreadsSound, NoCall
  <2>9. \A q \in Requests : q # r => search'[q] = search[q]
    BY <2>1 DEF QuotaInv, SearchesSound, Goes
  <2>10. ThreadsSound'
    BY <2>1, <2>7, <2>8, <2>9 DEF QuotaInv, ThreadsSound, IsTool, Outside
  <2>11. QED
    BY <2>4, <2>6, <2>10, QuietKeeps DEF QuotaInv
<1>3. QED
  BY <1>1, <1>2

-----------------------------------------------------------------------------
(* A reservation.                                                          *)

\* Requests have two of the scopes that there are buckets for.
LEMMA RequestScopes ==
  ASSUME NEW r \in Asking
  PROVE  ToSet(Scopes(Who(r))) \subseteq ScopesOf(Outside.asking)
BY DEF Asking, ScopesOf, Who

\* Leases are on scopes that there are buckets for.
LEMMA LeaseScopes ==
  ASSUME QuotaInv, NEW q \in Requests
  PROVE  ToSet(search[q].lease.scopes) \subseteq ScopesOf(Outside.asking)
<1>1. CASE search[q].lease = NoLease
  BY <1>1 DEF NoLease, ToSet
<1>2. CASE search[q].lease # NoLease
  BY <1>2, RequestScopes DEF QuotaInv, SearchesSound, LeaseSound
<1>3. QED
  BY <1>1, <1>2

\* What is known of a request when it is decided on.
LEMMA StampedFacts ==
  ASSUME QuotaInv, NEW r \in Requests, At(r, "stamped")
  PROVE  /\ r \in Asking /\ search[r].at \in Nat /\ WindowStart(search[r].at) \in Nat
         /\ search[r].lease = NoLease /\ DOMAIN search[r] = SearchFields
BY WindowStartNat DEF QuotaInv, SearchesSound, LeaseSound, At

\* On time, the bucket brought to the window of the stamp counts what was
\* admitted in that window; and none was admitted in a later one.
LEMMA BroughtExact ==
  ASSUME QuotaInv, ~late, NEW r \in Requests, At(r, "stamped"), ~Behind(r),
         NEW s \in ToSet(Scopes(Who(r)))
  PROVE  LET started == WindowStart(search[r].at)
             b == Brought(buckets[s], search[r].at)
             admitted == AdmittedIn(s, started)
         IN /\ b \in BucketType /\ b.started = started
            /\ b.requests = Cardinality(admitted)
            /\ b.active = Cardinality({q \in admitted : search[q].lease.held})
            /\ \A q \in Requests : s \in ToSet(search[q].lease.scopes) =>
                                     search[q].lease.started <= started
<1> DEFINE started == WindowStart(search[r].at)
           b == Brought(buckets[s], search[r].at)
           admitted == AdmittedIn(s, started)
<1>1. s \in ScopesOf(Outside.asking) /\ started \in Nat
  BY StampedFacts, RequestScopes
<1>2. buckets[s] \in BucketType /\ DOMAIN buckets = ScopesOf(Outside.asking)
  BY <1>1 DEF QuotaInv, BucketsSound
<1>3. b \in BucketType /\ b.started = started
  BY <1>1, <1>2, CurrentBucketFacts DEF Brought
<1>4. buckets[s].started # NoWindow => ~(started < buckets[s].started)
  BY DEF Behind
<1>5. buckets[s].started \in Nat \cup {NoWindow}
  BY <1>2, BucketFields
<1>6. \A q \in Requests : s \in ToSet(search[q].lease.scopes) =>
         /\ buckets[s].started # NoWindow /\ search[q].lease.started <= buckets[s].started
         /\ search[q].lease.started \in Nat
  <2> SUFFICES ASSUME NEW q \in Requests, s \in ToSet(search[q].lease.scopes)
               PROVE  /\ buckets[s].started # NoWindow
                      /\ search[q].lease.started <= buckets[s].started
                      /\ search[q].lease.started \in Nat
    OBVIOUS
  <2>1. search[q].lease # NoLease
    BY DEF NoLease, ToSet
  <2>2. search[q].lease.started \in Nat
    BY <2>1 DEF QuotaInv, SearchesSound, LeaseSound
  <2>3. QED
    BY <2>2 DEF QuotaInv, WindowsSound
<1>7. \A q \in Requests : s \in ToSet(search[q].lease.scopes) =>
         search[q].lease.started <= started
  BY <1>1, <1>4, <1>5, <1>6
<1>8. CASE buckets[s].started = started
  <2>1. b = buckets[s]
    BY <1>8 DEF Brought, CurrentBucket
  <2>2. started # NoWindow
    BY <1>1, Constants
  <2>3. /\ b.requests = Cardinality(admitted)
        /\ b.active = Cardinality({q \in admitted : search[q].lease.held})
    BY <1>1, <1>2, <1>8, <2>1, <2>2 DEF QuotaInv, CountsAreExact
  <2>4. QED
    BY <1>3, <1>7, <2>3
<1>9. CASE buckets[s].started # started
  <2>1. b = Fresh(started)
    BY <1>9 DEF Brought, CurrentBucket
  <2>2. b.requests = 0 /\ b.active = 0
    BY <1>1, <2>1, FreshBucket
  <2>3. admitted = {}
    <3>1. \A q \in Requests : s \in ToSet(search[q].lease.scopes) =>
            search[q].lease.started # started
      BY <1>1, <1>4, <1>5, <1>6, <1>9
    <3>2. QED
      BY <3>1 DEF AdmittedIn
  <2>4. Cardinality({}) = 0 /\ {q \in admitted : search[q].lease.held} = {}
    BY <2>3, FS_EmptySet
  <2>5. QED
    BY <1>3, <1>7, <2>2, <2>3, <2>4
<1>10. QED
  BY <1>8, <1>9

\* On time, both backends bring a bucket to the same.
LEMMA BroughtAlike ==
  ASSUME QuotaInv, ~late, NEW r \in Requests, At(r, "stamped"), ~Behind(r),
         NEW s \in ToSet(Scopes(Who(r)))
  PROVE  Brought(buckets[s], search[r].at) = Brought(twin[s], search[r].at)
<1> DEFINE started == WindowStart(search[r].at)
<1>1. s \in ScopesOf(Outside.asking) /\ started \in Nat
  BY StampedFacts, RequestScopes
<1>2. /\ DOMAIN buckets = ScopesOf(Outside.asking)
      /\ buckets[s].started \in Nat \cup {NoWindow} /\ twin[s].started \in Nat \cup {NoWindow}
  BY <1>1, BucketFields DEF QuotaInv, BucketsSound
<1>3. buckets[s] = twin[s] \/ Ahead(s)
  BY <1>1, <1>2 DEF QuotaInv, TwinSound
<1>4. twin[s].started # NoWindow => ~(started < twin[s].started)
  BY DEF Behind
<1>5. CASE Ahead(s)
  <2>1. buckets[s].started # started
    BY <1>1, <1>2, <1>4, <1>5, Constants DEF Ahead
  <2>2. Brought(buckets[s], search[r].at) = Fresh(started)
    BY <2>1 DEF Brought, CurrentBucket
  <2>3. Brought(twin[s], search[r].at) = Fresh(started)
    BY <1>5 DEF Ahead, Brought, CurrentBucket
  <2>4. QED
    BY <2>2, <2>3
<1>6. QED
  BY <1>3, <1>5

\* On time, both backends decide alike.
LEMMA DecideAlike ==
  ASSUME QuotaInv, ~late, NEW r \in Requests, At(r, "stamped"), ~Behind(r)
  PROVE  (PostgresReserve(buckets, Scopes(Who(r)), search[r].at).outcome = "allowed")
           <=> (MemoryReserve(twin, Scopes(Who(r)), search[r].at).outcome = "allowed")
<1> DEFINE S == ScopesOf(Outside.asking)
           scopes == Scopes(Who(r))
           d == PostgresReserve(buckets, scopes, search[r].at)
           m == MemoryReserve(twin, scopes, search[r].at)
<1>1. /\ ToSet(scopes) \subseteq S /\ search[r].at \in Nat
      /\ buckets \in [S -> BucketType] /\ twin \in [S -> BucketType]
  BY StampedFacts, RequestScopes DEF QuotaInv, BucketsSound
<1> HIDE DEF S
<1>2. Decides(d, S, buckets, scopes, search[r].at)
  BY <1>1, PostgresDecision
<1>3. Decides(m, S, twin, scopes, search[r].at)
  BY <1>1, MemoryDecision
<1>4. \A s \in ToSet(scopes) : Brought(buckets[s], search[r].at) = Brought(twin[s], search[r].at)
  BY BroughtAlike
<1>5. QED
  BY <1>2, <1>3, <1>4 DEF Decides

\* A reservation keeps the invariant: an admission is counted in the bucket of
\* its window in both backends, a refusal counts nothing.
LEMMA ReserveKeeps ==
  ASSUME QuotaInv, NEW r \in Requests, Reserve(r), UNCHANGED calls
  PROVE  QuotaInv'
<1> DEFINE S == ScopesOf(Outside.asking)
           scopes == Scopes(Who(r))
           at == search[r].at
           started == WindowStart(at)
           d == PostgresReserve(buckets, scopes, at)
           m == MemoryReserve(twin, scopes, at)
           lease == [scopes |-> scopes, started |-> started, held |-> TRUE]
           granted == [search[r] EXCEPT !.phase = "admitted", !.lease = lease]
           refused == [search[r] EXCEPT !.phase = "done", !.status = "429"]
           t == IF d.outcome = "allowed" THEN granted ELSE refused
<1>1. /\ At(r, "stamped") /\ buckets' = d.buckets /\ twin' = m.buckets
      /\ late' = (late \/ Behind(r)) /\ Goes(r, t) /\ UNCHANGED <<world, now, calls>>
  BY Zenon DEF Reserve
<1>2. /\ r \in Asking /\ at \in Nat /\ started \in Nat /\ search[r].lease = NoLease
      /\ DOMAIN search[r] = SearchFields
  BY <1>1, StampedFacts
<1>3. /\ ToSet(scopes) \subseteq S /\ S' = S
      /\ buckets \in [S -> BucketType] /\ twin \in [S -> BucketType]
  BY <1>1, <1>2, RequestScopes DEF QuotaInv, BucketsSound, Outside
<1>4. /\ DOMAIN t = SearchFields /\ t.at = at /\ t.phase \in {"admitted", "done"}
      /\ t.lease = IF d.outcome = "allowed" THEN lease ELSE NoLease
  BY <1>2 DEF SearchFields
<1> HIDE DEF t, granted, refused, S
<1>5. lease.held /\ lease.held \in BOOLEAN
  BY Zenon
<1>6. lease.scopes = scopes /\ lease.started = started /\ DOMAIN lease = {"scopes", "started", "held"}
  OBVIOUS
<1> HIDE DEF lease
<1>7. Decides(d, S, buckets, scopes, at) /\
      ((d.outcome # "allowed") =>
         \A s \in ToSet(scopes) : \/ d.buckets[s] = Brought(buckets[s], at)
                                  \/ d.buckets[s] = buckets[s] /\ buckets[s].started # NoWindow)
  BY <1>2, <1>3, PostgresDecision
<1>8. Decides(m, S, twin, scopes, at) /\
      ((m.outcome # "allowed") => \A s \in ToSet(scopes) : m.buckets[s] = Brought(twin[s], at))
  BY <1>2, <1>3, MemoryDecision
<1> HIDE DEF d, m
<1>9. world' \in DOMAIN Worlds /\ BucketsSound'
  BY <1>1, <1>3, <1>7, <1>8 DEF QuotaInv, BucketsSound, Outside, S, Decides
<1>10. SearchesSound' /\ ThreadsSound'
  <2>1. late' \in BOOLEAN
    BY <1>1 DEF QuotaInv, SearchesSound, Behind
  <2>2. LeaseSound(r, t)
    BY <1>2, <1>4, <1>5, <1>6 DEF LeaseSound
  <2>3. search[r].phase # "idle" /\ t.at \in Nat
    BY <1>1, <1>2, <1>4 DEF At
  <2>4. QED
    BY <1>1, <1>4, <2>1, <2>2, <2>3, SearchesKept, ThreadsKept
<1>11. /\ search'[r] = t /\ DOMAIN search' = Requests
       /\ \A q \in Requests : q # r => search'[q] = search[q]
  BY <1>1 DEF Goes, QuotaInv, SearchesSound
<1>12. AdmittedFinite'
  <2> DEFINE before == {q \in Requests : search[q].lease # NoLease}
             after == {q \in Requests : search'[q].lease # NoLease}
  <2>1. IsFiniteSet(before \cup {r})
    BY FS_AddElement DEF QuotaInv, AdmittedFinite
  <2>2. after \subseteq before \cup {r}
    BY <1>11
  <2>3. IsFiniteSet(after)
    BY <2>1, <2>2, FS_Subset
  <2>4. QED
    BY <2>3 DEF AdmittedFinite
<1>13. CASE late'
  BY <1>9, <1>10, <1>12, <1>13 DEF QuotaInv, WindowsSound, CountsAreExact, TwinSound
<1>14. CASE ~late'
  <2>1. ~late /\ ~Behind(r)
    BY <1>1, <1>14
  <2>2. \A s \in ToSet(scopes) :
          LET b == Brought(buckets[s], at)
              admitted == AdmittedIn(s, started)
          IN /\ b \in BucketType /\ b.started = started
             /\ b.requests = Cardinality(admitted)
             /\ b.active = Cardinality({q \in admitted : search[q].lease.held})
             /\ b = Brought(twin[s], at)
             /\ \A q \in Requests : s \in ToSet(search[q].lease.scopes) =>
                                      search[q].lease.started <= started
    BY <1>1, <2>1, BroughtExact, BroughtAlike
  <2>3. (d.outcome = "allowed") <=> (m.outcome = "allowed")
    BY <1>1, <2>1, DecideAlike DEF d, m
  <2>4. /\ DOMAIN buckets = S /\ DOMAIN d.buckets = S
        /\ \A s \in S \ ToSet(scopes) : d.buckets[s] = buckets[s] /\ m.buckets[s] = twin[s]
    BY <1>3, <1>7, <1>8 DEF Decides
  <2>5. \A q \in Requests : ToSet(search[q].lease.scopes) \subseteq S
    BY LeaseScopes DEF S
  <2> DEFINE admitted(s, w) == {q \in Requests : /\ s \in ToSet(search'[q].lease.scopes)
                                                 /\ search'[q].lease.started = w}
             held(s, w) == {q \in admitted(s, w) : search'[q].lease.held}
             holding(s, w) == {q \in AdmittedIn(s, w) : search[q].lease.held}
  <2>6. SUFFICES /\ WindowsSound' /\ TwinSound'
                 /\ \A s \in S : buckets'[s].started # NoWindow =>
                      /\ buckets'[s].requests = Cardinality(admitted(s, buckets'[s].started))
                      /\ buckets'[s].active = Cardinality(held(s, buckets'[s].started))
    <3>1. CountsAreExact'
      BY <1>1, <2>4 DEF CountsAreExact, AdmittedIn
    <3>2. QED
      BY <1>9, <1>10, <1>12, <3>1 DEF QuotaInv
  <2>7. \A s \in S : buckets[s].started # NoWindow =>
          /\ buckets[s].requests = Cardinality(AdmittedIn(s, buckets[s].started))
          /\ buckets[s].active = Cardinality(holding(s, buckets[s].started))
    BY <2>1, <2>4 DEF QuotaInv, CountsAreExact
  <2>8. CASE d.outcome # "allowed"
    <3>1. \A q \in Requests : search'[q].lease = search[q].lease
      BY <1>2, <1>4, <1>11, <2>8
    <3>2. \A s, w : admitted(s, w) = AdmittedIn(s, w) /\ held(s, w) = holding(s, w)
      BY <3>1 DEF AdmittedIn
    <3>3. \A s \in ToSet(scopes) : \/ d.buckets[s] = Brought(buckets[s], at)
                                   \/ d.buckets[s] = buckets[s] /\ buckets[s].started # NoWindow
      BY <1>7, <2>8
    <3>4. WindowsSound'
      BY <1>1, <1>2, <2>1, <2>2, <2>4, <2>5, <3>1, <3>3, Constants DEF QuotaInv, WindowsSound
    <3>5. ASSUME NEW s \in S, buckets'[s].started # NoWindow
          PROVE  /\ buckets'[s].requests = Cardinality(admitted(s, buckets'[s].started))
                 /\ buckets'[s].active = Cardinality(held(s, buckets'[s].started))
      <4> HIDE DEF admitted, held, holding
      <4>1. CASE buckets'[s] = buckets[s]
        BY <2>7, <3>2, <3>5, <4>1
      <4>2. CASE s \in ToSet(scopes) /\ buckets'[s] = Brought(buckets[s], at)
        BY <2>2, <3>2, <4>2 DEF holding
      <4>3. QED
        BY <1>1, <2>4, <3>3, <4>1, <4>2
    <3>6. TwinSound'
      <4> SUFFICES ASSUME NEW s \in S PROVE buckets'[s] = twin'[s] \/ Ahead(s)'
        BY <1>1, <2>4 DEF TwinSound
      <4>1. CASE s \notin ToSet(scopes)
        BY <1>1, <2>1, <2>4, <4>1 DEF QuotaInv, TwinSound, Ahead
      <4>2. CASE s \in ToSet(scopes)
        <5>1. twin'[s] = Brought(buckets[s], at)
          BY <1>1, <1>8, <2>2, <2>3, <2>8, <4>2
        <5>2. CASE buckets[s].started = started
          BY <1>1, <3>3, <4>2, <5>1, <5>2 DEF Brought, CurrentBucket
        <5>3. CASE buckets[s].started # started /\ buckets'[s] # twin'[s]
          <6>1. /\ buckets'[s] = buckets[s] /\ buckets[s].started # NoWindow
                /\ twin'[s] = Fresh(started)
            BY <1>1, <3>3, <4>2, <5>1, <5>3 DEF Brought, CurrentBucket
          <6>2. twin'[s].started = started
            BY <2>2, <4>2, <5>1
          <6>3. buckets[s].started < started
            <7>1. buckets[s].started \in Nat
              BY <1>3, <6>1, BucketFields
            <7>2. ~(started < buckets[s].started)
              BY <2>1, <4>2, <6>1 DEF Behind
            <7>3. QED
              BY <1>2, <5>3, <7>1, <7>2
          <6>4. QED
            BY <1>2, <6>1, <6>2, <6>3, Constants DEF Ahead
        <5>4. QED
          BY <5>2, <5>3
      <4>3. QED
        BY <4>1, <4>2
    <3>7. QED
      BY <3>4, <3>5, <3>6
  <2>9. CASE d.outcome = "allowed"
    <3>1. /\ \A q \in Requests : q # r => search'[q].lease = search[q].lease
          /\ search'[r].lease = lease
      BY <1>4, <1>11, <2>9
    <3>2. \A s \in ToSet(scopes) :
            LET b == Brought(buckets[s], at)
            IN /\ buckets'[s] = Counted(b) /\ buckets'[s].started = started
               /\ buckets'[s].requests = b.requests + 1 /\ buckets'[s].active = b.active + 1
               /\ twin'[s] = buckets'[s]
      <4> SUFFICES ASSUME NEW s \in ToSet(scopes)
                   PROVE  LET b == Brought(buckets[s], at)
                          IN /\ buckets'[s] = Counted(b) /\ buckets'[s].started = started
                             /\ buckets'[s].requests = b.requests + 1
                             /\ buckets'[s].active = b.active + 1
                             /\ twin'[s] = buckets'[s]
        BY DEF scopes
      <4> DEFINE b == Brought(buckets[s], at)
      <4>1. /\ buckets'[s] = Counted(b) /\ twin'[s] = Counted(b)
            /\ ~RateLimited(b) /\ ~ConcurrentLimited(b) /\ b \in BucketType /\ b.started = started
        BY <1>1, <1>7, <1>8, <2>2, <2>3, <2>9 DEF Decides, Full
      <4> HIDE DEF b
      <4>2. QED
        BY <4>1, CountedFacts DEF b
    <3>3. WindowsSound'
      <4> SUFFICES ASSUME NEW q \in Requests, NEW s \in ToSet(search'[q].lease.scopes)
                   PROVE  /\ buckets'[s].started # NoWindow
                          /\ search'[q].lease.started <= buckets'[s].started
        BY DEF WindowsSound
      <4>1. CASE q = r
        BY <1>2, <1>6, <3>1, <3>2, <4>1, Constants
      <4>2. CASE q # r /\ s \in ToSet(scopes)
        BY <1>2, <2>2, <3>1, <3>2, <4>2, Constants
      <4>3. CASE q # r /\ s \notin ToSet(scopes)
        BY <1>1, <2>1, <2>4, <2>5, <3>1, <4>3 DEF QuotaInv, WindowsSound
      <4>4. QED
        BY <4>1, <4>2, <4>3
    <3>4. ASSUME NEW s \in S, buckets'[s].started # NoWindow
          PROVE  /\ buckets'[s].requests = Cardinality(admitted(s, buckets'[s].started))
                 /\ buckets'[s].active = Cardinality(held(s, buckets'[s].started))
      <4>1. r \notin AdmittedIn(s, started) /\ r \notin holding(s, started)
        BY <1>2 DEF AdmittedIn, NoLease, ToSet
      <4>2. CASE s \notin ToSet(scopes)
        <5>1. buckets'[s] = buckets[s]
          BY <1>1, <2>4, <4>2
        <5>2. \A w : admitted(s, w) = AdmittedIn(s, w) /\ held(s, w) = holding(s, w)
          BY <1>2, <1>6, <3>1, <4>2 DEF AdmittedIn, NoLease, ToSet
        <5> HIDE DEF admitted, held, holding
        <5>3. QED
          BY <2>7, <3>4, <5>1, <5>2
      <4>3. CASE s \in ToSet(scopes)
        <5>1. /\ admitted(s, started) = AdmittedIn(s, started) \cup {r}
              /\ held(s, started) = holding(s, started) \cup {r}
          BY <1>2, <1>5, <1>6, <3>1, <4>3 DEF AdmittedIn, NoLease, ToSet
        <5>2. IsFiniteSet(AdmittedIn(s, started)) /\ IsFiniteSet(holding(s, started))
          <6>1. AdmittedIn(s, started) \subseteq {q \in Requests : search[q].lease # NoLease}
            BY DEF AdmittedIn, NoLease, ToSet
          <6>2. holding(s, started) \subseteq AdmittedIn(s, started)
            OBVIOUS
          <6> HIDE DEF holding
          <6>3. QED
            BY <6>1, <6>2, FS_Subset DEF QuotaInv, AdmittedFinite
        <5> HIDE DEF admitted, held, started
        <5>3. /\ Cardinality(AdmittedIn(s, started) \cup {r}) = Cardinality(AdmittedIn(s, started)) + 1
              /\ Cardinality(holding(s, started) \cup {r}) = Cardinality(holding(s, started)) + 1
          <6> HIDE DEF holding
          <6>1. QED
            BY <4>1, <5>2, FS_AddElement
        <5>4. /\ Brought(buckets[s], at).requests = Cardinality(AdmittedIn(s, started))
              /\ Brought(buckets[s], at).active = Cardinality(holding(s, started))
          BY <2>2, <4>3
        <5> HIDE DEF holding
        <5>5. QED
          BY <3>2, <4>3, <5>1, <5>3, <5>4
      <4>4. QED
        BY <4>2, <4>3
    <3>5. TwinSound'
      <4> SUFFICES ASSUME NEW s \in S PROVE buckets'[s] = twin'[s] \/ Ahead(s)'
        BY <1>1, <2>4 DEF TwinSound
      <4>1. CASE s \notin ToSet(scopes)
        BY <1>1, <2>1, <2>4, <4>1 DEF QuotaInv, TwinSound, Ahead
      <4>2. QED
        BY <3>2, <4>1
    <3>6. QED
      BY <3>3, <3>4, <3>5
  <2>10. QED
    BY <2>8, <2>9
<1>15. QED
  BY <1>13, <1>14

-----------------------------------------------------------------------------
(* A release.                                                              *)

\* A lease that never was stays so.
LEMMA NoLeaseReleased == [NoLease EXCEPT !.held = FALSE] = NoLease
<1> DEFINE l == [NoLease EXCEPT !.held = FALSE]
<1>1. DOMAIN NoLease = {"scopes", "started", "held"} /\ NoLease.held = FALSE
  BY DEF NoLease
<1>2. NoLease = [x \in DOMAIN NoLease |-> NoLease[x]]
  BY DEF NoLease
<1>3. l = [x \in DOMAIN NoLease |-> IF x = "held" THEN FALSE ELSE NoLease[x]]
  BY Zenon
<1>4. \A x \in DOMAIN NoLease : (IF x = "held" THEN FALSE ELSE NoLease[x]) = NoLease[x]
  BY <1>1
<1>5. QED
  BY <1>2, <1>3, <1>4, Zenon

\* A release keeps the invariant: it counts if its window is still that of the
\* bucket, where the lease was one of those counted.
LEMMA ReleaseKeeps ==
  ASSUME QuotaInv, NEW r \in Requests, Release(r), UNCHANGED calls
  PROVE  QuotaInv'
<1> DEFINE S == ScopesOf(Outside.asking)
           lease == search[r].lease
           t == [search[r] EXCEPT !.phase = "done", !.lease.held = FALSE]
<1>1. /\ At(r, "release") /\ Goes(r, t) /\ UNCHANGED <<world, now, late, calls>>
      /\ IF lease.held THEN buckets' = Released(buckets, lease) /\ twin' = Released(twin, lease)
         ELSE UNCHANGED <<buckets, twin>>
  BY DEF Release
<1>2. DOMAIN search[r] = SearchFields /\ search[r].at \in Nat /\ LeaseSound(r, search[r])
  BY DEF QuotaInv, SearchesSound
<1>3. /\ DOMAIN t = SearchFields /\ t.at \in Nat /\ t.phase = "done"
      /\ t.lease = [lease EXCEPT !.held = FALSE]
  BY <1>2 DEF SearchFields
<1>4. /\ t.lease.scopes = lease.scopes /\ t.lease.started = lease.started /\ ~t.lease.held
      /\ t.lease.held \in BOOLEAN /\ DOMAIN t.lease = {"scopes", "started", "held"}
      /\ lease = NoLease => t.lease = NoLease
  <2> DEFINE l == [lease EXCEPT !.held = FALSE]
  <2>1. DOMAIN lease = {"scopes", "started", "held"}
    BY <1>2 DEF LeaseSound, NoLease
  <2>2. l.held = FALSE
    BY <2>1
  <2>3. l.scopes = lease.scopes /\ l.started = lease.started /\ DOMAIN l = {"scopes", "started", "held"}
    BY <2>1
  <2>4. lease = NoLease => l = NoLease
    BY NoLeaseReleased
  <2> HIDE DEF l
  <2>5. l.held \in BOOLEAN
    BY <2>2, Zenon
  <2>6. QED
    BY <1>3, <2>2, <2>3, <2>4, <2>5 DEF l
<1> HIDE DEF t
<1>5. SearchesSound' /\ ThreadsSound'
  <2>1. late' \in BOOLEAN
    BY <1>1 DEF QuotaInv, SearchesSound
  <2>2. LeaseSound(r, t)
    BY <1>1, <1>2, <1>3, <1>4 DEF LeaseSound, At
  <2>3. QED
    BY <1>1, <1>3, <2>1, <2>2, SearchesKept, ThreadsKept DEF At
<1>6. /\ search'[r] = t /\ DOMAIN search' = Requests
      /\ \A q \in Requests : q # r => search'[q] = search[q]
  BY <1>1 DEF Goes, QuotaInv, SearchesSound
<1>7. \A q \in Requests : /\ search'[q].lease.scopes = search[q].lease.scopes
                          /\ search'[q].lease.started = search[q].lease.started
                          /\ search[q].lease = NoLease => search'[q].lease = NoLease
  BY <1>4, <1>6
<1>8. AdmittedFinite'
  <2>1. {q \in Requests : search'[q].lease # NoLease} \subseteq {q \in Requests : search[q].lease # NoLease}
    BY <1>7
  <2>2. QED
    BY <2>1, FS_Subset DEF QuotaInv, AdmittedFinite
<1>9. /\ buckets \in [S -> BucketType] /\ twin \in [S -> BucketType] /\ S' = S
  BY <1>1 DEF QuotaInv, BucketsSound, Outside
<1> HIDE DEF S
<1> DEFINE counts(b, s) == /\ s \in ToSet(lease.scopes) /\ b.started = lease.started
                           /\ b.active > 0
<1>10. lease.held => \A s \in S :
         /\ buckets'[s] \in BucketType /\ buckets'[s].started = buckets[s].started
         /\ buckets'[s].requests = buckets[s].requests
         /\ buckets'[s].active = IF counts(buckets[s], s) THEN buckets[s].active - 1
                                 ELSE buckets[s].active
  BY <1>1, <1>9, ReleasedFacts
<1>11. lease.held => \A s \in S :
         /\ twin'[s] \in BucketType /\ twin'[s].started = twin[s].started
         /\ twin'[s].requests = twin[s].requests
         /\ twin'[s].active = IF counts(twin[s], s) THEN twin[s].active - 1
                              ELSE twin[s].active
         /\ ~counts(twin[s], s) => twin'[s] = twin[s]
  BY <1>1, <1>9, ReleasedFacts
<1>12. DOMAIN buckets' = S /\ DOMAIN twin' = S
  BY <1>1, <1>9 DEF Released
<1>13. BucketsSound'
  <2>1. \A s \in S : buckets'[s] \in BucketType /\ twin'[s] \in BucketType
    BY <1>1, <1>9, <1>10, <1>11
  <2>2. buckets' \in [S -> BucketType] /\ twin' \in [S -> BucketType]
    <3>1. CASE lease.held
      BY <1>1, <1>9, <1>12, <2>1, <3>1 DEF Released
    <3>2. CASE ~lease.held
      BY <1>1, <1>9, <3>2
    <3>3. QED
      BY <3>1, <3>2
  <2>3. QED
    BY <1>9, <2>2 DEF BucketsSound, S
<1>14. WindowsSound'
  <2>1. \A s \in S : buckets'[s].started = buckets[s].started
    BY <1>1, <1>10
  <2>2. \A q \in Requests : ToSet(search[q].lease.scopes) \subseteq S
    BY LeaseScopes DEF S
  <2>3. QED
    BY <1>1, <1>7, <2>1, <2>2 DEF QuotaInv, WindowsSound
<1>15. CountsAreExact'
  <2> DEFINE holding(s, w) == {q \in AdmittedIn(s, w) : search[q].lease.held}
             admitted(s, w) == {q \in Requests : /\ s \in ToSet(search'[q].lease.scopes)
                                                 /\ search'[q].lease.started = w}
             held(s, w) == {q \in admitted(s, w) : search'[q].lease.held}
  <2>1. \A s, w : admitted(s, w) = AdmittedIn(s, w)
    BY <1>7 DEF AdmittedIn
  <2>2. SUFFICES ASSUME ~late, NEW s \in S, buckets'[s].started # NoWindow
                 PROVE  /\ buckets'[s].requests = Cardinality(admitted(s, buckets'[s].started))
                        /\ buckets'[s].active = Cardinality(held(s, buckets'[s].started))
    BY <1>1, <1>12 DEF CountsAreExact, AdmittedIn
  <2> DEFINE w == buckets[s].started
  <2>3. /\ buckets'[s].started = w /\ buckets'[s].requests = buckets[s].requests
        /\ ~lease.held => buckets'[s] = buckets[s]
    BY <1>1, <1>10
  <2>4. /\ buckets[s].requests = Cardinality(AdmittedIn(s, w))
        /\ buckets[s].active = Cardinality(holding(s, w))
    BY <1>9, <2>2, <2>3 DEF QuotaInv, CountsAreExact
  <2>5. r \in holding(s, w) <=> s \in ToSet(lease.scopes) /\ w = lease.started /\ lease.held
    BY DEF AdmittedIn
  <2>6. held(s, w) = holding(s, w) \ {r}
    BY <1>4, <1>6, <2>1 DEF AdmittedIn
  <2> HIDE DEF admitted, held, holding
  <2>7. CASE r \notin holding(s, w)
    <3>1. held(s, w) = holding(s, w)
      BY <2>6, <2>7
    <3>2. buckets'[s].active = buckets[s].active
      BY <1>10, <2>3, <2>5, <2>7
    <3>3. QED
      BY <2>1, <2>3, <2>4, <3>1, <3>2
  <2>8. CASE r \in holding(s, w)
    <3>1. IsFiniteSet(holding(s, w))
      <4>1. holding(s, w) \subseteq {q \in Requests : search[q].lease # NoLease}
        BY DEF holding, AdmittedIn, NoLease, ToSet
      <4>2. QED
        BY <4>1, FS_Subset DEF QuotaInv, AdmittedFinite
    <3>2. /\ Cardinality(holding(s, w) \ {r}) = Cardinality(holding(s, w)) - 1
          /\ IsFiniteSet(holding(s, w) \ {r})
      BY <2>8, <3>1, FS_RemoveElement
    <3>3. Cardinality(holding(s, w)) \in Nat /\ Cardinality(holding(s, w) \ {r}) \in Nat
      BY <3>1, <3>2, FS_CardinalityType
    <3>4. buckets[s].active > 0
      BY <2>4, <3>2, <3>3
    <3>5. buckets'[s].active = buckets[s].active - 1
      BY <1>10, <2>5, <2>8, <3>4
    <3>6. QED
      BY <2>1, <2>3, <2>4, <2>6, <3>2, <3>5
  <2>9. QED
    BY <2>7, <2>8
<1>16. TwinSound'
  <2> SUFFICES ASSUME ~late, NEW s \in S PROVE buckets'[s] = twin'[s] \/ Ahead(s)'
    BY <1>1, <1>12 DEF TwinSound
  <2>1. buckets[s] = twin[s] \/ Ahead(s)
    BY <1>9 DEF QuotaInv, TwinSound
  <2>2. CASE ~lease.held
    BY <1>1, <2>1, <2>2 DEF Ahead
  <2>3. CASE lease.held /\ buckets[s] = twin[s]
    BY <1>10, <1>11, <2>3, SameBucket
  <2>4. CASE lease.held /\ Ahead(s)
    <3>1. twin[s].started \in Nat \cup {NoWindow} /\ twin[s].active = 0
      BY <1>9, <2>4, BucketFields, FreshBucket DEF Ahead
    <3>2. twin'[s] = twin[s] /\ buckets'[s].started = buckets[s].started
      BY <1>10, <1>11, <2>4, <3>1
    <3>3. QED
      BY <2>4, <3>2 DEF Ahead
  <2>5. QED
    BY <2>1, <2>2, <2>3, <2>4
<1>17. QED
  BY <1>1, <1>5, <1>8, <1>13, <1>14, <1>15, <1>16 DEF QuotaInv

-----------------------------------------------------------------------------
(* Theorems.                                                               *)

\* At first nothing is counted and nobody has a lease.
LEMMA QuotaInit == ToolsInit => QuotaInv
<1> SUFFICES ASSUME ToolsInit PROVE QuotaInv
  OBVIOUS
<1> DEFINE S == ScopesOf(Outside.asking)
<1>1. /\ world \in DOMAIN Worlds /\ buckets = [s \in S |-> Fresh(NoWindow)] /\ twin = buckets
      /\ now = 0 /\ late = FALSE /\ search = [r \in Requests |-> Idle]
      /\ calls = [r \in Requests |-> NoCall]
  BY DEF ToolsInit, Init, Outside
<1>2. Fresh(NoWindow) \in BucketType /\ Fresh(NoWindow).started = NoWindow
  BY FreshBucket
<1>3. BucketsSound
  BY <1>1, <1>2 DEF BucketsSound
<1>4. DOMAIN Idle = SearchFields /\ Idle.at = 0 /\ Idle.lease = NoLease /\ Idle.phase = "idle"
  BY DEF Idle, SearchFields
<1>5. late \in BOOLEAN
  BY <1>1, Zenon
<1>6. SearchesSound
  BY <1>1, <1>4, <1>5 DEF SearchesSound, LeaseSound
<1>7. \A r \in Requests : ToSet(search[r].lease.scopes) = {}
  BY <1>1, <1>4 DEF NoLease, ToSet
<1>8. WindowsSound
  BY <1>7 DEF WindowsSound
<1>9. AdmittedFinite
  <2>1. {r \in Requests : search[r].lease # NoLease} = {}
    BY <1>1, <1>4
  <2>2. QED
    BY <2>1, FS_EmptySet DEF AdmittedFinite
<1>10. CountsAreExact
  BY <1>1, <1>2 DEF CountsAreExact
<1>11. TwinSound
  BY <1>1 DEF TwinSound
<1>12. ThreadsSound
  BY <1>1, <1>4 DEF ThreadsSound
<1>13. QED
  BY <1>1, <1>3, <1>6, <1>8, <1>9, <1>10, <1>11, <1>12 DEF QuotaInv

\* The steps of a search: a stamp, a reservation, a release, or going on.
LEMMA SearchSteps ==
  ASSUME QuotaInv, Next
  PROVE  \/ \E r \in Requests : Stamp(r) \/ Reserve(r) \/ Release(r) \/ GoesOn(r)
         \/ Tick \/ PolicyChange \/ Publish \/ Expire
BY CacheGoesOn, LegsGoOn, ResultGoesOn DEF Next

\* Every step keeps the invariant.
THEOREM QuotaStep == QuotaInv /\ [ToolsNext]_toolVars => QuotaInv'
<1> SUFFICES ASSUME QuotaInv, [ToolsNext]_toolVars PROVE QuotaInv'
  OBVIOUS
<1>1. ASSUME NEW r \in Requests, Stamp(r) \/ Reserve(r) \/ Release(r) \/ GoesOn(r), UNCHANGED calls
      PROVE  QuotaInv'
  BY <1>1, StampKeeps, ReserveKeeps, ReleaseKeeps, GoesOnKeeps
<1>2. CASE Next /\ UNCHANGED calls
  BY <1>1, <1>2, SearchSteps, EnvironmentKeeps
<1>3. ASSUME NEW r \in Requests, ToolStep(r) PROVE QuotaInv'
  BY <1>3, ToolKeeps
<1>4. CASE UNCHANGED toolVars
  <2>1. UNCHANGED <<world, now, quota, search, calls>>
    BY <1>4 DEF toolVars, vars, quota
  <2>2. Quiet
    BY <2>1 DEF Quiet, QuotaInv, SearchesSound
  <2>3. SearchesSound'
    BY <2>1 DEF QuotaInv, SearchesSound, LeaseSound, Asking, Outside, Who, quota
  <2>4. ThreadsSound'
    BY <2>1 DEF QuotaInv, ThreadsSound, IsTool, Outside
  <2>5. QED
    BY <2>2, <2>3, <2>4, QuietKeeps DEF QuotaInv
<1>5. QED
  BY <1>2, <1>3, <1>4 DEF ToolsNext

\* So it holds throughout.
THEOREM QuotaSafety == ToolsSpec => []QuotaInv
BY QuotaInit, QuotaStep, PTL DEF ToolsSpec

\* On time, buckets count the admissions and the leases of their window exactly,
\* however leases and releases of two windows overlap.
THEOREM CountsExact == ToolsSpec => []CountsAreExact
<1>1. QuotaInv => CountsAreExact
  BY DEF QuotaInv
<1>2. QED
  BY <1>1, QuotaSafety, PTL

\* On time, the in-memory backend admits what the PostgreSQL one admits.
THEOREM BackendsAlike == ToolsSpec => []BackendsAgree
<1>1. QuotaInv => BackendsAgree
  <2> SUFFICES ASSUME QuotaInv, ~late, NEW r \in Asking, At(r, "stamped"), ~Behind(r)
               PROVE  (PostgresReserve(buckets, Scopes(Who(r)), search[r].at).outcome = "allowed")
                        <=> (MemoryReserve(twin, Scopes(Who(r)), search[r].at).outcome = "allowed")
    BY Zenon DEF BackendsAgree
  <2>1. r \in Requests
    <3>1. Outside \in ToSet(Worlds)
      BY DEF QuotaInv, Outside, ToSet
    <3>2. QED
      BY <3>1, SearchAssumption DEF Asking
  <2>2. QED
    BY <2>1, DecideAlike
<1>2. QED
  BY <1>1, QuotaSafety, PTL

\* A bucket stays within its limits in both backends, even with stamps that come
\* late and releases that fail.
BucketsWithinLimits ==
  \A s \in DOMAIN buckets : \A b \in {buckets[s], twin[s]} :
    b.requests <= MaxRequests /\ b.active <= MaxConcurrent

\* Neither backend lets a bucket pass its limits.
THEOREM LimitsHold == ToolsSpec => []BucketsWithinLimits
<1>1. QuotaInv => BucketsWithinLimits
  BY BucketFields, Constants DEF QuotaInv, BucketsSound, BucketsWithinLimits
<1>2. QED
  BY <1>1, QuotaSafety, PTL

\* On time, no window admits more requests for a scope than its limit: not the
\* window of the bucket alone, but every one that there was, whatever was released
\* and whatever began since.
WindowsWithinLimits ==
  ~late => \A s \in ScopesOf(Outside.asking) : \A started \in Nat :
    Cardinality(AdmittedIn(s, started)) <= MaxRequests

\* A step is a reservation, or admits nobody.
LEMMA AdmissionSteps ==
  ASSUME QuotaInv, [ToolsNext]_toolVars
  PROVE  \/ \E r \in Requests : Reserve(r)
         \/ /\ UNCHANGED <<world, late>>
            /\ \A q \in Requests : /\ search'[q].lease.scopes = search[q].lease.scopes
                                   /\ search'[q].lease.started = search[q].lease.started
<1> DEFINE Nobody == /\ UNCHANGED <<world, late>>
                     /\ \A q \in Requests : /\ search'[q].lease.scopes = search[q].lease.scopes
                                            /\ search'[q].lease.started = search[q].lease.started
<1>1. ASSUME NEW r \in Requests, NEW t, Goes(r, t), UNCHANGED <<world, late>>,
             t.lease.scopes = search[r].lease.scopes, t.lease.started = search[r].lease.started
      PROVE  Nobody
  BY <1>1 DEF Goes, QuotaInv, SearchesSound
<1>2. ASSUME UNCHANGED <<world, late, search>> PROVE Nobody
  BY <1>2
<1>3. ASSUME NEW r \in Requests, GoesOn(r) PROVE Nobody
  BY <1>1, <1>3 DEF GoesOn, Follows, quota
<1>4. ASSUME NEW r \in Requests, Release(r) PROVE Nobody
  <2> DEFINE t == [search[r] EXCEPT !.phase = "done", !.lease.held = FALSE]
  <2>1. Goes(r, t) /\ UNCHANGED <<world, late>>
    BY <1>4 DEF Release
  <2>2. DOMAIN search[r] = SearchFields /\ DOMAIN search[r].lease = {"scopes", "started", "held"}
    BY DEF QuotaInv, SearchesSound, LeaseSound, NoLease
  <2>3. t.lease.scopes = search[r].lease.scopes /\ t.lease.started = search[r].lease.started
    BY <2>2 DEF SearchFields
  <2> HIDE DEF t
  <2>4. QED
    BY <1>1, <2>1, <2>3
<1>5. ASSUME NEW r \in Requests, Stamp(r) PROVE Nobody
  <2> DEFINE t == [Idle EXCEPT !.at = now, !.phase = IF Outside.limited THEN "stamped" ELSE "admitted"]
  <2>1. Goes(r, t) /\ search[r].phase = "idle" /\ UNCHANGED <<world, quota>>
    BY <1>5 DEF Stamp, At
  <2>2. t.lease = NoLease /\ search[r].lease = NoLease
    BY <2>1 DEF Idle, QuotaInv, SearchesSound, LeaseSound
  <2> HIDE DEF t
  <2>3. QED
    BY <1>1, <2>1, <2>2 DEF quota
<1>6. ASSUME NEW r \in Requests, Begin(r) PROVE Nobody
  <2> DEFINE t == [Idle EXCEPT !.phase = "lexical"]
  <2>1. /\ UNCHANGED <<world, quota>> /\ IsTool(r) /\ calls[r].thread = "submitted"
        /\ Goes(r, t) \/ UNCHANGED search
    BY <1>6 DEF Begin, InThread
  <2>2. t.lease = NoLease /\ search[r].lease = NoLease
    BY <2>1 DEF Idle, QuotaInv, ThreadsSound, SearchesSound, LeaseSound
  <2> HIDE DEF t
  <2>3. QED
    BY <1>1, <1>2, <2>1, <2>2 DEF quota
<1> HIDE DEF Nobody
<1>7. CASE Next
  <2>1. Tick \/ PolicyChange \/ Publish \/ Expire => UNCHANGED <<world, late, search>>
    BY DEF Tick, PolicyChange, Publish, Expire, quota
  <2>2. QED
    BY <1>2, <1>3, <1>4, <1>5, <1>7, <2>1, SearchSteps DEF Nobody
<1>8. CASE \E r \in Requests : ToolStep(r)
  <2>1. PICK r \in Requests : ToolStep(r)
    BY <1>8
  <2>2. CASE Begin(r)
    BY <1>6, <2>2 DEF Nobody
  <2>3. CASE ~Begin(r)
    <3>1. UNCHANGED vars
      BY <2>1, <2>3, ToolMoves
    <3>2. QED
      BY <1>2, <3>1 DEF vars, Nobody
  <2>4. QED
    BY <2>2, <2>3
<1>9. CASE UNCHANGED toolVars
  BY <1>2, <1>9 DEF toolVars, vars, Nobody
<1>10. QED
  BY <1>7, <1>8, <1>9 DEF ToolsNext

\* An admission is of the window that its buckets are in.
LEMMA ReserveAdmits ==
  ASSUME QuotaInv, NEW r \in Requests, Reserve(r)
  PROVE  LET lease == search'[r].lease
             scopes == Scopes(Who(r))
         IN /\ UNCHANGED world /\ late' = (late \/ Behind(r)) /\ search[r].lease = NoLease
            /\ \A q \in Requests : q # r => search'[q] = search[q]
            /\ \/ lease = NoLease
               \/ /\ lease.scopes = scopes
                  /\ \A s \in ToSet(scopes) : buckets'[s].started = lease.started
<1> DEFINE S == ScopesOf(Outside.asking)
           scopes == Scopes(Who(r))
           at == search[r].at
           d == PostgresReserve(buckets, scopes, at)
           lease == [scopes |-> scopes, started |-> WindowStart(at), held |-> TRUE]
           t == IF d.outcome = "allowed" THEN [search[r] EXCEPT !.phase = "admitted", !.lease = lease]
                ELSE [search[r] EXCEPT !.phase = "done", !.status = "429"]
<1>1. /\ At(r, "stamped") /\ buckets' = d.buckets /\ Goes(r, t)
      /\ UNCHANGED world /\ late' = (late \/ Behind(r))
  BY Zenon DEF Reserve
<1>2. /\ at \in Nat /\ WindowStart(at) \in Nat /\ search[r].lease = NoLease
      /\ DOMAIN search[r] = SearchFields /\ ToSet(scopes) \subseteq S
  BY <1>1, StampedFacts, RequestScopes
<1>3. /\ t.lease = IF d.outcome = "allowed" THEN lease ELSE NoLease
      /\ lease.scopes = scopes /\ lease.started = WindowStart(at)
  BY <1>2 DEF SearchFields
<1> HIDE DEF t, lease, S
<1>4. buckets \in [S -> BucketType]
  BY DEF QuotaInv, BucketsSound, S
<1>5. Decides(d, S, buckets, scopes, at)
  BY <1>2, <1>4, PostgresDecision
<1> HIDE DEF d
<1>6. ASSUME d.outcome = "allowed", NEW s \in ToSet(scopes)
      PROVE  d.buckets[s].started = WindowStart(at)
  <2> DEFINE b == Brought(buckets[s], at)
  <2>1. b \in BucketType /\ b.started = WindowStart(at)
    BY <1>2, <1>4, CurrentBucketFacts DEF Brought
  <2>2. d.buckets[s] = Counted(b) /\ ~RateLimited(b) /\ ~ConcurrentLimited(b)
    BY <1>5, <1>6 DEF Decides, Full
  <2> HIDE DEF b
  <2>3. QED
    BY <2>1, <2>2, CountedFacts
<1>7. search'[r] = t /\ \A q \in Requests : q # r => search'[q] = search[q]
  BY <1>1 DEF Goes, QuotaInv, SearchesSound
<1>8. QED
  BY <1>1, <1>2, <1>3, <1>6, <1>7

\* Every step keeps every window within its limit.
LEMMA WindowsStep ==
  ASSUME QuotaInv, QuotaInv', WindowsWithinLimits, [ToolsNext]_toolVars
  PROVE  WindowsWithinLimits'
<1> DEFINE after(s, w) == {q \in Requests : /\ s \in ToSet(search'[q].lease.scopes)
                                            /\ search'[q].lease.started = w}
<1>1. CASE /\ UNCHANGED <<world, late>>
           /\ \A q \in Requests : /\ search'[q].lease.scopes = search[q].lease.scopes
                                  /\ search'[q].lease.started = search[q].lease.started
  <2>1. \A s, w : after(s, w) = AdmittedIn(s, w)
    BY <1>1 DEF AdmittedIn
  <2> HIDE DEF after
  <2>2. ~late' => \A s \in ScopesOf(Outside.asking) : \A w \in Nat :
                    Cardinality(after(s, w)) <= MaxRequests
    BY <1>1, <2>1 DEF WindowsWithinLimits
  <2>3. QED
    BY <1>1, <2>2 DEF WindowsWithinLimits, AdmittedIn, Outside, after
<1>2. ASSUME NEW r \in Requests, Reserve(r) PROVE WindowsWithinLimits'
  <2> DEFINE lease == search'[r].lease
             scopes == Scopes(Who(r))
  <2>1. /\ UNCHANGED world /\ (late => late') /\ search[r].lease = NoLease
        /\ \A q \in Requests : q # r => search'[q] = search[q]
        /\ \/ lease = NoLease
           \/ /\ lease.scopes = scopes
              /\ \A s \in ToSet(scopes) : buckets'[s].started = lease.started
    BY <1>2, ReserveAdmits
  <2>2. SUFFICES ASSUME ~late', NEW s \in ScopesOf(Outside.asking), NEW w \in Nat
                 PROVE  Cardinality(after(s, w)) <= MaxRequests
    BY <2>1 DEF WindowsWithinLimits, AdmittedIn, Outside
  <2> HIDE DEF lease
  <2>3. CASE lease # NoLease /\ s \in ToSet(scopes) /\ w = lease.started
    <3>1. buckets'[s].started = w
      BY <2>1, <2>3
    <3>2. s \in DOMAIN buckets' /\ buckets'[s] \in BucketType
      BY <2>1 DEF QuotaInv, BucketsSound, Outside
    <3>3. buckets'[s].requests = Cardinality(after(s, buckets'[s].started))
      BY <2>2, <3>1, <3>2, Constants DEF QuotaInv, CountsAreExact, AdmittedIn
    <3>4. buckets'[s].requests <= MaxRequests
      BY <3>2, BucketFields, Constants
    <3>5. QED
      BY <3>1, <3>3, <3>4
  <2>4. CASE ~(lease # NoLease /\ s \in ToSet(scopes) /\ w = lease.started)
    <3>1. ToSet(NoLease.scopes) = {}
      BY DEF NoLease, ToSet
    <3>2. after(s, w) = AdmittedIn(s, w)
      BY <2>1, <2>4, <3>1 DEF AdmittedIn, lease
    <3> HIDE DEF after
    <3>3. QED
      BY <2>1, <2>2, <3>2 DEF WindowsWithinLimits
  <2>5. QED
    BY <2>3, <2>4
<1>3. QED
  BY <1>1, <1>2, AdmissionSteps

\* No window of either scope of a request is over its limit of requests.
THEOREM WindowLimits == ToolsSpec => []WindowsWithinLimits
<1>1. ToolsInit => WindowsWithinLimits
  <2> SUFFICES ASSUME ToolsInit, NEW s, NEW w PROVE Cardinality(AdmittedIn(s, w)) <= MaxRequests
    BY DEF WindowsWithinLimits
  <2>1. AdmittedIn(s, w) = {}
    BY DEF ToolsInit, Init, Idle, NoLease, AdmittedIn, ToSet
  <2>2. QED
    BY <2>1, FS_EmptySet, Constants
<1>2. QuotaInv /\ QuotaInv' /\ WindowsWithinLimits /\ [ToolsNext]_toolVars => WindowsWithinLimits'
  BY WindowsStep
<1>3. QED
  BY <1>1, <1>2, QuotaSafety, PTL DEF ToolsSpec

-----------------------------------------------------------------------------
(* The policies that were.                                                 *)

\* The policies that were are a sequence, and never none.
PastSound == past \in Seq({past[n] : n \in DOMAIN past}) /\ past # <<>>

\* A change of the policies adds to those that were.
LEMMA PastGrows ==
  ASSUME PastSound, NEW p, past' = Append(past, p)
  PROVE  /\ PastSound' /\ Len(past') = Len(past) + 1
         /\ \A n \in 1..Len(past) : past'[n] = past[n]
<1> DEFINE T == {past[n] : n \in DOMAIN past}
           U == {past'[n] : n \in DOMAIN past'}
<1>1. past \in Seq(T \cup {p})
  BY DEF PastSound
<1> HIDE DEF T
<1>2. /\ past' \in Seq(T \cup {p}) /\ Len(past') = Len(past) + 1
      /\ \A n \in 1..Len(past) : past'[n] = past[n]
  BY <1>1
<1>3. past' \in Seq(U) /\ past' # <<>>
  BY <1>1, <1>2
<1>4. QED
  BY <1>2, <1>3 DEF PastSound

\* The policies now in force are the last of those that were.
LEMMA PoliciesAreLast ==
  ASSUME PastSound
  PROVE  Len(past) \in Nat \ {0} /\ Policies = past[Len(past)]
BY DEF PastSound, Policies, Last
=============================================================================
