-------------------------------- MODULE Quota --------------------------------
(***************************************************************************)
(* Fixed-window quotas on two scopes, a tenant and a principal, reserved   *)
(* as one decision: the bucket arithmetic of the PostgreSQL backend, which *)
(* locks its rows and looks at them one after the other, and of the        *)
(* in-memory backend that stands for it in tests and local runs. A bucket  *)
(* whose window is None has no row yet.                                    *)
(***************************************************************************)
EXTENDS Integers, Sequences, SequencesExt

CONSTANTS MaxRequests, MaxConcurrent, Window, NoWindow

ASSUME QuotaAssumption ==
  /\ {MaxRequests, MaxConcurrent, Window} \subseteq Nat \ {0}
  /\ NoWindow \notin Int

\* Two scopes for each principal; that of the principal does not name the tenant.
Scopes(principal) == <<<<"tenant", principal.tenant>>, <<"principal", principal.id>>>>

WindowStart(at) == at - (at % Window)

Fresh(started) == [started |-> started, requests |-> 0, active |-> 0]

CurrentBucket(bucket, started) == IF bucket.started = started THEN bucket ELSE Fresh(started)

\* Fault: one request more than the limit.
RateLimitedLate(bucket) == bucket.requests > MaxRequests

RateLimited(bucket) == bucket.requests >= MaxRequests
ConcurrentLimited(bucket) == bucket.active >= MaxConcurrent

Counted(bucket) == [bucket EXCEPT !.requests = @ + 1, !.active = @ + 1]

\* Every bucket is brought to the window, then all rates are looked at, then
\* all numbers of active calls.
MemoryReserve(buckets, scopes, at) ==
  LET named == ToSet(scopes)
      current == [s \in DOMAIN buckets |->
                    IF s \in named THEN CurrentBucket(buckets[s], WindowStart(at)) ELSE buckets[s]]
  IN IF \E s \in named : RateLimited(current[s])
     THEN [outcome |-> "rate_limited", buckets |-> current]
     ELSE IF \E s \in named : ConcurrentLimited(current[s])
     THEN [outcome |-> "concurrent_limited", buckets |-> current]
     ELSE [outcome |-> "allowed",
           buckets |-> [s \in DOMAIN current |->
                          IF s \in named THEN Counted(current[s]) ELSE current[s]]]

\* Fault: a decision looks at its first row only.
PostgresReserveFirst(buckets, scopes, at) ==
  MemoryReserve([buckets EXCEPT ![scopes[2]] = Fresh(@.started)], scopes, at)

\* Missing rows are inserted; row by row the window is brought forward and the
\* limits are looked at; a limit that is reached leaves later rows as they are.
PostgresReserve(buckets, scopes, at) ==
  LET started == WindowStart(at)
      Row(n) == CurrentBucket(buckets[scopes[n]], started)
      Stops(n) == RateLimited(Row(n)) \/ ConcurrentLimited(Row(n))
      stops == {n \in DOMAIN scopes : Stops(n)}
      last == IF stops = {} THEN Len(scopes) ELSE Min(stops)
      seen == {scopes[n] : n \in 1..last}
      brought == [s \in DOMAIN buckets |->
                    IF s \in seen \/ (s \in ToSet(scopes) /\ buckets[s].started = NoWindow)
                    THEN CurrentBucket(buckets[s], started) ELSE buckets[s]]
  IN IF stops # {}
     THEN [outcome |-> IF RateLimited(Row(last)) THEN "rate_limited" ELSE "concurrent_limited",
           buckets |-> brought]
     ELSE [outcome |-> "allowed",
           buckets |-> [s \in DOMAIN brought |->
                          IF s \in ToSet(scopes) THEN Counted(brought[s]) ELSE brought[s]]]

\* Fault: a release counts in whatever window the bucket is.
ReleasedAnywhere(buckets, lease) ==
  [s \in DOMAIN buckets |->
     IF s \in ToSet(lease.scopes) /\ buckets[s].active > 0
     THEN [buckets[s] EXCEPT !.active = @ - 1] ELSE buckets[s]]

\* A release counts only in the window of its reservation, and not below zero.
Freed(bucket, started) ==
  IF bucket.started = started /\ bucket.active > 0
  THEN [bucket EXCEPT !.active = @ - 1] ELSE bucket

Released(buckets, lease) ==
  [s \in DOMAIN buckets |->
     IF s \in ToSet(lease.scopes) THEN Freed(buckets[s], lease.started) ELSE buckets[s]]
=============================================================================
