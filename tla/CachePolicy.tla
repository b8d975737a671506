----------------------------- MODULE CachePolicy -----------------------------
(***************************************************************************)
(* Which results may be reused, and for whom: the key of a cached result   *)
(* and the conditions on reading and on writing one. A cache is a set of   *)
(* records [key, kind, value]; a value is [evidence, degraded, verified],  *)
(* the last of a grounded answer on that evidence.                         *)
(***************************************************************************)
EXTENDS Integers, SequencesExt

\* Fault: the key names the tenant and the request but not the versions.
CacheKeyUnversioned(kind, principal, versions, context) ==
  [kind |-> kind, principal |-> principal, request |-> context]

\* Everything a result depends on: the whole principal, the published
\* versions, and the parameters of the request.
CacheKey(kind, principal, versions, context) ==
  [kind |-> kind, principal |-> principal, versions |-> versions, request |-> context]

\* Fault: a degraded result is good enough to keep.
EligibleDegraded(value, principal) ==
  principal.known /\ \A i \in ToSet(value.evidence) : i.tenant = principal.tenant

Eligible(value, principal) ==
  /\ principal.known /\ ~value.degraded
  /\ \A i \in ToSet(value.evidence) : i.tenant = principal.tenant

\* An answer is kept if it is verified, whatever became of its retrieval.
EligibleAnswer(value, principal) == principal.known /\ value.verified

EligibleFor(kind, value, principal) ==
  IF kind = "answer" THEN EligibleAnswer(value, principal) ELSE Eligible(value, principal)

\* The records a read of this key accepts.
Hits(cache, key, kind, principal) ==
  {c \in cache : c.key = key /\ c.kind = kind /\ EligibleFor(kind, c.value, principal)}

Stored(cache, key, kind, value) ==
  {c \in cache : c.key # key} \cup {[key |-> key, kind |-> kind, value |-> value]}
=============================================================================
