------------------------------- MODULE Ranking -------------------------------
(***************************************************************************)
(* What a search finds and in which order: the filters and the paging of   *)
(* the lexical and the dense query, the authorization of their hits, their *)
(* fusion by reciprocal ranks, and the reranking of the result. An entry   *)
(* of the index is [chunk, tenant, source, document, version, policy,      *)
(* current, corpus, match, near], the last two its scores for the query.   *)
(***************************************************************************)
EXTENDS Integers, SequencesExt, Orderings, Authorization

CONSTANTS
  RrfK,       \* rrf_k of the fusion
  ScoreUnit,  \* a score of 1, a multiple of every RrfK + rank
  Corpus      \* the corpus version of the dense retriever

ASSUME RankingAssumption == {RrfK, ScoreUnit} \subseteq Nat \ {0}

Hit(e, score) == [chunk |-> e.chunk, tenant |-> e.tenant, document |-> e.document,
                  version |-> e.version, score |-> score]

ChunkVersion(hit) == <<hit.chunk, hit.version>>
RefOf(hit) == <<hit.tenant, hit.document, hit.version>>

\* The filters common to both queries.
Matches(e, principal, context) ==
  /\ e.tenant = principal.tenant
  /\ e.policy \cap SearchScope(principal) # {}
  /\ context.historical \/ e.current
  /\ context.sources = {} \/ e.source \in context.sources
  /\ context.documents = {} \/ e.document \in context.documents

\* By descending score, then by chunk.
ByScore(hits) ==
  LET Before(h, k) == h.score > k.score \/ (h.score = k.score /\ h.chunk < k.chunk)
  IN Sorted(hits, {p \in hits \X hits : Before(p[1], p[2])})

\* One page of them.
Ranked(hits, context) ==
  LET sorted == ByScore(hits)
      end == context.offset + context.limit
  IN SubSeq(sorted, context.offset + 1, IF end < Len(sorted) THEN end ELSE Len(sorted))

LexicalHits(entries, principal, context) ==
  Ranked({Hit(e, e.match) : e \in {f \in entries : f.match > 0 /\ Matches(f, principal, context)}},
         context)

DenseHits(entries, principal, context) ==
  Ranked({Hit(e, e.near) : e \in {f \in entries : f.corpus = Corpus /\ Matches(f, principal, context)}},
         context)

\* The hits of one retriever that the principal may read now; none for a stranger.
Authorized(hits, principal, policies) ==
  LET readable == AuthorizeReads(principal, {RefOf(h) : h \in ToSet(hits)}, policies)
  IN IF principal.known
     THEN Selected(hits, {n \in DOMAIN hits : RefOf(hits[n]) \in readable}) ELSE <<>>

\* Fault: the second leg's score replaces that of the first.
FusedScoreLast(legs, id) ==
  LET last == CHOOSE l \in DOMAIN legs :
                /\ \E n \in DOMAIN legs[l] : ChunkVersion(legs[l][n]) = id
                /\ \A k \in DOMAIN legs : k > l =>
                     \A n \in DOMAIN legs[k] : ChunkVersion(legs[k][n]) # id
      rank == CHOOSE n \in DOMAIN legs[last] : ChunkVersion(legs[last][n]) = id
  IN ScoreUnit \div (RrfK + rank)

\* The reciprocal rank of an item in a leg, which finds it at most once.
LegScore(leg, id) ==
  LET ranks == {n \in DOMAIN leg : ChunkVersion(leg[n]) = id}
  IN IF ranks = {} THEN 0 ELSE ScoreUnit \div (RrfK + CHOOSE n \in ranks : TRUE)

FusedScore(legs, id) == LegScore(legs[1], id) + LegScore(legs[2], id)

\* The lexical and the dense leg, fused: authorized once more, ordered, cut to the limit.
Fused(legs, principal, policies, limit) ==
  LET found == UNION {ToSet(legs[l]) : l \in DOMAIN legs}
      scored == {[h EXCEPT !.score = FusedScore(legs, ChunkVersion(h))] : h \in found}
      readable == AuthorizeReads(principal, {RefOf(h) : h \in found}, policies)
      sorted == ByScore({h \in scored : RefOf(h) \in readable})
  IN SubSeq(sorted, 1, IF limit < Len(sorted) THEN limit ELSE Len(sorted))

\* A reply scores every candidate once, or is refused.
ValidReply(candidates, scores) ==
  /\ Len(scores) = Len(candidates)
  /\ {s.chunk : s \in ToSet(scores)} = {c.chunk : c \in ToSet(candidates)}

Reranked(candidates, scores) ==
  LET ScoreOf(c) == (CHOOSE s \in ToSet(scores) : s.chunk = c.chunk).score
      Before(i, j) == \/ ScoreOf(candidates[i]) > ScoreOf(candidates[j])
                      \/ ScoreOf(candidates[i]) = ScoreOf(candidates[j]) /\ i < j
      places == DOMAIN candidates
      order == Sorted(places, {p \in places \X places : Before(p[1], p[2])})
  IN [n \in places |->
        [candidates[order[n]] EXCEPT !.score = ScoreOf(candidates[order[n]])]]
=============================================================================
