------------------------------- MODULE MCSearch -------------------------------
(***************************************************************************)
(* Instances of EvidenceSearch with the tools, for TLC. Crowd: three       *)
(* requests of a tenant, two windows of the quota. Leaks: two tenants, and *)
(* leases may not come back. Fusions: every ranking of three chunks by     *)
(* the dense leg against four by the lexical one, a policy changing under  *)
(* it. Sharing, Changing, Answering: requests that share a cache while     *)
(* policies change and are published. Embeddings: two requests with a      *)
(* failing provider and a cache. Reranking: every kind of reply. Tooling,  *)
(* Abandoned: tools while a policy changes. Refused: calls and comparisons *)
(* that are turned down.                                                   *)
(***************************************************************************)
EXTENDS InvestigationTools, TLC

CONSTANTS r1, r2, r3

Person(id, tenant, roles) ==
  [known |-> TRUE, tenant |-> tenant, id |-> id, roles |-> roles, groups |-> {}]

Ann   == Person("ann", "t", {"ops"})
Bob   == Person("bob", "t", {})
AnnAtU == Person("ann", "u", {})
Nobody == [Ann EXCEPT !.known = FALSE]

Documents == <<"a", "b", "c">>
Access == <<{Public}, {<<"role", "ops">>}, {<<"principal", "ann">>, <<"principal", "bob">>}>>

Entry(n, match, near) ==
  [chunk |-> n, tenant |-> "t", source |-> "s", document |-> Documents[n], version |-> n,
   policy |-> Access[n], current |-> TRUE, corpus |-> IF near = 0 THEN "old" ELSE Corpus,
   match |-> match, near |-> near]

Row(n) == [tenant |-> "t", document |-> Documents[n], version |-> n, policy |-> Access[n],
           deleted |-> FALSE]

Entries(match, near) == {Entry(n, match[n], near[n]) : n \in 1..3}
Outdated == [Entry(1, 3, 3) EXCEPT !.chunk = 4, !.version = 4, !.current = FALSE]
Foreign == [Entry(1, 3, 3) EXCEPT !.chunk = 5, !.tenant = "u", !.document = "x"]

Context(limit, offset) == [limit |-> limit, offset |-> offset, historical |-> FALSE,
                           sources |-> {}, documents |-> {}]

Base == [asking |-> (r1 :> Ann), limited |-> FALSE, cached |-> FALSE, kind |-> "retrieval",
         hybrid |-> TRUE,
         reranked |-> FALSE, context |-> Context(3, 0),
         corpora |-> {Entries(<<3, 2, 1>>, <<1, 3, 2>>) \cup {Outdated, Foreign}},
         policies |-> {Row(1), Row(2), Row(3)}, embeds |-> {"vector"}, scores |-> {}, replies |-> {"draft"},
         down |-> {}, tools |-> <<>>, versions |-> {}, incidents |-> <<>>, maxTime |-> 0, maxChanges |-> 0]

Crowd == [Base EXCEPT !.asking = r1 :> Ann @@ r2 :> Ann @@ r3 :> Bob,
            !.limited = TRUE, !.hybrid = FALSE, !.corpora = {{}}, !.maxTime = 2]

Leaks == [Crowd EXCEPT !.asking = r1 :> Ann @@ r2 :> Bob @@ r3 :> AnnAtU, !.down = {"quota"}]

Lexicals == {<<3, 2, 1>>, <<3, 2, 0>>, <<1, 1, 2>>, <<0, 0, 0>>}

Fusions == [Base EXCEPT !.maxChanges = 1, !.context = Context(2, 0),
              !.corpora = {Entries(match, near) : match \in Lexicals, near \in [1..3 -> 0..3]}]

Sharing == [Base EXCEPT !.asking = r1 :> Ann @@ r2 :> Ann @@ r3 :> Bob, !.cached = TRUE,
              !.hybrid = FALSE, !.maxChanges = 1]

Changing == [Sharing EXCEPT !.asking = r1 :> Ann @@ r2 :> Ann, !.maxChanges = 2]

Answering == [Changing EXCEPT !.kind = "answer", !.maxChanges = 1, !.down = {"cache"},
                !.replies = {"draft", "ungrounded", "retryable", "fatal"}]

Embeddings == [Base EXCEPT !.asking = r1 :> Ann @@ r2 :> Ann, !.cached = TRUE,
                 !.corpora = {Entries(<<3, 0, 0>>, <<1, 3, 2>>)},
                 !.embeds = {"vector", "invalid", "retryable", "fatal"}, !.maxTime = 1]

Outages == [Base EXCEPT !.asking = r1 :> Ann @@ r2 :> Nobody, !.down = {"lexical", "dense"},
              !.context = Context(2, 1)]

Score(chunk, score) == [chunk |-> chunk, score |-> score]

Reranking == [Base EXCEPT !.reranked = TRUE, !.embeds = {"vector", "fatal"},
                !.down = {"rerank", "slow_rerank"},
                !.scores = {<<Score(1, 1), Score(2, 1)>>, <<Score(2, 1), Score(1, 2)>>,
                            <<Score(1, 1), Score(1, 2)>>, <<Score(1, 1)>>,
                            <<Score(1, 0), Score(2, 0), Score(3, 1)>>}]

StoredAs(content) ==
  [tenant |-> "t", id |-> content, document |-> "a", source |-> content, content |-> content,
   timestamp |-> content, parser |-> 1]

Compare(left, right) == [tool |-> "compare", document |-> "a", left |-> left, right |-> right]

\* Version 4 of document a has a policy of its own; version 6 is not stored.
Tooling == [Base EXCEPT !.asking = r1 :> Ann @@ r2 :> Ann,
              !.tools = r1 :> [tool |-> "incidents"] @@ r2 :> Compare(1, 4),
              !.policies = @ \cup {[Row(2) EXCEPT !.document = "a", !.version = 4]},
              !.versions = {StoredAs(1), StoredAs(4)},
              !.incidents = <<<<"t", "a", 1>>, <<"u", "x", 1>>, <<"t", "b", 2>>, <<"t", "c", 3>>>>,
              !.down = {"lexical", "tools"}, !.maxChanges = 1]

\* Two retrievals share the breaker, and one may outlive its deadline.
Abandoned == [Base EXCEPT !.asking = r1 :> Ann @@ r2 :> Ann,
                !.tools = r1 :> [tool |-> "retrieve"], !.embeds = {"vector", "fatal"},
                !.policies = {Row(2)}, !.maxChanges = 1]

Refused == [Tooling EXCEPT !.asking = r1 :> Ann @@ r2 :> Nobody @@ r3 :> Ann,
              !.tools = r1 :> [tool |-> "incidents"] @@ r2 :> Compare(1, 4) @@ r3 :> Compare(1, 6),
              !.policies = @ \cup {[Row(2) EXCEPT !.document = "a", !.version = 6]},
              !.context = Context(4, 0), !.maxChanges = 0]

MCWorlds == <<Tooling, Abandoned, Refused, Crowd, Leaks, Sharing, Changing, Answering, Embeddings, Outages, Reranking, Fusions>>
=============================================================================
