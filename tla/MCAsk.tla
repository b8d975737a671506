-------------------------------- MODULE MCAsk --------------------------------
(***************************************************************************)
(* An instance of AskStream for TLC. Two kinds of world: a crowd of three  *)
(* requests over one document, where the breaker opens, probes and closes; *)
(* and one request, over every short list of hits or with every failure of *)
(* the provider, where packing, conflicts and verification meet a policy   *)
(* that changes underneath.                                                *)
(***************************************************************************)
EXTENDS AskStream, TLC

CONSTANTS r1, r2, r3

Item(chunk, tenant, source, document, version, text) ==
  [chunk |-> chunk, tenant |-> tenant, source |-> source, document |-> document,
   version |-> version, span |-> <<0, Len(text)>>, text |-> text]

a1 == Item("c1", "t", "s1", "a", "a1", <<1, 2>>)
a2 == Item("c2", "t", "s1", "a", "a2", <<1, 3>>)      \* another wording of a
a3 == Item("c3", "t", "s2", "a", "a3", <<1, 2>>)      \* the same wording, a newer version
b1 == Item("c4", "t", "s2", "b", "b1", <<3>>)
l1 == Item("c5", "t", "s1", "l", "l1", <<2, 1, 2, 1>>) \* longer than the context
x1 == Item("c6", "u", "s3", "x", "x1", <<1>>)         \* of another tenant

Row(item, entries) ==
  [tenant |-> item.tenant, document |-> item.document, version |-> item.version,
   policy |-> entries, deleted |-> FALSE]

MCPrincipal == [known |-> TRUE, tenant |-> "t", id |-> "p", roles |-> {"ops"}, groups |-> {}]

MCPolicies == {Row(a1, {Public}), Row(a2, {<<"role", "ops">>}), Row(a3, {<<"principal", "p">>}),
               Row(b1, {<<"role", "ops">>, <<"group", "g">>}), Row(l1, {Public}), Row(x1, {Public})}

Cites(items) == [n \in DOMAIN items |-> Identity(items[n])]
Says(text, items) == [text |-> text, cites |-> Cites(items)]
Reply(claims) == [error |-> FALSE, status |-> "completed", usage |-> TRUE, claims |-> claims]

WideReplies == {
  Reply(<<Says(<<1, 2>>, <<a1>>)>>),                         \* supported
  Reply(<<Says(<<2, 3>>, <<a1, b1>>), Says(<<3>>, <<b1>>)>>),  \* across two citations
  Reply(<<Says(<<1>>, <<a1>>), Says(<<2>>, <<b1>>)>>),        \* the second is not supported
  Reply(<<Says(<<Mark>>, <<b1>>)>>),                         \* no word to support
  Reply(<<Says(<<1>>, <<>>)>>),                              \* no citation
  Reply(<<[text |-> <<1>>, cites |-> <<<<"c1", "a2", <<0, 2>>>>>>]>>),  \* the wrong version
  Reply(<<[text |-> <<1>>, cites |-> <<<<"c1", "a1", <<0>>>>>>]>>),     \* half a span
  [Reply(<<>>) EXCEPT !.error = TRUE],
  [Reply(<<>>) EXCEPT !.status = "incomplete"]}

Crowd == [asking |-> {r1, r2, r3}, hits |-> <<a1>>, words |-> {1},
          outcomes |-> {"timeout", "cut_short"}, replies |-> {Reply(<<Says(<<1>>, <<a1>>)>>)},
          policies |-> MCPolicies, releases |-> {TRUE}, quota |-> {},
          maxDeltas |-> 1, maxChanges |-> 0, maxTime |-> 3, maxCrashes |-> 0]

Restarted == [Crowd EXCEPT !.asking = {r1, r2}, !.maxCrashes = 1, !.maxTime = 2]

\* Leases of two windows, no model: every stream ends in an abstention.
Rolling == [Crowd EXCEPT !.hits = <<>>, !.releases = BOOLEAN, !.quota = {"unavailable"},
              !.maxTime = 5, !.maxCrashes = 1]

Wide(hits) == [asking |-> {r1}, hits |-> hits, words |-> {}, outcomes |-> {},
               replies |-> WideReplies, policies |-> MCPolicies, releases |-> {TRUE},
               quota |-> {}, maxDeltas |-> 0, maxChanges |-> 1, maxTime |-> 0,
               maxCrashes |-> 0]

Failing == [Wide(<<a1, b1>>) EXCEPT !.words = {1, 2, 3}, !.maxDeltas = 2,
              !.outcomes = DOMAIN Failure \cup {"raises"}, !.releases = BOOLEAN,
              !.quota = {"unavailable"}]

Four == <<a1, a2, a3, b1>>

HitLists ==
  [n \in 1..16 |-> <<Four[1 + (n - 1) \div 4], Four[1 + ((n - 1) % 4)]>>] \o
  <<<<>>, <<x1, a1>>, <<l1, b1>>, <<a1, l1, b1>>, <<a1, a2, b1>>, <<a2, a2, b1>>>>

MCWorlds == <<Crowd, Restarted, Rolling, Failing>> \o [n \in DOMAIN HitLists |-> Wide(HitLists[n])]
=============================================================================
