------------------------------ MODULE Grounding ------------------------------
(***************************************************************************)
(* What an answer goes through between the evidence and the client: the    *)
(* packing of evidence into the model's context, the guard on the text     *)
(* that streams out, the draft built from the model's claims, the          *)
(* resolution and support of every citation, and the decision to abstain.  *)
(* An evidence item is [chunk, tenant, source, document, version, span,    *)
(* text]; a text is a sequence of words, one token each; a claim is        *)
(* [text, cites], a citation <<chunk, version, span>>.                     *)
(***************************************************************************)
EXTENDS Integers, SequencesExt, Orderings

CONSTANTS
  ContextTokens,   \* the token budget of the packed context
  Mark             \* a word without [a-z0-9]: punctuation, or another script

ASSUME GroundingAssumption == ContextTokens \in Nat \ {0}

Identity(item) == <<item.chunk, item.version, item.span>>

Reference(item) == <<item.tenant, item.document, item.version>>

\* The first item of each identity.
Deduplicate(evidence) ==
  Selected(evidence, {n \in DOMAIN evidence :
                        \A k \in 1..(n - 1) : Identity(evidence[k]) # Identity(evidence[n])})

\* The items of the same source before one: as many as there were rounds before it.
Earlier(evidence, i) == {j \in 1..(i - 1) : evidence[j].source = evidence[i].source}

\* The first item of its source.
Leader(evidence, i) == CHOOSE j \in Earlier(evidence, i) \cup {i} : Earlier(evidence, j) = {}

\* Round robin over the sources in the order they first appear: first every
\* source's first item, then the second ones.
RoundRobin(evidence) ==
  LET places == DOMAIN evidence
      Round(i) == Cardinality(Earlier(evidence, i))
  IN {p \in places \X places :
        \/ Round(p[1]) < Round(p[2])
        \/ /\ Round(p[1]) = Round(p[2])
           /\ Leader(evidence, p[1]) < Leader(evidence, p[2])}

DiverseOrder(evidence) ==
  LET order == Sorted(DOMAIN evidence, RoundRobin(evidence))
  IN [n \in DOMAIN evidence |-> evidence[order[n]]]

\* Documents that the packed evidence quotes in more than one version.
Conflicts(packed) ==
  {d \in {i.document : i \in ToSet(packed)} :
     Cardinality({i.version : i \in {e \in ToSet(packed) : e.document = d}}) > 1}

\* Fault: an item is admitted while any of the budget is left.
FitsInPart(item, tokens) == tokens < ContextTokens

Fits(item, tokens) == Len(item.text) <= ContextTokens - tokens

\* The tokens of the context after each item; those that do not fit are skipped.
Spent(order) ==
  LET spent[n \in 0..Len(order)] ==
        IF n = 0 THEN 0
        ELSE spent[n - 1] + IF Fits(order[n], spent[n - 1]) THEN Len(order[n].text) ELSE 0
  IN spent

\* Items that do not fit are skipped, later and shorter ones may still fit.
Pack(evidence) ==
  LET order == DiverseOrder(Deduplicate(evidence))
      spent == Spent(order)
  IN [evidence |-> Selected(order, {n \in DOMAIN order : Fits(order[n], spent[n - 1])}),
      tokens |-> spent[Len(order)]]

\* Fault: the guard looks at the new words only, not at what came before them.
PassesAnywhere(packed, candidate) ==
  \E item \in ToSet(packed) : Last(candidate) \in ToSet(item.text)

\* GroundedDeltaGuard.filter: the text so far is the beginning of an evidence text.
Passes(packed, candidate) ==
  candidate # <<>> /\ \E item \in ToSet(packed) : IsPrefix(candidate, item.text)

WellFormedCite(cite) == cite[3][2] > cite[3][1]

\* Whether build_grounded_draft accepts the claims.
DraftAccepted(packed, claims) ==
  /\ claims # <<>>
  /\ \A c \in ToSet(claims) :
       /\ c.text # <<>>
       /\ c.cites # <<>>
       /\ \A cite \in ToSet(c.cites) :
            WellFormedCite(cite) /\ cite \in {Identity(i) : i \in ToSet(packed)}

Tokens(text) == ToSet(text) \ {Mark}

ResolveFailures(cite, evidence) ==
  LET sameId == {i \in ToSet(evidence) : i.chunk = cite[1]}
      sameVersion == {i \in sameId : i.version = cite[2]}
  IN CASE sameId = {}      -> {"evidence_not_found"}
       [] sameVersion = {} -> {"version_mismatch"}
       [] \A i \in sameVersion : i.span # cite[3] -> {"span_mismatch"}
       [] OTHER            -> {}

\* The first evidence item with the identity a citation names.
Resolved(cite, evidence) ==
  evidence[CHOOSE n \in DOMAIN evidence :
             /\ Identity(evidence[n]) = cite
             /\ \A k \in 1..(n - 1) : Identity(evidence[k]) # cite]

\* Why one claim is not verified; readable is what the enforcer authorizes now.
ClaimFailures(claim, evidence, readable) ==
  LET unresolved == UNION {ResolveFailures(c, evidence) : c \in ToSet(claim.cites)}
      items == {Resolved(c, evidence) : c \in ToSet(claim.cites)}
      refs == {Reference(i) : i \in items}
  IN IF unresolved # {} THEN unresolved
     ELSE IF ~(refs \subseteq readable) THEN {"evidence_unauthorized"}
     ELSE IF ~(Tokens(claim.text) \subseteq UNION {Tokens(i.text) : i \in items})
     THEN {"unsupported_claim"} ELSE {}

\* A document quoted in versions that do not say the same.
Irreconcilable(packed) ==
  \E d \in Conflicts(packed) :
    Cardinality({i.text : i \in {e \in ToSet(packed) : e.document = d}}) > 1

\* The identities a reader is shown as sources: what the claims cite.
CitedSources(claims, evidence) ==
  (UNION {ToSet(c.cites) : c \in ToSet(claims)}) \cap {Identity(i) : i \in ToSet(evidence)}

\* AbstentionDecider.decide: the reason to abstain, or "none".
Decide(packed, failures) ==
  IF packed = <<>> THEN "insufficient_evidence"
  ELSE IF Irreconcilable(packed) THEN "conflicting_evidence"
  ELSE IF failures # {} THEN "insufficient_evidence" ELSE "none"
=============================================================================
