-------------------------- MODULE AskStreamProofs --------------------------
(***************************************************************************)
(* Safety of the answer streams, for any number of requests in any world:  *)
(* any evidence, model, quota verdicts and policy changes.                 *)
(***************************************************************************)
EXTENDS AskStream, OrderingsProofs, SequenceTheorems

-----------------------------------------------------------------------------
(* The inductive invariant.                                                *)

Phases == {"idle", "opened", "closed"} \cup Suspended \cup Blocking

StreamFields == {"phase", "attempt", "evidence", "packed", "candidate", "released",
                 "claims", "checked", "failures", "final"}

\* A generator: no call before it generates, no retry past the last attempt, and
\* none of a call whose text was shown; only claims that cite something are verified.
StreamSound(s) ==
  /\ DOMAIN s = StreamFields
  /\ s.phase \in Phases
  /\ s.attempt \in 0..MaxAttempts
  /\ s.phase \in {"idle", "opened", "retrieving", "generating"} => s.attempt = 0
  /\ s.phase = "backoff" => s.attempt < MaxAttempts
  /\ s.phase \in {"idle", "opened", "retrieving", "generating", "backoff"} =>
       s.released = <<>>
  /\ s.phase = "verifying" => s.claims # <<>> /\ \A c \in ToSet(s.claims) : c.cites # <<>>
  /\ s.final.status \in {"none", "failed", "degraded", "abstained", "verified"}
  /\ WellFormedAnswer(s.final)

StreamsSound == DOMAIN stream = Requests /\ \A r \in Requests : StreamSound(stream[r])

\* The breaker remembers the last outage, and nothing else opens it.
BreakerSound ==
  /\ breaker \in [state : {"closed", "open", "half_open"}, failures : Nat,
                  openedAt : Nat \cup {None}]
  /\ outage \in Nat \cup {None}
  /\ breaker.openedAt # None => breaker.openedAt <= now
  /\ outage # None => outage <= now
  /\ breaker.state = "closed" => outage = None
  /\ breaker.state = "open" => breaker.openedAt # None /\ outage = breaker.openedAt
  /\ breaker.state # "closed" => breaker.failures >= FailureThreshold

ProbeSound ==
  /\ probe \in Requests \cup {None}
  /\ breaker.state = "half_open" => probe \in Requests

ClockSound == world \in DOMAIN Worlds /\ now \in 0..Outside.maxTime

AskInv ==
  /\ StreamsSound /\ BreakerSound /\ ProbeSound /\ ClockSound
  /\ ProbeAccounted

-----------------------------------------------------------------------------
(* Facts about constants, generators and the breaker.                      *)

\* The thresholds and bounds are numbers.
LEMMA Constants ==
  /\ MaxAttempts \in Nat /\ 1 <= MaxAttempts
  /\ FailureThreshold \in Nat /\ 1 <= FailureThreshold
  /\ RecoveryTimeout \in Nat /\ 1 <= RecoveryTimeout
  /\ None \notin Nat
BY AskAssumption, BreakerAssumption

\* The bound on the clock is a number.
LEMMA WorldBounds ==
  ASSUME world \in DOMAIN Worlds
  PROVE  Outside.maxTime \in Nat
<1>1. Worlds[world] \in ToSet(Worlds)
  BY DEF ToSet
<1>2. {Worlds[world].maxDeltas, Worlds[world].maxChanges, Worlds[world].maxTime,
       Worlds[world].maxCrashes} \subseteq Nat
  BY <1>1, AskAssumption
<1>3. QED
  BY <1>2 DEF Outside

\* A generator before its request, and after its end.
LEMMA IdleSound ==
  /\ StreamSound(Idle) /\ Idle.phase = "idle" /\ Idle.attempt = 0 /\ Idle.released = <<>>
  /\ \A p \in {"opened", "closed"} :
       /\ StreamSound([Idle EXCEPT !.phase = p])
       /\ [Idle EXCEPT !.phase = p].phase = p /\ [Idle EXCEPT !.phase = p].attempt = 0
       /\ [Idle EXCEPT !.phase = p].released = <<>>
<1>1. /\ DOMAIN Idle = StreamFields /\ Idle.phase = "idle" /\ Idle.attempt = 0
      /\ Idle.released = <<>> /\ Idle.final = NoFinal
  BY DEF Idle, StreamFields
<1>2. NoFinal.status = "none" /\ WellFormedAnswer(NoFinal)
  BY DEF NoFinal, WellFormedAnswer
<1>3. 0 \in 0..MaxAttempts
  BY Constants
<1>4. StreamSound(Idle)
  BY <1>1, <1>2, <1>3 DEF StreamSound, Phases
<1>5. ASSUME NEW p \in {"opened", "closed"}
      PROVE  /\ StreamSound([Idle EXCEPT !.phase = p])
             /\ [Idle EXCEPT !.phase = p].phase = p /\ [Idle EXCEPT !.phase = p].attempt = 0
             /\ [Idle EXCEPT !.phase = p].released = <<>>
  <2> DEFINE d == [Idle EXCEPT !.phase = p]
  <2>1. /\ DOMAIN d = StreamFields /\ d.phase = p /\ d.attempt = 0
        /\ d.released = <<>> /\ d.final = NoFinal
    BY <1>1 DEF StreamFields
  <2> HIDE DEF d
  <2>2. StreamSound(d)
    BY <1>2, <1>3, <2>1 DEF StreamSound, Phases
  <2>3. QED
    BY <2>1, <2>2 DEF d
<1>6. QED
  BY <1>1, <1>4, <1>5

\* What the constructor of the answer accepts.
Acceptable(status, reason, claims) ==
  /\ status \in {"failed", "degraded", "abstained", "verified"}
  /\ status = "verified" => claims # <<>> /\ \A c \in ToSet(claims) : c.cites # <<>>
  /\ status = "abstained" => reason # "none" /\ claims = <<>>

\* Failures and degraded answers are accepted, abstentions with a reason, and
\* claims that all cite something.
LEMMA Accepted ==
  ASSUME NEW reason, NEW claims
  PROVE  /\ Acceptable("failed", reason, <<>>) /\ Acceptable("degraded", reason, <<>>)
         /\ reason # "none" => Acceptable("abstained", reason, <<>>)
         /\ claims # <<>> /\ (\A c \in ToSet(claims) : c.cites # <<>>)
              => Acceptable("verified", reason, claims)
BY DEF Acceptable

\* The last event.
LEMMA FinalsSound ==
  ASSUME NEW s, StreamSound(s), NEW status, NEW reason, NEW claims, NEW sources,
         Acceptable(status, reason, claims)
  PROVE  LET d == Finals(s, status, reason, claims, sources)
         IN  /\ StreamSound(d) /\ d.phase = "final" /\ d.attempt = s.attempt
<1> DEFINE f == [status |-> status, reason |-> reason, claims |-> claims, sources |-> sources]
           d == [s EXCEPT !.phase = "final", !.final = f]
<1>1. /\ f.status = status /\ WellFormedAnswer(f)
      /\ status \in {"failed", "degraded", "abstained", "verified"}
  BY DEF WellFormedAnswer, Acceptable
<1> HIDE DEF f
<1>2. /\ DOMAIN d = StreamFields /\ d.phase = "final" /\ d.attempt = s.attempt /\ d.final = f
      /\ d.released = s.released
  BY DEF StreamSound, StreamFields
<1>3. d = Finals(s, status, reason, claims, sources)
  BY DEF Finals, f
<1> HIDE DEF d
<1>4. StreamSound(d)
  BY <1>1, <1>2 DEF StreamSound, Phases, Suspended
<1>5. QED
  BY <1>2, <1>3, <1>4

\* After a failed call: a retry that is left, or the last event.
LEMMA AfterFailureSound ==
  ASSUME NEW s, StreamSound(s), NEW failure
  PROVE  LET d == AfterFailure(s, failure)
         IN  /\ StreamSound(d) /\ d.phase \in {"backoff", "final"} /\ d.attempt = s.attempt
<1>1. CASE CanRetry(s, failure)
  <2> DEFINE d == [s EXCEPT !.phase = "backoff"]
  <2>1. AfterFailure(s, failure) = d
    BY <1>1 DEF AfterFailure
  <2>2. /\ DOMAIN d = StreamFields /\ d.phase = "backoff" /\ d.attempt = s.attempt
        /\ d.final = s.final /\ d.released = s.released
    BY DEF StreamSound, StreamFields
  <2>3. s.attempt < MaxAttempts /\ s.released = <<>>
    BY <1>1 DEF CanRetry
  <2> HIDE DEF d
  <2>4. StreamSound(d)
    BY <2>2, <2>3 DEF StreamSound, Phases, Blocking
  <2>5. QED
    BY <2>1, <2>2, <2>3, <2>4
<1>2. CASE ~CanRetry(s, failure)
  <2>1. \/ AfterFailure(s, failure) = Finals(s, "failed", failure.kind, <<>>, {})
        \/ AfterFailure(s, failure)
             = Finals(s, "degraded", failure.kind, <<>>, Identities(s.evidence))
    BY <1>2 DEF AfterFailure, EvidenceOnly
  <2>2. QED
    BY <2>1, Accepted, FinalsSound
<1>3. QED
  BY <1>1, <1>2

\* build_grounded_draft: claims that all cite something are verified, others refused.
LEMMA DraftedSound ==
  ASSUME NEW s, StreamSound(s), NEW claims
  PROVE  LET d == Drafted(s, claims)
         IN  /\ StreamSound(d) /\ d.phase \in {"verifying", "final"} /\ d.attempt = s.attempt
<1>1. CASE DraftAccepted(s.packed.evidence, claims)
  <2> DEFINE d == [s EXCEPT !.phase = "verifying", !.claims = claims]
  <2>1. Drafted(s, claims) = d
    BY <1>1 DEF Drafted
  <2>2. /\ DOMAIN d = StreamFields /\ d.phase = "verifying" /\ d.attempt = s.attempt
        /\ d.final = s.final /\ d.released = s.released /\ d.claims = claims
    BY DEF StreamSound, StreamFields
  <2>3. claims # <<>> /\ \A c \in ToSet(claims) : c.cites # <<>>
    BY <1>1 DEF DraftAccepted
  <2> HIDE DEF d
  <2>4. StreamSound(d)
    BY <2>2, <2>3 DEF StreamSound, Phases, Blocking
  <2>5. QED
    BY <2>1, <2>2, <2>4
<1>2. CASE ~DraftAccepted(s.packed.evidence, claims)
  <2>1. Drafted(s, claims) = Finals(s, "failed", "malformed", <<>>, {})
    BY <1>2 DEF Drafted
  <2>2. Acceptable("failed", "malformed", <<>>)
    BY Accepted
  <2>3. QED
    BY <2>1, <2>2, FinalsSound
<1>3. QED
  BY <1>1, <1>2

\* A turn of the verifier moves its counters only.
LEMMA VerifySound ==
  ASSUME NEW s, StreamSound(s), NEW failures, s.phase = "verifying"
  PROVE  LET d == [s EXCEPT !.checked = @ + 1, !.failures = failures]
         IN  /\ StreamSound(d) /\ d.phase = "verifying" /\ d.attempt = s.attempt
<1> DEFINE d == [s EXCEPT !.checked = @ + 1, !.failures = failures]
<1>1. /\ DOMAIN d = StreamFields /\ d.phase = s.phase /\ d.attempt = s.attempt
      /\ d.final = s.final /\ d.released = s.released /\ d.claims = s.claims
  BY DEF StreamSound, StreamFields
<1> HIDE DEF d
<1>2. StreamSound(d)
  BY <1>1 DEF StreamSound, Phases, Blocking
<1>3. QED
  BY <1>1, <1>2 DEF d

\* The end of a verification: an answer with the claims, or an abstention.
LEMMA ConcludeSound ==
  ASSUME AskInv, NEW r \in Requests, Conclude(r)
  PROVE  \E d : /\ Set(r, d) /\ StreamSound(d) /\ d.phase = "final"
                /\ d.attempt = stream[r].attempt
<1> DEFINE u == stream[r]
           reason == Decide(u.packed.evidence, u.failures)
           given == Finals(u, "verified", "none", u.claims, CitedSources(u.claims, u.evidence))
           none == Finals(u, "abstained", reason, <<>>, {})
<1>1. u.phase = "verifying" /\ Set(r, IF reason # "none" THEN none ELSE given)
  BY DEF Conclude, Runs
<1>2. StreamSound(u) /\ u.claims # <<>> /\ \A c \in ToSet(u.claims) : c.cites # <<>>
  BY <1>1 DEF AskInv, StreamsSound, StreamSound
<1> HIDE DEF u, reason
<1>3. CASE reason # "none"
  <2>1. Acceptable("abstained", reason, <<>>)
    BY <1>3, Accepted
  <2>2. StreamSound(none) /\ none.phase = "final" /\ none.attempt = u.attempt
    BY <1>2, <2>1, FinalsSound
  <2>3. Set(r, none)
    BY <1>1, <1>3
  <2>4. QED
    BY <2>2, <2>3 DEF u
<1>4. CASE reason = "none"
  <2>1. Acceptable("verified", "none", u.claims)
    BY <1>2, Accepted
  <2>2. StreamSound(given) /\ given.phase = "final" /\ given.attempt = u.attempt
    BY <1>2, <2>1, FinalsSound
  <2>3. Set(r, given)
    BY <1>1, <1>4
  <2>4. QED
    BY <2>2, <2>3 DEF u
<1>5. QED
  BY <1>3, <1>4

\* The breaker after a failure: it opens at this moment, or stays closed.
LEMMA FailureRecorded ==
  ASSUME BreakerSound, now \in Nat
  PROVE  LET b == RecordFailure(breaker, now)
         IN  /\ b \in [state : {"closed", "open"}, failures : Nat, openedAt : Nat \cup {None}]
             /\ b.state = "open" => b.openedAt = now /\ b.failures >= FailureThreshold
             /\ b.state = "closed" => breaker.state = "closed" /\ b.openedAt = breaker.openedAt
<1> DEFINE more == [breaker EXCEPT !.failures = @ + 1]
<1>0. /\ breaker \in [state : {"closed", "open", "half_open"}, failures : Nat,
                      openedAt : Nat \cup {None}]
      /\ breaker.state # "closed" => breaker.failures >= FailureThreshold
      /\ FailureThreshold \in Nat
  BY Constants DEF BreakerSound
<1>1. CASE breaker.state = "half_open"
  BY <1>0, <1>1 DEF RecordFailure, Opened
<1>2. CASE breaker.state # "half_open"
  <2>1. /\ more \in [state : {"closed", "open", "half_open"}, failures : Nat,
                     openedAt : Nat \cup {None}]
        /\ more.state = breaker.state /\ more.failures = breaker.failures + 1
        /\ more.openedAt = breaker.openedAt
    BY <1>0
  <2>2. RecordFailure(breaker, now)
          = IF breaker.failures + 1 >= FailureThreshold THEN Opened(more, now) ELSE more
    BY <1>2 DEF RecordFailure
  <2> HIDE DEF more
  <2>3. CASE breaker.failures + 1 >= FailureThreshold
    <3>1. RecordFailure(breaker, now) = [more EXCEPT !.state = "open", !.openedAt = now]
      BY <2>2, <2>3 DEF Opened
    <3>2. QED
      BY <2>1, <2>3, <3>1
  <2>4. CASE ~(breaker.failures + 1 >= FailureThreshold)
    <3>1. breaker.state = "closed"
      BY <1>0, <2>4
    <3>2. QED
      BY <2>1, <2>2, <2>4, <3>1
  <2>5. QED
    BY <2>3, <2>4
<1>3. QED
  BY <1>1, <1>2

-----------------------------------------------------------------------------
(* Preservation, action by action.                                         *)

\* No request was made.
LEMMA InitSound == Init => AskInv
<1> SUFFICES ASSUME Init PROVE AskInv
  OBVIOUS
<1>1. StreamsSound
  BY IdleSound DEF Init, StreamsSound
<1>3. BreakerSound /\ breaker.state = "closed"
  BY DEF Init, BreakerSound, Closed
<1>4. ProbeSound /\ ProbeAccounted
  BY <1>3 DEF Init, ProbeSound, ProbeAccounted
<1>5. ClockSound
  BY WorldBounds DEF Init, ClockSound
<1>6. QED
  BY <1>1, <1>3, <1>4, <1>5 DEF AskInv

\* The generator of one request moves, the others wait.
LEMMA OneMoves ==
  ASSUME StreamsSound, NEW r \in Requests, NEW s, Set(r, s)
  PROVE  /\ DOMAIN stream' = Requests /\ stream'[r] = s
         /\ \A q \in Requests \ {r} : stream'[q] = stream[q]
         /\ StreamSound(s) => StreamsSound'
BY DEF Set, StreamsSound

\* A step that touches one generator alone.
LEMMA QuietStep ==
  ASSUME AskInv, NEW r \in Requests, NEW s, Set(r, s), StreamSound(s),
         stream[r].phase \in {"calling", "delta", "closed"}
           => s.phase \in {"calling", "delta", "closed"},
         UNCHANGED <<world, breaker, now, probe, outage>>
  PROVE  AskInv'
<1>1. /\ DOMAIN stream' = Requests /\ stream'[r] = s /\ StreamsSound'
      /\ \A q \in Requests \ {r} : stream'[q] = stream[q]
  BY OneMoves DEF AskInv
<1>2. BreakerSound' /\ ProbeSound' /\ ClockSound'
  BY DEF AskInv, BreakerSound, ProbeSound, ClockSound, Outside
<1>3. ProbeAccounted'
  BY <1>1 DEF AskInv, ProbeSound, ProbeAccounted
<1>4. QED
  BY <1>1, <1>2, <1>3 DEF AskInv

\* A generator that only changes its phase, before its first call.
LEMMA PhaseSound ==
  ASSUME NEW s, StreamSound(s), NEW p \in {"retrieving", "calling"},
         p = "retrieving" => s.attempt = 0 /\ s.released = <<>>
  PROVE  LET d == [s EXCEPT !.phase = p]
         IN  /\ StreamSound(d) /\ d.phase = p /\ d.attempt = s.attempt
<1> DEFINE d == [s EXCEPT !.phase = p]
<1>1. /\ DOMAIN d = StreamFields /\ d.phase = p /\ d.attempt = s.attempt /\ d.final = s.final
      /\ d.released = s.released
  BY DEF StreamSound, StreamFields
<1> HIDE DEF d
<1>2. StreamSound(d)
  BY <1>1 DEF StreamSound, Phases, Suspended, Blocking
<1>3. QED
  BY <1>1, <1>2 DEF d

\* Retrieval: what was found is packed, and generated from or abstained on.
LEMMA RetrieveSound ==
  ASSUME AskInv, NEW r \in Requests, Retrieve(r)
  PROVE  \E d : /\ Set(r, d) /\ StreamSound(d) /\ d.phase \in {"generating", "final"}
                /\ d.attempt = stream[r].attempt
<1> DEFINE u == stream[r]
           s == [u EXCEPT !.evidence = Retrieved, !.packed = Pack(Retrieved)]
           reason == Decide(s.packed.evidence, {})
           d == IF reason # "none" THEN Finals(s, "abstained", reason, <<>>, {})
                ELSE [s EXCEPT !.phase = "generating"]
<1>1. Set(r, d) /\ u.phase = "retrieving"
  BY DEF Retrieve, Runs
<1>2. StreamSound(u) /\ u.attempt = 0 /\ u.released = <<>>
  BY <1>1 DEF AskInv, StreamsSound, StreamSound
<1> HIDE DEF u
<1>3. /\ DOMAIN s = StreamFields /\ s.phase = u.phase /\ s.attempt = u.attempt
      /\ s.final = u.final /\ s.released = u.released /\ s.claims = u.claims
  BY <1>2 DEF StreamSound, StreamFields
<1> HIDE DEF s
<1>4. StreamSound(s)
  BY <1>2, <1>3 DEF StreamSound
<1> HIDE DEF reason
<1>5. CASE reason # "none"
  <2>1. d = Finals(s, "abstained", reason, <<>>, {})
    BY <1>5
  <2>2. Acceptable("abstained", reason, <<>>)
    BY <1>5, Accepted
  <2>3. QED
    BY <1>1, <1>3, <1>4, <2>1, <2>2, FinalsSound DEF u
<1>6. CASE reason = "none"
  <2>1. d = [s EXCEPT !.phase = "generating"]
    BY <1>6
  <2>2. /\ DOMAIN d = StreamFields /\ d.phase = "generating" /\ d.attempt = s.attempt
        /\ d.final = s.final /\ d.released = s.released
    BY <1>4, <2>1 DEF StreamSound, StreamFields
  <2> HIDE DEF d
  <2>3. StreamSound(d)
    BY <1>2, <1>3, <1>4, <2>2 DEF StreamSound, Phases, Suspended
  <2>4. QED
    BY <1>1, <1>3, <2>2, <2>3 DEF u
<1>7. QED
  BY <1>5, <1>6

\* A delta: kept to itself, or shown.
LEMMA DeltaSound ==
  ASSUME AskInv, NEW r \in Requests, NEW word, Delta(r, word)
  PROVE  \E d : /\ Set(r, d) /\ StreamSound(d) /\ d.phase \in {"calling", "delta"}
                /\ d.attempt = stream[r].attempt
<1> DEFINE u == stream[r]
           candidate == Append(u.candidate, word)
           s == [u EXCEPT !.candidate = candidate]
           d == IF Passes(s.packed.evidence, candidate)
                THEN [s EXCEPT !.phase = "delta", !.released = Append(@, word)]
                ELSE s
<1>1. Set(r, d) /\ u.phase = "calling"
  BY DEF Delta, Runs
<1>2. StreamSound(u)
  BY DEF AskInv, StreamsSound
<1> HIDE DEF u
<1>3. /\ DOMAIN s = StreamFields /\ s.phase = u.phase /\ s.attempt = u.attempt
      /\ s.final = u.final /\ s.released = u.released /\ s.claims = u.claims
  BY <1>2 DEF StreamSound, StreamFields
<1> HIDE DEF s
<1>4. StreamSound(s)
  BY <1>2, <1>3 DEF StreamSound
<1>5. CASE Passes(s.packed.evidence, candidate)
  <2>1. d = [s EXCEPT !.phase = "delta", !.released = Append(@, word)]
    BY <1>5
  <2>2. /\ DOMAIN d = StreamFields /\ d.phase = "delta" /\ d.attempt = s.attempt
        /\ d.final = s.final
    BY <1>4, <2>1 DEF StreamSound, StreamFields
  <2> HIDE DEF d
  <2>3. StreamSound(d)
    BY <1>4, <2>2 DEF StreamSound, Phases, Suspended
  <2>4. QED
    BY <1>1, <1>3, <2>2, <2>3 DEF u
<1>6. CASE ~Passes(s.packed.evidence, candidate)
  <2>1. d = s
    BY <1>6
  <2>2. QED
    BY <1>1, <1>3, <1>4, <2>1 DEF u
<1>7. QED
  BY <1>5, <1>6

\* What moves one generator and nothing that is shared.
LEMMA QuietSteps ==
  ASSUME AskInv, NEW r \in Requests,
         \/ Begin(r) \/ RetrievalFails(r) \/ Retrieve(r) \/ Resume(r) \/ Conclude(r)
         \/ \E word \in Outside.words : Delta(r, word)
         \/ \E up \in BOOLEAN : VerifyClaim(r, up)
  PROVE  AskInv'
<1>1. StreamSound(stream[r])
  BY DEF AskInv, StreamsSound
<1>3. CASE Begin(r)
  <2>1. /\ Set(r, [stream[r] EXCEPT !.phase = "retrieving"]) /\ stream[r].phase = "opened"
        /\ UNCHANGED <<world, breaker, now, probe, outage>>
    BY <1>3 DEF Begin, Runs, environment, circuit
  <2>2. stream[r].attempt = 0 /\ stream[r].released = <<>>
    BY <1>1, <2>1 DEF StreamSound
  <2>3. QED
    BY <1>1, <2>1, <2>2, PhaseSound, QuietStep
<1>4. CASE RetrievalFails(r)
  <2>1. /\ Set(r, Finals(stream[r], "failed", "retrieval_unavailable", <<>>, {}))
        /\ stream[r].phase = "retrieving"
        /\ UNCHANGED <<world, breaker, now, probe, outage>>
    BY <1>4 DEF RetrievalFails, Runs, environment, circuit
  <2>2. QED
    BY <1>1, <2>1, Accepted, FinalsSound, QuietStep
<1>5. CASE Retrieve(r)
  <2>1. /\ stream[r].phase = "retrieving"
        /\ UNCHANGED <<world, breaker, now, probe, outage>>
    BY <1>5 DEF Retrieve, Runs, environment, circuit
  <2>2. PICK d : Set(r, d) /\ StreamSound(d) /\ d.phase \in {"generating", "final"}
    BY <1>5, RetrieveSound
  <2>3. QED
    BY <2>1, <2>2, QuietStep
<1>6. CASE Resume(r)
  <2>1. /\ Set(r, [stream[r] EXCEPT !.phase = "calling"]) /\ stream[r].phase = "delta"
        /\ UNCHANGED <<world, breaker, now, probe, outage>>
    BY <1>6 DEF Resume, Runs, environment, circuit
  <2>2. QED
    BY <1>1, <2>1, PhaseSound, QuietStep
<1>7. ASSUME NEW word, Delta(r, word) PROVE AskInv'
  <2>1. /\ stream[r].phase = "calling"
        /\ UNCHANGED <<world, breaker, now, probe, outage>>
    BY <1>7 DEF Delta, Runs, environment, circuit
  <2>2. PICK d : Set(r, d) /\ StreamSound(d) /\ d.phase \in {"calling", "delta"}
    BY <1>7, DeltaSound
  <2>3. QED
    BY <2>1, <2>2, QuietStep
<1>8. ASSUME NEW up, VerifyClaim(r, up) PROVE AskInv'
  <2>1. /\ stream[r].phase = "verifying"
        /\ \E failures : Set(r, [stream[r] EXCEPT !.checked = @ + 1, !.failures = failures])
        /\ UNCHANGED <<world, breaker, now, probe, outage>>
    BY <1>8 DEF VerifyClaim, Runs, environment, circuit
  <2>2. PICK failures : Set(r, [stream[r] EXCEPT !.checked = @ + 1, !.failures = failures])
    BY <2>1
  <2>3. QED
    BY <1>1, <2>1, <2>2, VerifySound, QuietStep
<1>9. CASE Conclude(r)
  <2>1. /\ stream[r].phase = "verifying"
        /\ UNCHANGED <<world, breaker, now, probe, outage>>
    BY <1>9 DEF Conclude, Runs, environment, circuit
  <2>2. PICK d : Set(r, d) /\ StreamSound(d) /\ d.phase = "final"
    BY <1>9, ConcludeSound
  <2>3. QED
    BY <2>1, <2>2, QuietStep
<1>10. QED
  BY <1>3, <1>4, <1>5, <1>6, <1>7, <1>8, <1>9

\* A stream is opened, refused, or over.
LEMMA GateSteps ==
  ASSUME AskInv, NEW r \in Requests,
         Ask(r) \/ Refuse(r) \/ Finish(r) \/ Disconnect(r) \/ Abandon(r)
  PROVE  AskInv'
<1>1. CASE Ask(r)
  <2>1. /\ Set(r, [Idle EXCEPT !.phase = "opened"]) /\ stream[r].phase = "idle"
        /\ UNCHANGED <<world, breaker, now, probe, outage>>
    BY <1>1 DEF Ask, Runs, environment, circuit
  <2>2. QED
    BY <2>1, IdleSound, QuietStep
<1>2. CASE Refuse(r) \/ Finish(r) \/ Disconnect(r) \/ Abandon(r)
  <2>1. /\ Set(r, [Idle EXCEPT !.phase = "closed"])
        /\ UNCHANGED <<world, breaker, now, probe, outage>>
    BY <1>2 DEF Refuse, Finish, Disconnect, Abandon, Ends, environment, circuit
  <2>2. QED
    BY <2>1, IdleSound, QuietStep
<1>3. QED
  BY <1>1, <1>2

\* A call begins or ends: the breaker is to be shown.
LEMMA CallMoves ==
  ASSUME AskInv, NEW r \in Requests, NEW s, Set(r, s), StreamSound(s),
         BreakerSound', ProbeSound',
         breaker'.state = "half_open" => probe' = r /\ s.phase = "calling",
         UNCHANGED <<world, now>>
  PROVE  AskInv'
<1>1. /\ DOMAIN stream' = Requests /\ stream'[r] = s /\ StreamsSound'
      /\ \A q \in Requests \ {r} : stream'[q] = stream[q]
  BY OneMoves DEF AskInv
<1>2. ClockSound'
  BY DEF AskInv, ClockSound, Outside
<1>3. ProbeAccounted'
  BY <1>1 DEF ProbeAccounted
<1>4. QED
  BY <1>1, <1>2, <1>3 DEF AskInv

\* The clock is a number.
LEMMA NowIsNat ==
  ASSUME AskInv
  PROVE  now \in Nat /\ now <= Outside.maxTime /\ Outside.maxTime \in Nat
BY WorldBounds DEF AskInv, ClockSound

\* CircuitBreaker.acquire, and the call or the evidence without an answer.
LEMMA AttemptStep ==
  ASSUME AskInv, NEW r \in Requests, Attempt(r)
  PROVE  AskInv'
<1> DEFINE u == stream[r]
<1>1. /\ u.phase \in {"generating", "backoff"} /\ UNCHANGED <<world, now, outage>>
      /\ StreamSound(u)
  BY DEF Attempt, AskInv, StreamsSound, environment
<1>2. CASE Acquires(breaker, now)
  <2> DEFINE s == [u EXCEPT !.phase = "calling", !.attempt = @ + 1, !.candidate = <<>>]
  <2>1. /\ breaker' = Acquired(breaker) /\ Set(r, s)
        /\ probe' = IF breaker.state = "open" THEN r ELSE probe
    BY <1>2 DEF Attempt
  <2> HIDE DEF u
  <2>2. u.attempt + 1 \in 0..MaxAttempts
    BY <1>1, Constants DEF StreamSound
  <2>3. /\ DOMAIN s = StreamFields /\ s.phase = "calling" /\ s.attempt = u.attempt + 1
        /\ s.final = u.final /\ s.released = u.released /\ s.claims = u.claims
    BY <1>1 DEF StreamSound, StreamFields
  <2> HIDE DEF s
  <2>4. StreamSound(s)
    BY <1>1, <2>2, <2>3 DEF StreamSound, Phases, Blocking
  <2>5. breaker.state \in {"closed", "open"}
    BY <1>2 DEF Acquires
  <2>6. CASE breaker.state = "closed"
    <3>1. breaker' = breaker /\ probe' = probe
      BY <2>1, <2>6 DEF Acquired
    <3>2. BreakerSound' /\ ProbeSound'
      BY <1>1, <3>1 DEF AskInv, BreakerSound, ProbeSound
    <3>3. QED
      BY <1>1, <2>1, <2>3, <2>4, <2>6, <3>1, <3>2, CallMoves DEF u
  <2>7. CASE breaker.state = "open"
    <3>1. breaker' = [breaker EXCEPT !.state = "half_open"] /\ probe' = r
      BY <2>1, <2>7 DEF Acquired
    <3>2. /\ breaker' \in [state : {"closed", "open", "half_open"}, failures : Nat,
                           openedAt : Nat \cup {None}]
          /\ breaker'.state = "half_open" /\ breaker'.openedAt = breaker.openedAt
          /\ breaker'.failures = breaker.failures
      BY <3>1 DEF AskInv, BreakerSound
    <3>3. BreakerSound' /\ ProbeSound'
      BY <1>1, <2>7, <3>1, <3>2 DEF AskInv, BreakerSound, ProbeSound
    <3>4. QED
      BY <1>1, <2>1, <2>3, <2>4, <3>1, <3>3, CallMoves DEF u
  <2>8. QED
    BY <2>5, <2>6, <2>7
<1>3. CASE ~Acquires(breaker, now)
  <2> DEFINE s == EvidenceOnly(u, "unavailable")
  <2>1. Set(r, s) /\ UNCHANGED <<breaker, probe>>
    BY <1>3 DEF Attempt
  <2> HIDE DEF u
  <2>2. Acceptable("degraded", "unavailable", <<>>)
    BY Accepted
  <2>3. StreamSound(s) /\ s.phase = "final"
    BY <1>1, <2>2, FinalsSound DEF EvidenceOnly
  <2> HIDE DEF s
  <2>4. QED
    BY <1>1, <2>1, <2>3, QuietStep DEF u
<1>4. QED
  BY <1>2, <1>3

\* attempt(): a failed call is recorded, whatever becomes of its stream.
LEMMA FailedStep ==
  ASSUME AskInv, NEW r \in Requests, NEW s, Failed, Set(r, s), StreamSound(s),
         UNCHANGED <<world, now, probe>>
  PROVE  AskInv'
<1>1. /\ breaker' = RecordFailure(breaker, now)
      /\ outage' = IF breaker'.state = "open" THEN now ELSE outage
  BY DEF Failed
<1>2. /\ breaker' \in [state : {"closed", "open"}, failures : Nat, openedAt : Nat \cup {None}]
      /\ breaker'.state = "open" => breaker'.openedAt = now /\ breaker'.failures >= FailureThreshold
      /\ breaker'.state = "closed" =>
           breaker.state = "closed" /\ breaker'.openedAt = breaker.openedAt
  BY <1>1, FailureRecorded, NowIsNat DEF AskInv
<1>3. BreakerSound'
  <2>1. CASE breaker'.state = "open"
    BY <1>1, <1>2, <2>1, NowIsNat, Constants DEF BreakerSound
  <2>2. CASE breaker'.state = "closed"
    BY <1>1, <1>2, <2>2 DEF AskInv, BreakerSound
  <2>3. QED
    BY <1>2, <2>1, <2>2
<1>4. ProbeSound'
  BY <1>2 DEF AskInv, ProbeSound
<1>5. QED
  BY <1>2, <1>3, <1>4, CallMoves

\* A failed call, and the retry or the last event it leads to.
LEMMA FailsStep ==
  ASSUME AskInv, NEW r \in Requests, NEW failure, Fails(r, failure),
         UNCHANGED <<world, now, probe>>
  PROVE  AskInv'
<1>1. StreamSound(AfterFailure(stream[r], failure))
  BY AfterFailureSound DEF AskInv, StreamsSound
<1>2. QED
  BY <1>1, FailedStep DEF Fails

\* An exception that nothing names.
LEMMA RaisesStep ==
  ASSUME AskInv, NEW r \in Requests, Raises(r)
  PROVE  AskInv'
<1>1. /\ Set(r, [Idle EXCEPT !.phase = "closed"]) /\ UNCHANGED <<world, now, probe>>
      /\ Failed \/ UNCHANGED <<breaker, outage>>
  BY DEF Raises, Ends, environment
<1>2. QED
  BY <1>1, IdleSound, FailedStep, QuietStep

\* attempt(): a call that went through closes the circuit.
LEMMA SucceedsStep ==
  ASSUME AskInv, NEW r \in Requests, NEW s, Succeeds, Set(r, s), StreamSound(s),
         UNCHANGED <<world, now, probe>>
  PROVE  AskInv'
<1>1. breaker' = Closed /\ outage' = None
  BY DEF Succeeds, RecordSuccess
<1>2. BreakerSound' /\ ProbeSound' /\ breaker'.state = "closed"
  BY <1>1 DEF BreakerSound, ProbeSound, Closed, AskInv
<1>3. QED
  BY <1>2, CallMoves

\* The ways a provider call ends.
LEMMA ProviderSteps ==
  ASSUME AskInv, NEW r \in Requests,
         \/ \E outcome \in Outside.outcomes \cap DOMAIN Failure : ProviderFails(r, outcome)
         \/ ProviderStops(r) \/ Raises(r)
         \/ \E reply \in Outside.replies : ProviderCompletes(r, reply)
  PROVE  AskInv'
<1>1. StreamSound(stream[r])
  BY DEF AskInv, StreamsSound
<1>2. ASSUME NEW outcome, ProviderFails(r, outcome) PROVE AskInv'
  BY <1>2, FailsStep DEF ProviderFails, environment
<1>3. CASE ProviderStops(r)
  <2>1. Acceptable("failed", "incomplete", <<>>)
    BY Accepted
  <2>2. LET s == Finals(stream[r], "failed", "incomplete", <<>>, {})
        IN  StreamSound(s) /\ s.phase = "final"
    BY <1>1, <2>1, FinalsSound
  <2>3. QED
    BY <1>3, <2>2, SucceedsStep DEF ProviderStops, environment
<1>4. ASSUME NEW reply, ProviderCompletes(r, reply) PROVE AskInv'
  <2>1. /\ UNCHANGED <<world, now, probe>>
        /\ \/ Fails(r, Failure[ParseFailure(reply)])
           \/ Succeeds /\ Set(r, Drafted(stream[r], reply.claims))
    BY <1>4 DEF ProviderCompletes, environment
  <2>2. CASE Fails(r, Failure[ParseFailure(reply)])
    BY <2>1, <2>2, FailsStep
  <2>3. CASE Succeeds /\ Set(r, Drafted(stream[r], reply.claims))
    BY <1>1, <2>1, <2>3, DraftedSound, SucceedsStep
  <2>4. QED
    BY <2>1, <2>2, <2>3
<1>5. QED
  BY <1>2, <1>3, <1>4, RaisesStep

\* Time passes, policies change, the process restarts.
LEMMA OutsideSteps ==
  ASSUME AskInv, Tick \/ PolicyChange \/ Crash
  PROVE  AskInv'
<1>1. CASE Tick
  <2>1. now' = now + 1 /\ now' \in 0..Outside.maxTime
        /\ UNCHANGED <<world, stream, breaker, probe, outage>>
    BY <1>1, NowIsNat DEF Tick, circuit
  <2>2. BreakerSound' /\ ClockSound'
    BY <2>1, NowIsNat, Constants DEF AskInv, BreakerSound, ClockSound, Outside
  <2>3. StreamsSound' /\ ProbeSound' /\ ProbeAccounted'
    BY <2>1 DEF AskInv, StreamsSound, ProbeSound, ProbeAccounted
  <2>4. QED
    BY <2>2, <2>3 DEF AskInv
<1>2. CASE PolicyChange
  <2>1. UNCHANGED <<world, stream, breaker, now, probe, outage>>
    BY <1>2 DEF PolicyChange, circuit
  <2>2. QED
    BY <2>1 DEF AskInv, StreamsSound, ProbeSound, ProbeAccounted, BreakerSound, ClockSound,
                Outside
<1>3. CASE Crash
  <2> DEFINE over == [Idle EXCEPT !.phase = "closed"]
  <2>1. /\ stream' = [r \in Requests |-> IF Open(r) THEN over ELSE stream[r]]
        /\ breaker' = Closed /\ probe' = None /\ outage' = None
        /\ UNCHANGED <<world, now>>
    BY <1>3 DEF Crash
  <2>2. StreamSound(over)
    BY IdleSound
  <2> HIDE DEF over
  <2>3. StreamsSound'
    BY <2>1, <2>2 DEF AskInv, StreamsSound
  <2>4. BreakerSound' /\ breaker'.state = "closed" /\ ProbeSound'
    BY <2>1 DEF BreakerSound, Closed, ProbeSound
  <2>5. ClockSound'
    BY <2>1 DEF AskInv, ClockSound, Outside
  <2>6. ProbeAccounted'
    BY <2>4 DEF ProbeAccounted
  <2>7. QED
    BY <2>3, <2>4, <2>5, <2>6 DEF AskInv
<1>4. QED
  BY <1>1, <1>2, <1>3

-----------------------------------------------------------------------------
(* The theorems.                                                           *)

\* The invariant is inductive.
THEOREM AskStepSound == AskInv /\ [Next]_vars => AskInv'
<1> SUFFICES ASSUME AskInv, [Next]_vars PROVE AskInv'
  OBVIOUS
<1>1. ASSUME NEW r \in Requests, Ask(r) \/ Refuse(r) \/ Step(r) \/ Disconnect(r) \/ Abandon(r)
      PROVE  AskInv'
  <2>1. CASE Ask(r) \/ Refuse(r) \/ Finish(r) \/ Disconnect(r) \/ Abandon(r)
    BY <2>1, GateSteps
  <2>2. CASE \/ Begin(r) \/ RetrievalFails(r) \/ Retrieve(r) \/ Resume(r) \/ Conclude(r)
             \/ \E word \in Outside.words : Delta(r, word)
             \/ \E up \in BOOLEAN : VerifyClaim(r, up)
    BY <2>2, QuietSteps
  <2>3. CASE Attempt(r)
    BY <2>3, AttemptStep
  <2>4. CASE \/ \E outcome \in Outside.outcomes \cap DOMAIN Failure : ProviderFails(r, outcome)
             \/ ProviderStops(r) \/ Raises(r)
             \/ \E reply \in Outside.replies : ProviderCompletes(r, reply)
    BY <2>4, ProviderSteps
  <2>5. QED
    BY <1>1, <2>1, <2>2, <2>3, <2>4 DEF Step
<1>2. CASE Tick \/ PolicyChange \/ Crash
  BY <1>2, OutsideSteps
<1>3. CASE UNCHANGED vars
  BY <1>3 DEF vars, environment, circuit, AskInv, StreamsSound, ProbeSound, ProbeAccounted,
              BreakerSound, ClockSound, Outside
<1>4. QED
  BY <1>1, <1>2, <1>3 DEF Next

\* Every reachable state satisfies the invariant.
THEOREM AskSafety == Spec => []AskInv
<1>1. QED
  BY InitSound, AskStepSound, PTL DEF Spec

-----------------------------------------------------------------------------
(* The quota row: what it counts, over windows, releases and lost leases.  *)

RowType == [started : Nat \cup {NoWindow}, requests : 0..MaxRequests,
            active : 0..MaxConcurrent]

\* What the backend counts a lease for.
Counts(r) == Open(r) \/ r \in leaks

\* Leases are of windows that have begun, none of a later one than the row's; a
\* request has one lease, and a stream that is open has not leaked its own.
QuotaInv ==
  /\ bucket \in RowType
  /\ lease \in [Requests -> Nat \cup {NoWindow}]
  /\ leaks \subseteq Requests
  /\ bucket.started # NoWindow => bucket.started <= WindowStart(now)
  /\ \A r \in Requests :
       /\ lease[r] # NoWindow => bucket.started # NoWindow /\ lease[r] <= bucket.started
       /\ stream[r].phase = "idle" => lease[r] = NoWindow /\ r \notin leaks
       /\ Open(r) => r \notin leaks
  /\ LeaseFollowsStream

\* The limits of the quota.
LEMMA QuotaConstants ==
  /\ MaxRequests \in Nat \ {0} /\ MaxConcurrent \in Nat \ {0} /\ Window \in Nat \ {0}
  /\ NoWindow \notin Int /\ NoWindow \notin Nat
BY QuotaAssumption

\* Windows begin at whole numbers, and later ones later.
LEMMA WindowsBegin ==
  \A at \in Nat : /\ WindowStart(at) \in Nat /\ WindowStart(at) <= at
                  /\ WindowStart(at) <= WindowStart(at + 1)
<1> SUFFICES ASSUME NEW at \in Nat
             PROVE  /\ WindowStart(at) \in Nat /\ WindowStart(at) <= at
                    /\ WindowStart(at) <= WindowStart(at + 1)
  OBVIOUS
<1>1. ASSUME NEW t \in Nat
      PROVE  /\ t % Window \in 0..(Window - 1) /\ t \div Window \in Nat
             /\ WindowStart(t) = Window * (t \div Window)
             /\ t = Window * (t \div Window) + (t % Window)
  <2>1. /\ t % Window \in 0..(Window - 1) /\ t \div Window \in Nat
        /\ t = Window * (t \div Window) + (t % Window)
    BY QuotaConstants
  <2>2. WindowStart(t) = t - (t % Window)
    BY DEF WindowStart
  <2> DEFINE q == t \div Window
             r == t % Window
  <2> HIDE DEF q, r
  <2>3. Window * q \in Nat
    BY <2>1, QuotaConstants DEF q
  <2>4. QED
    BY <2>1, <2>2, <2>3 DEF q, r
<1> DEFINE q == at \div Window
           r == at % Window
           p == (at + 1) \div Window
           s == (at + 1) % Window
           w == Window
<1>2. /\ q \in Nat /\ p \in Nat /\ r \in 0..(w - 1) /\ s \in 0..(w - 1)
      /\ WindowStart(at) = w * q /\ WindowStart(at + 1) = w * p
      /\ at = w * q + r /\ at + 1 = w * p + s /\ w \in Nat
  <2>1. at + 1 \in Nat
    OBVIOUS
  <2>2. QED
    BY <1>1, <2>1, QuotaConstants
<1> HIDE DEF q, r, p, s, w
<1>3. w * q \in Nat /\ w * p \in Nat
  BY <1>2
<1>4. q <= p
  <2> SUFFICES ASSUME p < q PROVE FALSE
    BY <1>2
  <2>1. w * (p + 1) <= w * q /\ w * (p + 1) = w * p + w
    BY <1>2
  <2>2. QED
    BY <1>2, <1>3, <2>1
<1>5. w * q <= w * p
  BY <1>2, <1>4
<1>6. QED
  BY <1>2, <1>3, <1>5

\* The row brought to the window of now: empty if a window begins.
LEMMA CurrentRow ==
  ASSUME NEW b \in RowType, NEW started \in Nat
  PROVE  LET row == CurrentBucket(b, started)
         IN  /\ row \in RowType /\ row.started = started
             /\ b.started = started => row = b
             /\ b.started # started => row.active = 0
BY QuotaConstants DEF CurrentBucket, Fresh, RowType

\* A reservation within the limits.
LEMMA CountedRow ==
  ASSUME NEW b \in RowType, ~Full(b)
  PROVE  /\ Counted(b) \in RowType /\ Counted(b).started = b.started
         /\ Counted(b).active = b.active + 1
<1>1. b.requests + 1 \in 0..MaxRequests /\ b.active + 1 \in 0..MaxConcurrent
  BY QuotaConstants DEF RowType, Full, RateLimited, ConcurrentLimited
<1>2. QED
  BY <1>1 DEF RowType, Counted

\* A release.
LEMMA FreedRow ==
  ASSUME NEW b \in RowType, NEW started
  PROVE  /\ Freed(b, started) \in RowType /\ Freed(b, started).started = b.started
         /\ b.started = started /\ b.active > 0 => Freed(b, started).active = b.active - 1
         /\ b.started # started => Freed(b, started).active = b.active
<1>1. b.active > 0 => b.active - 1 \in 0..MaxConcurrent
  BY QuotaConstants DEF RowType
<1>2. QED
  BY <1>1 DEF RowType, Freed

\* The number of leases the row should count.
Holders(started) == {r \in Requests : lease[r] = started /\ Counts(r)}

\* It is a number, and the property is about it.
LEMMA HoldersFinite ==
  /\ LeaseFollowsStream <=> bucket.active = Cardinality(Holders(bucket.started))
  /\ \A started : IsFiniteSet(Holders(started))
<1>1. IsFiniteSet(Requests)
  BY AskAssumption
<1>2. ASSUME NEW started PROVE IsFiniteSet(Holders(started))
  <2>1. Holders(started) \in SUBSET Requests
    BY DEF Holders
  <2>2. QED
    BY <1>1, <2>1, FS_Subset
<1>3. QED
  BY <1>2 DEF LeaseFollowsStream, Holders, Counts

\* Nobody asked.
LEMMA QuotaInit == Init => QuotaInv
<1> SUFFICES ASSUME Init PROVE QuotaInv
  OBVIOUS
<1>1. /\ bucket = Fresh(NoWindow) /\ leaks = {} /\ lease = [r \in Requests |-> NoWindow]
      /\ \A r \in Requests : stream[r].phase = "idle"
  BY DEF Init, Idle
<1>2. bucket \in RowType /\ bucket.started = NoWindow /\ bucket.active = 0
  BY <1>1, QuotaConstants DEF Fresh, RowType
<1>3. \A r \in Requests : ~Counts(r)
  BY <1>1 DEF Counts, Open
<1>4. Holders(bucket.started) = {}
  BY <1>3 DEF Holders
<1>5. LeaseFollowsStream
  BY <1>2, <1>4, HoldersFinite, FS_EmptySet
<1>6. QED
  BY <1>1, <1>2, <1>3, <1>5 DEF QuotaInv, Counts

\* A step that reserves and releases nothing, and ends no stream without a trace.
LEMMA QuotaKept ==
  ASSUME QuotaInv, UNCHANGED <<bucket, lease>>, leaks' \subseteq Requests,
         WindowStart(now) \in Nat, WindowStart(now)' \in Nat, WindowStart(now) <= WindowStart(now)',
         \A r \in Requests : /\ Counts(r)' <=> Counts(r)
                             /\ Open(r)' => r \notin leaks'
                             /\ stream'[r].phase = "idle" =>
                                  stream[r].phase = "idle" /\ r \notin leaks'
  PROVE  QuotaInv'
<1>1. Holders(bucket.started)' = Holders(bucket.started)
  BY DEF Holders
<1>2. bucket'.active = Cardinality(Holders(bucket.started)')
  BY <1>1, HoldersFinite DEF QuotaInv
<1>3. LeaseFollowsStream'
  BY <1>2 DEF LeaseFollowsStream, Holders, Counts
<1>4. bucket.started \in Nat \cup {NoWindow}
  BY DEF QuotaInv, RowType
<1>5. bucket'.started # NoWindow => bucket'.started <= WindowStart(now)'
  BY <1>4 DEF QuotaInv
<1>6. QED
  BY <1>3, <1>5 DEF QuotaInv

\* A reservation: of the window of now, which is not before that of the row.
LEMMA AskQuota ==
  ASSUME AskInv, QuotaInv, NEW r \in Requests, Ask(r)
  PROVE  QuotaInv'
<1> DEFINE started == WindowStart(now)
           row == CurrentBucket(bucket, started)
           opened == [Idle EXCEPT !.phase = "opened"]
<1>1. /\ ~Full(row) /\ bucket' = Counted(row) /\ lease' = [lease EXCEPT ![r] = started]
      /\ Set(r, opened) /\ stream[r].phase = "idle" /\ UNCHANGED <<now, leaks>>
  BY DEF Ask, Runs, environment
<1>2. /\ stream'[r].phase = "opened" /\ DOMAIN stream' = Requests
      /\ \A q \in Requests \ {r} : stream'[q] = stream[q]
  BY <1>1, OneMoves, IdleSound DEF AskInv
<1>3. started \in Nat /\ NoWindow \notin Nat
  BY WindowsBegin, NowIsNat, QuotaConstants
<1>4. /\ bucket \in RowType /\ lease \in [Requests -> Nat \cup {NoWindow}]
      /\ bucket.started \in Nat \cup {NoWindow}
      /\ bucket.started # NoWindow => bucket.started <= started
      /\ \A q \in Requests :
           /\ lease[q] # NoWindow => bucket.started # NoWindow /\ lease[q] <= bucket.started
           /\ stream[q].phase = "idle" => lease[q] = NoWindow /\ q \notin leaks
           /\ Open(q) => q \notin leaks
      /\ bucket.active = Cardinality(Holders(bucket.started))
  BY HoldersFinite DEF QuotaInv, RowType
<1>5. /\ row \in RowType /\ row.started = started
      /\ bucket.started = started => row = bucket
      /\ bucket.started # started => row.active = 0
  BY <1>3, <1>4, CurrentRow
<1>6. started' = started
  BY <1>1 DEF WindowStart
<1> HIDE DEF started, row, opened
<1>7. bucket' \in RowType /\ bucket'.started = started /\ bucket'.active = row.active + 1
  BY <1>1, <1>5, CountedRow
<1>8. /\ lease' \in [Requests -> Nat \cup {NoWindow}] /\ lease'[r] = started
      /\ \A q \in Requests \ {r} : lease'[q] = lease[q]
  BY <1>1, <1>3, <1>4
<1>9. /\ Open(r)' /\ ~Counts(r) /\ r \notin leaks'
      /\ \A q \in Requests \ {r} : (Open(q)' <=> Open(q)) /\ (Counts(q)' <=> Counts(q))
  BY <1>1, <1>2, <1>4 DEF Open, Counts
<1>10. row.active = Cardinality(Holders(started))
  <2>1. CASE bucket.started = started
    BY <1>4, <1>5, <2>1
  <2>2. CASE bucket.started # started
    <3>1. \A q \in Requests : lease[q] # started
      BY <1>3, <1>4, <2>2
    <3>2. Holders(started) = {}
      BY <3>1 DEF Holders
    <3>3. QED
      BY <1>5, <2>2, <3>2, FS_EmptySet
  <2>3. QED
    BY <2>1, <2>2
<1>11. Holders(bucket.started)' = Holders(started) \cup {r}
  BY <1>7, <1>8, <1>9 DEF Holders, Counts
<1>12. r \notin Holders(started)
  BY <1>9 DEF Holders
<1>13. bucket'.active = Cardinality(Holders(bucket.started)')
  BY <1>7, <1>10, <1>11, <1>12, HoldersFinite, FS_AddElement
<1>14. LeaseFollowsStream'
  BY <1>13 DEF LeaseFollowsStream, Holders, Counts
<1>15. \A q \in Requests :
         /\ lease'[q] # NoWindow => bucket'.started # NoWindow /\ lease'[q] <= bucket'.started
         /\ stream'[q].phase = "idle" => lease'[q] = NoWindow /\ q \notin leaks'
         /\ Open(q)' => q \notin leaks'
  BY <1>1, <1>2, <1>3, <1>4, <1>7, <1>8, <1>9
<1>16. bucket'.started <= WindowStart(now)'
  BY <1>3, <1>6, <1>7 DEF started
<1>17. leaks' \subseteq Requests
  BY <1>1 DEF QuotaInv
<1>18. QED
  BY <1>7, <1>8, <1>14, <1>15, <1>16, <1>17 DEF QuotaInv

\* A refusal brings the row to the window of now, at most.
LEMMA RefuseQuota ==
  ASSUME AskInv, QuotaInv, NEW r \in Requests, Refuse(r)
  PROVE  QuotaInv'
<1> DEFINE started == WindowStart(now)
           row == CurrentBucket(bucket, started)
           closed == [Idle EXCEPT !.phase = "closed"]
<1>1. /\ bucket' = row \/ bucket' = bucket
      /\ Set(r, closed) /\ stream[r].phase = "idle" /\ UNCHANGED <<now, lease, leaks>>
  BY DEF Refuse, Runs, environment
<1>2. /\ stream'[r].phase = "closed" /\ DOMAIN stream' = Requests
      /\ \A q \in Requests \ {r} : stream'[q] = stream[q]
  BY <1>1, OneMoves, IdleSound DEF AskInv
<1>3. started \in Nat /\ NoWindow \notin Nat /\ started' = started
  BY <1>1, WindowsBegin, NowIsNat, QuotaConstants DEF WindowStart
<1>4. /\ bucket \in RowType /\ lease \in [Requests -> Nat \cup {NoWindow}]
      /\ bucket.started \in Nat \cup {NoWindow}
      /\ bucket.started # NoWindow => bucket.started <= started
      /\ \A q \in Requests :
           /\ lease[q] # NoWindow => bucket.started # NoWindow /\ lease[q] <= bucket.started
           /\ stream[q].phase = "idle" => lease[q] = NoWindow /\ q \notin leaks
           /\ Open(q) => q \notin leaks
      /\ bucket.active = Cardinality(Holders(bucket.started))
  BY HoldersFinite DEF QuotaInv, RowType
<1>5. /\ row \in RowType /\ row.started = started
      /\ bucket.started = started => row = bucket
      /\ bucket.started # started => row.active = 0
  BY <1>3, <1>4, CurrentRow
<1>6. \A q \in Requests : /\ Counts(q)' <=> Counts(q)
                          /\ Open(q)' => q \notin leaks'
                          /\ stream'[q].phase = "idle" =>
                               stream[q].phase = "idle" /\ q \notin leaks'
  BY <1>1, <1>2, <1>4 DEF Open, Counts
<1>7. WindowStart(now)' = started
  BY <1>3
<1> HIDE DEF started, row, closed
<1>8. CASE bucket' = bucket
  <2>1. leaks' \subseteq Requests /\ WindowStart(now) = started
    BY <1>1 DEF QuotaInv, started
  <2>2. QED
    BY <1>1, <1>3, <1>6, <1>7, <1>8, <2>1, QuotaKept
<1>9. CASE bucket' = row /\ bucket.started # started
  <2>1. \A q \in Requests : lease'[q] # started
    BY <1>1, <1>3, <1>4, <1>9
  <2>2. Holders(bucket.started)' = {}
    BY <1>5, <1>9, <2>1 DEF Holders
  <2>3. bucket'.active = Cardinality(Holders(bucket.started)')
    BY <1>5, <1>9, <2>2, FS_EmptySet
  <2>4. LeaseFollowsStream'
    BY <2>3 DEF LeaseFollowsStream, Holders, Counts
  <2>5. leaks' \subseteq Requests
    BY <1>1 DEF QuotaInv
  <2>6. \A q \in Requests :
          lease'[q] # NoWindow => bucket'.started # NoWindow /\ lease'[q] <= bucket'.started
    BY <1>1, <1>3, <1>4, <1>5, <1>9
  <2>7. bucket'.started <= WindowStart(now)'
    BY <1>3, <1>5, <1>7, <1>9
  <2>8. QED
    BY <1>1, <1>4, <1>5, <1>6, <1>9, <2>4, <2>5, <2>6, <2>7 DEF QuotaInv
<1>10. QED
  BY <1>1, <1>5, <1>8, <1>9

\* The end of a stream: the release counts it no more, or it is leaked.
LEMMA EndsQuota ==
  ASSUME AskInv, QuotaInv, NEW r \in Requests, Open(r), NEW accepted,
         Ends(r, accepted), UNCHANGED now
  PROVE  QuotaInv'
<1> DEFINE closed == [Idle EXCEPT !.phase = "closed"]
<1>1. /\ Set(r, closed) /\ UNCHANGED <<lease, now>>
      /\ bucket' = IF accepted THEN Freed(bucket, lease[r]) ELSE bucket
      /\ leaks' = IF accepted THEN leaks ELSE leaks \cup {r}
  BY DEF Ends
<1>2. /\ stream'[r].phase = "closed" /\ DOMAIN stream' = Requests
      /\ \A q \in Requests \ {r} : stream'[q] = stream[q]
  BY <1>1, OneMoves, IdleSound DEF AskInv
<1>3. WindowStart(now) \in Nat /\ NoWindow \notin Nat /\ WindowStart(now)' = WindowStart(now)
  BY <1>1, WindowsBegin, NowIsNat, QuotaConstants DEF WindowStart
<1>4. /\ bucket \in RowType /\ lease \in [Requests -> Nat \cup {NoWindow}]
      /\ bucket.started \in Nat \cup {NoWindow} /\ bucket.active \in Nat
      /\ leaks \subseteq Requests
      /\ bucket.started # NoWindow => bucket.started <= WindowStart(now)
      /\ \A q \in Requests :
           /\ lease[q] # NoWindow => bucket.started # NoWindow /\ lease[q] <= bucket.started
           /\ stream[q].phase = "idle" => lease[q] = NoWindow /\ q \notin leaks
           /\ Open(q) => q \notin leaks
      /\ bucket.active = Cardinality(Holders(bucket.started))
  BY HoldersFinite DEF QuotaInv, RowType
<1>5. Counts(r) /\ ~Open(r)' /\ \A q \in Requests \ {r} : Open(q)' <=> Open(q)
  BY <1>2 DEF Open, Counts
<1> HIDE DEF closed
<1>6. CASE ~accepted
  <2>1. leaks' = leaks \cup {r} /\ UNCHANGED <<bucket, lease>>
    BY <1>1, <1>6
  <2>2. \A q \in Requests :
          /\ Counts(q)' <=> Counts(q)
          /\ Open(q)' => q \notin leaks'
          /\ stream'[q].phase = "idle" => stream[q].phase = "idle" /\ q \notin leaks'
    BY <1>2, <1>4, <1>5, <2>1 DEF Counts
  <2>3. QED
    BY <1>3, <1>4, <2>1, <2>2, QuotaKept
<1>7. CASE accepted
  <2>1. leaks' = leaks /\ bucket' = Freed(bucket, lease[r])
    BY <1>1, <1>7
  <2>2. /\ bucket' \in RowType /\ bucket'.started = bucket.started
        /\ bucket.started = lease[r] /\ bucket.active > 0 => bucket'.active = bucket.active - 1
        /\ bucket.started # lease[r] => bucket'.active = bucket.active
    BY <1>4, <2>1, FreedRow
  <2>3. ~Counts(r)' /\ \A q \in Requests \ {r} : Counts(q)' <=> Counts(q)
    BY <1>4, <1>5, <2>1 DEF Counts
  <2>4. Holders(bucket.started)' = Holders(bucket.started) \ {r}
    BY <1>1, <2>2, <2>3 DEF Holders
  <2>5. bucket'.active = Cardinality(Holders(bucket.started)')
    <3>1. CASE bucket.started = lease[r]
      <4>1. r \in Holders(bucket.started)
        BY <1>5, <3>1 DEF Holders
      <4>2. /\ Cardinality(Holders(bucket.started) \ {r})
                 = Cardinality(Holders(bucket.started)) - 1
            /\ Cardinality(Holders(bucket.started) \ {r}) \in Nat
        BY <4>1, HoldersFinite, FS_RemoveElement, FS_CardinalityType
      <4>3. QED
        BY <1>4, <2>2, <2>4, <3>1, <4>2
    <3>2. CASE bucket.started # lease[r]
      <4>1. Holders(bucket.started) \ {r} = Holders(bucket.started)
        BY <3>2 DEF Holders
      <4>2. QED
        BY <1>4, <2>2, <2>4, <3>2, <4>1
    <3>3. QED
      BY <3>1, <3>2
  <2>6. LeaseFollowsStream'
    BY <2>5 DEF LeaseFollowsStream, Holders, Counts
  <2>7. \A q \in Requests :
          /\ stream'[q].phase = "idle" => lease'[q] = NoWindow /\ q \notin leaks'
          /\ Open(q)' => q \notin leaks'
    BY <1>1, <1>2, <1>4, <1>5, <2>1
  <2>8. QED
    BY <1>1, <1>3, <1>4, <2>1, <2>2, <2>6, <2>7 DEF QuotaInv
<1>8. QED
  BY <1>6, <1>7

\* What the loop does for a request, short of ending its stream, leaves it open.
LEMMA StaysOpen ==
  ASSUME AskInv, NEW r \in Requests, Step(r), ~Finish(r), ~Raises(r)
  PROVE  /\ UNCHANGED <<bucket, lease, leaks, now>> /\ DOMAIN stream' = Requests
         /\ Open(r) /\ Open(r)' /\ stream'[r].phase # "idle"
         /\ \A q \in Requests \ {r} : stream'[q] = stream[q]
<1> DEFINE u == stream[r]
           On(s) == s.phase \notin {"idle", "closed"}
<1>0. StreamSound(u)
  BY DEF AskInv, StreamsSound
<1>1. UNCHANGED <<bucket, lease, leaks, now>>
  BY DEF Step, Begin, RetrievalFails, Retrieve, Attempt, Resume, Delta, ProviderFails,
         ProviderStops, ProviderCompletes, VerifyClaim, Conclude, quota, environment
<1>2. On(u)
  BY DEF Step, Begin, RetrievalFails, Retrieve, Attempt, Resume, Delta, ProviderFails,
         ProviderStops, ProviderCompletes, VerifyClaim, Conclude, Runs
<1>3. \E d : Set(r, d) /\ On(d)
  <2>1. CASE Begin(r)
    BY <2>1, PhaseSound, <1>0 DEF Begin, Runs, StreamSound
  <2>2. CASE RetrievalFails(r) \/ ProviderStops(r)
    <3>1. PICK reason : Set(r, Finals(u, "failed", reason, <<>>, {}))
      BY <2>2 DEF RetrievalFails, ProviderStops
    <3>2. Acceptable("failed", reason, <<>>)
      BY Accepted
    <3>3. QED
      BY <1>0, <3>1, <3>2, FinalsSound
  <2>3. CASE Retrieve(r)
    BY <2>3, RetrieveSound
  <2>4. CASE Attempt(r)
    <3> DEFINE e == [u EXCEPT !.phase = "calling", !.attempt = @ + 1, !.candidate = <<>>]
    <3>1. Set(r, e) \/ Set(r, EvidenceOnly(u, "unavailable"))
      BY <2>4 DEF Attempt
    <3> HIDE DEF u
    <3>2. e.phase = "calling"
      BY <1>0 DEF StreamSound, StreamFields
    <3>3. Acceptable("degraded", "unavailable", <<>>)
      BY Accepted
    <3>4. EvidenceOnly(u, "unavailable").phase = "final"
      BY <1>0, <3>3, FinalsSound DEF EvidenceOnly
    <3>5. QED
      BY <3>1, <3>2, <3>4
  <2>5. CASE Resume(r)
    <3>1. Set(r, [u EXCEPT !.phase = "calling"])
      BY <2>5 DEF Resume
    <3>2. [u EXCEPT !.phase = "calling"].phase = "calling"
      BY <1>0, PhaseSound
    <3>3. QED
      BY <3>1, <3>2
  <2>6. CASE \E word \in Outside.words : Delta(r, word)
    BY <2>6, DeltaSound
  <2>7. ASSUME NEW failure, Fails(r, failure) PROVE \E d : Set(r, d) /\ On(d)
    <3>1. Set(r, AfterFailure(u, failure))
      BY <2>7 DEF Fails
    <3>2. AfterFailure(u, failure).phase \in {"backoff", "final"}
      BY <1>0, AfterFailureSound
    <3>3. QED
      BY <3>1, <3>2
  <2>8. ASSUME NEW reply, ProviderCompletes(r, reply) PROVE \E d : Set(r, d) /\ On(d)
    <3>1. \/ Fails(r, Failure[ParseFailure(reply)])
          \/ Set(r, Drafted(u, reply.claims))
      BY <2>8 DEF ProviderCompletes
    <3>2. Drafted(u, reply.claims).phase \in {"verifying", "final"}
      BY <1>0, DraftedSound
    <3>3. QED
      BY <2>7, <3>1, <3>2
  <2>9. ASSUME NEW up, VerifyClaim(r, up) PROVE \E d : Set(r, d) /\ On(d)
    <3>1. u.phase = "verifying"
          /\ \E failures : Set(r, [u EXCEPT !.checked = @ + 1, !.failures = failures])
      BY <2>9 DEF VerifyClaim, Runs
    <3>2. PICK failures : Set(r, [u EXCEPT !.checked = @ + 1, !.failures = failures])
      BY <3>1
    <3>3. [u EXCEPT !.checked = @ + 1, !.failures = failures].phase = "verifying"
      BY <1>0, <3>1, VerifySound
    <3>4. QED
      BY <3>2, <3>3
  <2>10. CASE Conclude(r)
    BY <2>10, ConcludeSound
  <2>11. QED
    BY <2>1, <2>2, <2>3, <2>4, <2>5, <2>6, <2>7, <2>8, <2>9, <2>10 DEF Step, ProviderFails
<1>4. PICK d : Set(r, d) /\ On(d)
  BY <1>3
<1>5. /\ stream'[r] = d /\ DOMAIN stream' = Requests
      /\ \A q \in Requests \ {r} : stream'[q] = stream[q]
  BY <1>4, OneMoves DEF AskInv
<1>6. QED
  BY <1>1, <1>2, <1>4, <1>5 DEF Open

\* Windows begin later, or stay, as time passes.
LEMMA WindowsMove ==
  ASSUME AskInv, [Next]_vars
  PROVE  /\ WindowStart(now) \in Nat /\ WindowStart(now)' \in Nat
         /\ WindowStart(now) <= WindowStart(now)'
<1>1. now' = now \/ now' = now + 1
  BY DEF Next, Ask, Refuse, Step, Begin, RetrievalFails, Retrieve, Attempt, Resume, Delta,
         ProviderFails, ProviderStops, ProviderCompletes, VerifyClaim, Conclude, Raises, Finish,
         Disconnect, Abandon, Tick, PolicyChange, Crash, environment, vars
<1>2. WindowStart(now)' = WindowStart(now')
  BY DEF WindowStart
<1>3. now \in Nat /\ now + 1 \in Nat
  BY NowIsNat
<1>4. /\ WindowStart(now) \in Nat /\ WindowStart(now + 1) \in Nat
      /\ WindowStart(now) <= WindowStart(now + 1)
  BY <1>3, WindowsBegin
<1>5. QED
  BY <1>1, <1>2, <1>4

\* With the invariant of the streams, that of the quota is inductive.
THEOREM QuotaStepSound == AskInv /\ QuotaInv /\ [Next]_vars => QuotaInv'
<1> SUFFICES ASSUME AskInv, QuotaInv, [Next]_vars PROVE QuotaInv'
  OBVIOUS
<1>1. /\ WindowStart(now) \in Nat /\ WindowStart(now)' \in Nat
      /\ WindowStart(now) <= WindowStart(now)'
  BY WindowsMove
<1>2. /\ leaks \subseteq Requests
      /\ \A r \in Requests : /\ stream[r].phase = "idle" => r \notin leaks
                             /\ Open(r) => r \notin leaks
  BY DEF QuotaInv
<1>3. ASSUME NEW r \in Requests, Ask(r) \/ Refuse(r) \/ Step(r) \/ Disconnect(r) \/ Abandon(r)
      PROVE  QuotaInv'
  <2>1. CASE Ask(r)
    BY <2>1, AskQuota
  <2>2. CASE Refuse(r)
    BY <2>2, RefuseQuota
  <2>3. CASE Finish(r) \/ Disconnect(r) \/ Raises(r)
    <3>1. Open(r) /\ UNCHANGED now /\ \E accepted \in Outside.releases : Ends(r, accepted)
      BY <2>3 DEF Finish, Disconnect, Raises, Runs, Open, Suspended, environment
    <3>2. PICK accepted \in Outside.releases : Ends(r, accepted)
      BY <3>1
    <3>3. QED
      BY <3>1, <3>2, EndsQuota
  <2>4. CASE Abandon(r)
    <3>1. /\ Set(r, [Idle EXCEPT !.phase = "closed"]) /\ Open(r)
          /\ leaks' = leaks \cup {r} /\ UNCHANGED <<bucket, lease>>
      BY <2>4 DEF Abandon, Runs, Open
    <3>2. /\ stream'[r].phase = "closed" /\ DOMAIN stream' = Requests
          /\ \A q \in Requests \ {r} : stream'[q] = stream[q]
      BY <3>1, OneMoves, IdleSound DEF AskInv
    <3>3. Counts(r) /\ ~Open(r)' /\ \A q \in Requests \ {r} : Open(q)' <=> Open(q)
      BY <3>1, <3>2 DEF Open, Counts
    <3>4. \A q \in Requests :
            /\ Counts(q)' <=> Counts(q)
            /\ Open(q)' => q \notin leaks'
            /\ stream'[q].phase = "idle" => stream[q].phase = "idle" /\ q \notin leaks'
      BY <1>2, <3>1, <3>2, <3>3 DEF Counts
    <3>5. QED
      BY <1>1, <1>2, <3>1, <3>4, QuotaKept
  <2>5. CASE Step(r) /\ ~Finish(r) /\ ~Raises(r)
    <3>1. /\ UNCHANGED <<bucket, lease, leaks, now>> /\ DOMAIN stream' = Requests
          /\ Open(r) /\ Open(r)' /\ stream'[r].phase # "idle"
          /\ \A q \in Requests \ {r} : stream'[q] = stream[q]
      BY <2>5, StaysOpen
    <3>2. \A q \in Requests : Open(q)' <=> Open(q)
      BY <3>1 DEF Open
    <3>3. \A q \in Requests :
            /\ Counts(q)' <=> Counts(q)
            /\ Open(q)' => q \notin leaks'
            /\ stream'[q].phase = "idle" => stream[q].phase = "idle" /\ q \notin leaks'
      BY <1>2, <3>1, <3>2 DEF Counts
    <3>4. QED
      BY <1>1, <1>2, <3>1, <3>3, QuotaKept
  <2>6. QED
    BY <1>3, <2>1, <2>2, <2>3, <2>4, <2>5
<1>4. CASE Crash
  <2> DEFINE over == [Idle EXCEPT !.phase = "closed"]
  <2>1. /\ stream' = [r \in Requests |-> IF Open(r) THEN over ELSE stream[r]]
        /\ leaks' = leaks \cup {r \in Requests : Open(r)} /\ UNCHANGED <<bucket, lease>>
    BY <1>4 DEF Crash
  <2>2. over.phase = "closed"
    BY IdleSound
  <2> HIDE DEF over
  <2>3. \A r \in Requests :
          /\ Counts(r)' <=> Counts(r)
          /\ Open(r)' => r \notin leaks'
          /\ stream'[r].phase = "idle" => stream[r].phase = "idle" /\ r \notin leaks'
    BY <1>2, <2>1, <2>2 DEF Counts, Open
  <2>4. leaks' \subseteq Requests
    BY <1>2, <2>1
  <2>5. QED
    BY <1>1, <2>1, <2>3, <2>4, QuotaKept
<1>5. CASE Tick \/ PolicyChange \/ UNCHANGED vars
  <2>1. UNCHANGED <<stream, bucket, lease, leaks>>
    BY <1>5 DEF Tick, PolicyChange, vars, quota
  <2>2. \A r \in Requests :
          /\ Counts(r)' <=> Counts(r)
          /\ Open(r)' => r \notin leaks'
          /\ stream'[r].phase = "idle" => stream[r].phase = "idle" /\ r \notin leaks'
    BY <1>2, <2>1 DEF Counts, Open
  <2>3. QED
    BY <1>1, <1>2, <2>1, <2>2, QuotaKept
<1>6. QED
  BY <1>3, <1>4, <1>5 DEF Next

\* Every reachable state satisfies it.
THEOREM QuotaSafety == Spec => []QuotaInv
<1>1. QED
  BY QuotaInit, AskSafety, QuotaStepSound, PTL DEF Spec

\* The row counts as active the streams that are open and the leases that were
\* lost with a client, a process or a failed release, and no others: whatever
\* the limits, the window, and the windows in which streams begin and end.
THEOREM LeasesFollow == Spec => []LeaseFollowsStream
<1>1. QuotaInv => LeaseFollowsStream
  BY DEF QuotaInv
<1>2. QED
  BY <1>1, QuotaSafety, PTL

\* Types, and with them what the answer's constructor insists on and the bound
\* on the attempts of one request.
THEOREM AskTypeCorrect == Spec => []TypeOK
<1>1. ASSUME AskInv, QuotaInv PROVE TypeOK
  <2>1. /\ world \in DOMAIN Worlds /\ now \in 0..Outside.maxTime
        /\ probe \in Requests \cup {None}
    BY <1>1 DEF AskInv, ClockSound, ProbeSound
  <2>2. \A r \in Requests :
          /\ stream[r].phase \in {"idle", "opened", "closed"} \cup Suspended \cup Blocking
          /\ stream[r].attempt \in 0..MaxAttempts
          /\ stream[r].final.status \in {"none", "failed", "degraded", "abstained", "verified"}
          /\ WellFormedAnswer(stream[r].final)
    BY <1>1 DEF AskInv, StreamsSound, StreamSound, Phases
  <2>3. /\ breaker.state \in {"closed", "open", "half_open"} /\ breaker.failures \in Nat
        /\ (breaker.state = "open") => (breaker.openedAt # None)
        /\ breaker.openedAt \in Nat \cup {None} /\ outage \in Nat \cup {None}
        /\ breaker.openedAt # None => breaker.openedAt <= now
        /\ outage # None => outage <= now
    BY <1>1 DEF AskInv, BreakerSound
  <2>4. /\ breaker.openedAt \in 0..Outside.maxTime \cup {None}
        /\ outage \in 0..Outside.maxTime \cup {None}
    BY <1>1, <2>3, NowIsNat
  <2>5. /\ bucket.started \in Nat \cup {NoWindow} /\ lease \in [Requests -> Nat \cup {NoWindow}]
        /\ bucket.started # NoWindow => bucket.started <= WindowStart(now)
        /\ bucket.requests \in 0..MaxRequests /\ bucket.active \in 0..MaxConcurrent
        /\ leaks \subseteq Requests
        /\ \A r \in Requests : lease[r] # NoWindow =>
             bucket.started # NoWindow /\ lease[r] <= bucket.started
    BY <1>1 DEF QuotaInv, RowType
  <2>6. now \in Nat /\ WindowStart(now) \in Nat /\ WindowStart(now) <= now
    BY <1>1, NowIsNat, WindowsBegin
  <2>7. bucket.started \in {NoWindow} \cup 0..now
    BY <2>5, <2>6
  <2>8. \A r \in Requests : lease[r] \in {NoWindow} \cup 0..now
    BY <2>5, <2>6
  <2>9. QED
    BY <2>1, <2>2, <2>3, <2>4, <2>5, <2>7, <2>8 DEF TypeOK
<1>2. QED
  BY <1>1, AskSafety, QuotaSafety, PTL

-----------------------------------------------------------------------------
(* The breaker, and what was shown when a call begins.                     *)

\* A half-open circuit has its probe in the provider, or its client has left.
THEOREM ProbesAccounted == Spec => []ProbeAccounted
<1>1. AskInv => ProbeAccounted
  BY DEF AskInv
<1>2. QED
  BY <1>1, AskSafety, PTL

\* An attempt is counted where the breaker admits the call, and nowhere else.
LEMMA AttemptsAdmitted ==
  ASSUME AskInv, [Next]_vars, NEW r \in Requests, stream'[r].attempt > stream[r].attempt
  PROVE  /\ Acquires(breaker, now)
         /\ stream[r].phase \in {"generating", "backoff"} /\ stream[r].released = <<>>
<1>0. StreamSound(stream[r]) /\ stream[r].attempt \in Nat /\ ~(0 > stream[r].attempt)
  BY Constants DEF AskInv, StreamsSound, StreamSound
<1>1. stream' # stream
  BY <1>0
<1>2. ~Crash
  <2> SUFFICES ASSUME Crash PROVE FALSE
    OBVIOUS
  <2> DEFINE over == [Idle EXCEPT !.phase = "closed"]
  <2>1. stream' = [q \in Requests |-> IF Open(q) THEN over ELSE stream[q]]
    BY DEF Crash
  <2>2. over.attempt = 0
    BY IdleSound
  <2> HIDE DEF over
  <2>3. QED
    BY <1>0, <2>1, <2>2
<1>3. PICK q \in Requests : Ask(q) \/ Refuse(q) \/ Step(q) \/ Disconnect(q) \/ Abandon(q)
  BY <1>1, <1>2 DEF Next, vars, Tick, PolicyChange
<1>4. ASSUME NEW s, Set(q, s) PROVE q = r /\ s.attempt > stream[r].attempt
  <2>1. stream'[q] = s /\ \A x \in Requests \ {q} : stream'[x] = stream[x]
    BY <1>4, OneMoves DEF AskInv
  <2>2. QED
    BY <1>0, <2>1
<1>5. StreamSound(stream[q])
  BY DEF AskInv, StreamsSound
<1>6. CASE Attempt(q)
  <2>1. q = r
    <3>1. \E s : Set(q, s)
      BY <1>6 DEF Attempt
    <3>2. QED
      BY <1>4, <3>1
  <2>2. stream[r].phase \in {"generating", "backoff"} /\ stream[r].released = <<>>
    BY <1>0, <1>6, <2>1 DEF Attempt, StreamSound
  <2>3. ASSUME ~Acquires(breaker, now) PROVE FALSE
    <3>1. Set(q, EvidenceOnly(stream[q], "unavailable"))
      BY <1>6, <2>3 DEF Attempt
    <3>2. Acceptable("degraded", "unavailable", <<>>)
      BY Accepted
    <3>3. EvidenceOnly(stream[q], "unavailable").attempt = stream[q].attempt
      BY <1>5, <3>2, FinalsSound DEF EvidenceOnly
    <3>4. QED
      BY <1>0, <1>4, <3>1, <3>3
  <2>4. QED
    BY <2>2, <2>3
<1>7. CASE Ask(q) \/ Refuse(q) \/ Finish(q) \/ Raises(q) \/ Disconnect(q) \/ Abandon(q)
  <2>1. \E p \in {"opened", "closed"} : Set(q, [Idle EXCEPT !.phase = p])
    BY <1>7 DEF Ask, Refuse, Finish, Raises, Disconnect, Abandon, Ends
  <2>2. QED
    BY <1>0, <1>4, <2>1, IdleSound
<1>8. CASE Begin(q)
  <2>1. /\ Set(q, [stream[q] EXCEPT !.phase = "retrieving"])
        /\ stream[q].attempt = 0 /\ stream[q].released = <<>>
    BY <1>5, <1>8 DEF Begin, Runs, StreamSound
  <2>2. QED
    BY <1>0, <1>4, <1>5, <2>1, PhaseSound
<1>9. CASE RetrievalFails(q) \/ ProviderStops(q)
  <2>1. PICK reason : Set(q, Finals(stream[q], "failed", reason, <<>>, {}))
    BY <1>9 DEF RetrievalFails, ProviderStops
  <2>2. Acceptable("failed", reason, <<>>)
    BY Accepted
  <2>3. Finals(stream[q], "failed", reason, <<>>, {}).attempt = stream[q].attempt
    BY <1>5, <2>2, FinalsSound
  <2>4. QED
    BY <1>0, <1>4, <2>1, <2>3
<1>10. CASE Retrieve(q)
  BY <1>0, <1>4, <1>10, RetrieveSound
<1>11. CASE Resume(q)
  <2> DEFINE s == [stream[q] EXCEPT !.phase = "calling"]
  <2>1. Set(q, s)
    BY <1>11 DEF Resume
  <2>2. s.attempt = stream[q].attempt
    BY <1>5, PhaseSound
  <2> HIDE DEF s
  <2>3. QED
    BY <1>0, <1>4, <2>1, <2>2
<1>12. ASSUME NEW word, Delta(q, word) PROVE FALSE
  BY <1>0, <1>4, <1>12, DeltaSound
<1>13. ASSUME NEW failure, Fails(q, failure) PROVE FALSE
  BY <1>0, <1>4, <1>5, <1>13, AfterFailureSound DEF Fails
<1>14. ASSUME NEW reply, ProviderCompletes(q, reply) PROVE FALSE
  <2>1. \/ Fails(q, Failure[ParseFailure(reply)])
        \/ Set(q, Drafted(stream[q], reply.claims))
    BY <1>14 DEF ProviderCompletes
  <2>2. QED
    BY <1>0, <1>4, <1>5, <1>13, <2>1, DraftedSound
<1>15. ASSUME NEW up, VerifyClaim(q, up) PROVE FALSE
  <2>1. /\ stream[q].phase = "verifying"
        /\ \E failures : Set(q, [stream[q] EXCEPT !.checked = @ + 1, !.failures = failures])
    BY <1>15 DEF VerifyClaim, Runs
  <2>2. PICK failures : Set(q, [stream[q] EXCEPT !.checked = @ + 1, !.failures = failures])
    BY <2>1
  <2> DEFINE s == [stream[q] EXCEPT !.checked = @ + 1, !.failures = failures]
  <2>3. s.attempt = stream[q].attempt
    BY <1>5, <2>1, VerifySound
  <2> HIDE DEF s
  <2>4. q = r /\ s.attempt > stream[r].attempt
    BY <1>4, <2>2 DEF s
  <2>5. QED
    BY <1>0, <2>3, <2>4
<1>16. CASE Conclude(q)
  BY <1>0, <1>4, <1>16, ConcludeSound
<1>17. QED
  BY <1>3, <1>6, <1>7, <1>8, <1>9, <1>10, <1>11, <1>12, <1>13, <1>14, <1>15, <1>16
     DEF Step, ProviderFails

\* A call to the provider begins only when the recovery timeout of the last
\* failure that left the circuit open is over, or a call has succeeded since.
THEOREM CallsWait == Spec => CallsWaitOut
<1>1. ASSUME AskInv, [Next]_vars, NEW r \in Requests,
             stream'[r].attempt > stream[r].attempt
      PROVE  outage = None \/ now - outage >= RecoveryTimeout
  BY <1>1, AttemptsAdmitted DEF AskInv, BreakerSound, Acquires
<1>2. AskInv /\ [Next]_vars =>
        [\A r \in Requests :
           (stream[r].phase # "calling" /\ stream'[r].attempt > stream[r].attempt)
             => (outage = None \/ now - outage >= RecoveryTimeout)]_vars
  BY <1>1
<1>3. QED
  BY <1>2, AskSafety, PTL DEF Spec, CallsWaitOut

\* No call begins in a request whose client was already shown text: every text
\* that is shown comes from one attempt.
RetriesAreSilent ==
  [][\A r \in Requests : stream'[r].attempt > stream[r].attempt => stream[r].released = <<>>]_vars

\* A call whose text was shown is never retried, so texts of two attempts do not mix.
THEOREM RetriesSilent == Spec => RetriesAreSilent
<1>1. AskInv /\ [Next]_vars =>
        [\A r \in Requests :
           stream'[r].attempt > stream[r].attempt => stream[r].released = <<>>]_vars
  BY AttemptsAdmitted
<1>2. QED
  BY <1>1, AskSafety, PTL DEF Spec, RetriesAreSilent

-----------------------------------------------------------------------------
(* The packed context: every item once, in round robin, as far as it fits. *)

\* The first items of their identity: each identity there is, and each once.
LEMMA DeduplicateFacts ==
  ASSUME NEW S, NEW evidence \in Seq(S)
  PROVE  LET unique == Deduplicate(evidence)
         IN  /\ unique \in Seq(S)
             /\ \A m, n \in DOMAIN unique : Identity(unique[m]) = Identity(unique[n]) => m = n
             /\ \A n \in DOMAIN unique : \E k \in DOMAIN evidence : unique[n] = evidence[k]
             /\ \A k \in DOMAIN evidence :
                  \E n \in DOMAIN unique : Identity(unique[n]) = Identity(evidence[k])
<1> DEFINE Id(n) == Identity(evidence[n])
           places == {n \in DOMAIN evidence : \A k \in 1..(n - 1) : Id(k) # Id(n)}
           unique == Selected(evidence, places)
           size == Cardinality(places)
<1>1. DOMAIN evidence = 1..Len(evidence) /\ Len(evidence) \in Nat
  OBVIOUS
<1>2. \A m, n \in places : Id(m) = Id(n) => m = n
  <2> SUFFICES ASSUME NEW m \in places, NEW n \in places, Id(m) = Id(n), m < n PROVE FALSE
    BY <1>1
  <2>1. m \in 1..(n - 1)
    BY <1>1
  <2>2. QED
    BY <2>1
<1>3. \A k \in DOMAIN evidence : \E n \in places : Id(n) = Id(k)
  <2> SUFFICES ASSUME NEW k \in DOMAIN evidence PROVE \E n \in places : Id(n) = Id(k)
    OBVIOUS
  <2> DEFINE T == {j \in DOMAIN evidence : Id(j) = Id(k)}
  <2>1. T \subseteq Nat /\ T # {}
    BY <1>1
  <2>2. PICK n \in T : \A m \in T : n <= m
    BY <2>1, LeastNat
  <2>3. \A j \in 1..(n - 1) : j \in DOMAIN evidence /\ ~(n <= j)
    BY <1>1, <2>2
  <2>4. \A j \in 1..(n - 1) : Id(j) # Id(n)
    BY <2>2, <2>3
  <2>5. QED
    BY <2>2, <2>4
<1>4. places \in SUBSET DOMAIN evidence
  OBVIOUS
<1>5. unique = Deduplicate(evidence)
  BY DEF Deduplicate
<1> HIDE DEF places
<1>6. /\ unique \in Seq(S) /\ Len(unique) = size /\ size \in 0..Len(evidence)
      /\ \E at \in [1..size -> places] :
           /\ \A n \in 1..size : unique[n] = evidence[at[n]]
           /\ \A p \in places : \E n \in 1..size : at[n] = p
           /\ \A m, n \in 1..size : m < n <=> at[m] < at[n]
  BY <1>4, SelectedFacts
<1>7. PICK at \in [1..size -> places] :
        /\ \A n \in 1..size : unique[n] = evidence[at[n]]
        /\ \A p \in places : \E n \in 1..size : at[n] = p
        /\ \A m, n \in 1..size : m < n <=> at[m] < at[n]
  BY <1>6
<1> HIDE DEF unique, size
<1>8. DOMAIN unique = 1..size /\ size \in Nat /\ \A n \in 1..size : at[n] \in places
  BY <1>6
<1>9. \A n \in DOMAIN unique : at[n] \in DOMAIN evidence /\ unique[n] = evidence[at[n]]
  BY <1>4, <1>7, <1>8
<1>10. ASSUME NEW m \in DOMAIN unique, NEW n \in DOMAIN unique,
              Identity(unique[m]) = Identity(unique[n])
       PROVE  m = n
  <2>1. at[m] = at[n]
    BY <1>2, <1>8, <1>9, <1>10
  <2>2. at[m] \in Int /\ at[n] \in Int /\ m \in Int /\ n \in Int
    BY <1>1, <1>8, <1>9
  <2>3. ~(m < n) /\ ~(n < m)
    BY <1>7, <1>8, <2>1, <2>2
  <2>4. QED
    BY <2>2, <2>3
<1>11. ASSUME NEW k \in DOMAIN evidence
       PROVE  \E n \in DOMAIN unique : Identity(unique[n]) = Identity(evidence[k])
  <2>1. PICK p \in places : Id(p) = Id(k)
    BY <1>3
  <2>2. PICK n \in 1..size : at[n] = p
    BY <1>7
  <2>3. QED
    BY <1>8, <1>9, <2>1, <2>2
<1>12. QED
  BY <1>5, <1>6, <1>9, <1>10, <1>11

\* The items of one source are in rounds of their own, in their order, after one leader.
LEMMA RoundsFacts ==
  ASSUME NEW S, NEW evidence \in Seq(S), NEW i \in DOMAIN evidence
  PROVE  /\ Cardinality(Earlier(evidence, i)) \in Nat
         /\ Leader(evidence, i) \in DOMAIN evidence
         /\ evidence[Leader(evidence, i)].source = evidence[i].source
         /\ \A k \in DOMAIN evidence :
              i < k /\ evidence[i].source = evidence[k].source =>
                Cardinality(Earlier(evidence, i)) < Cardinality(Earlier(evidence, k))
<1>1. DOMAIN evidence = 1..Len(evidence) /\ Len(evidence) \in Nat /\ i \in Nat
  OBVIOUS
<1>2. ASSUME NEW k \in DOMAIN evidence
      PROVE  IsFiniteSet(Earlier(evidence, k)) /\ Cardinality(Earlier(evidence, k)) \in Nat
  <2>1. k - 1 \in Int /\ 1 \in Int
    BY <1>1
  <2>2. IsFiniteSet(1..(k - 1))
    BY <2>1, FS_Interval
  <2>3. Earlier(evidence, k) \in SUBSET (1..(k - 1))
    BY DEF Earlier
  <2>4. QED
    BY <2>2, <2>3, FS_Subset, FS_CardinalityType
<1>3. Leader(evidence, i) \in Earlier(evidence, i) \cup {i}
  <2> DEFINE T == Earlier(evidence, i) \cup {i}
  <2>1. T \subseteq Nat /\ T # {}
    BY <1>1 DEF Earlier
  <2>2. PICK n \in T : \A m \in T : n <= m
    BY <2>1, LeastNat
  <2>3. Earlier(evidence, n) = {}
    <3> SUFFICES ASSUME NEW j \in Earlier(evidence, n) PROVE FALSE
      OBVIOUS
    <3>1. n \in 1..i /\ evidence[n].source = evidence[i].source
      BY <1>1 DEF Earlier
    <3>2. j \in 1..(n - 1) /\ evidence[j].source = evidence[i].source
      BY <3>1 DEF Earlier
    <3>3. j \in 1..(i - 1) /\ ~(n <= j)
      BY <1>1, <3>1, <3>2
    <3>4. j \in T
      BY <3>2, <3>3 DEF Earlier
    <3>5. QED
      BY <2>2, <3>3, <3>4
  <2>4. QED
    BY <2>3 DEF Leader
<1>4. /\ Leader(evidence, i) \in DOMAIN evidence
      /\ evidence[Leader(evidence, i)].source = evidence[i].source
  BY <1>1, <1>3 DEF Earlier
<1>5. ASSUME NEW k \in DOMAIN evidence, i < k, evidence[i].source = evidence[k].source
      PROVE  Cardinality(Earlier(evidence, i)) < Cardinality(Earlier(evidence, k))
  <2>1. /\ Earlier(evidence, i) \in SUBSET Earlier(evidence, k)
        /\ i \in Earlier(evidence, k) /\ i \notin Earlier(evidence, i)
    BY <1>1, <1>5 DEF Earlier
  <2>2. /\ Cardinality(Earlier(evidence, i)) <= Cardinality(Earlier(evidence, k))
        /\ Cardinality(Earlier(evidence, i)) # Cardinality(Earlier(evidence, k))
    BY <1>2, <2>1, FS_Subset
  <2>3. QED
    BY <1>2, <2>2
<1>6. QED
  BY <1>2, <1>4, <1>5

\* So round robin is an order in which any two items compare.
LEMMA RoundRobinOrders ==
  ASSUME NEW S, NEW evidence \in Seq(S)
  PROVE  StrictTotalOrder(RoundRobin(evidence), DOMAIN evidence)
<1> DEFINE places == DOMAIN evidence
           round == [i \in places |-> Cardinality(Earlier(evidence, i))]
           leader == [i \in places |-> Leader(evidence, i)]
           robin == RoundRobin(evidence)
<1>1. places = 1..Len(evidence) /\ Len(evidence) \in Nat
  OBVIOUS
<1>2. \A i, k \in places :
        <<i, k>> \in robin <=>
          (round[i] < round[k] \/ (round[i] = round[k] /\ leader[i] < leader[k]))
  <2> SUFFICES ASSUME NEW i \in places, NEW k \in places
               PROVE  <<i, k>> \in robin <=>
          (round[i] < round[k] \/ (round[i] = round[k] /\ leader[i] < leader[k]))
    OBVIOUS
  <2>1. /\ round[i] = Cardinality(Earlier(evidence, i)) /\ leader[i] = Leader(evidence, i)
        /\ round[k] = Cardinality(Earlier(evidence, k)) /\ leader[k] = Leader(evidence, k)
    OBVIOUS
  <2> HIDE DEF round, leader
  <2> DEFINE pair == <<i, k>>
  <2>2. pair \in places \X places /\ pair[1] = i /\ pair[2] = k
    OBVIOUS
  <2> HIDE DEF pair
  <2>3. pair \in robin <=>
          \/ Cardinality(Earlier(evidence, pair[1])) < Cardinality(Earlier(evidence, pair[2]))
          \/ /\ Cardinality(Earlier(evidence, pair[1])) = Cardinality(Earlier(evidence, pair[2]))
             /\ Leader(evidence, pair[1]) < Leader(evidence, pair[2])
    BY <2>2, Zenon DEF RoundRobin
  <2> HIDE DEF robin
  <2>4. pair \in robin <=>
          (round[i] < round[k] \/ (round[i] = round[k] /\ leader[i] < leader[k]))
    BY <2>1, <2>2, <2>3
  <2>5. QED
    BY <2>4 DEF pair
<1>3. \A i \in places :
        /\ round[i] \in Nat /\ leader[i] \in places
        /\ evidence[leader[i]].source = evidence[i].source
        /\ \A k \in places :
             i < k /\ evidence[i].source = evidence[k].source => round[i] < round[k]
  BY RoundsFacts
<1> HIDE DEF robin, round, leader
<1>4. ASSUME NEW i \in places, NEW k \in places, round[i] = round[k], leader[i] = leader[k]
      PROVE  i = k
  <2>1. evidence[i].source = evidence[k].source
    BY <1>3, <1>4
  <2>2. ~(i < k) /\ ~(k < i)
    BY <1>3, <1>4, <2>1
  <2>3. QED
    BY <1>1, <2>2
<1>5. \A i \in places : round[i] \in Nat /\ leader[i] \in Nat
  BY <1>1, <1>3
<1>6. \A i \in places : <<i, i>> \notin robin
  BY <1>2, <1>5
<1>7. \A i, k \in places : i # k => <<i, k>> \in robin \/ <<k, i>> \in robin
  BY <1>2, <1>4, <1>5
<1>8. \A i, k, l \in places : <<i, k>> \in robin /\ <<k, l>> \in robin => <<i, l>> \in robin
  <2> SUFFICES ASSUME NEW i \in places, NEW k \in places, NEW l \in places,
                      <<i, k>> \in robin, <<k, l>> \in robin
               PROVE  <<i, l>> \in robin
    BY Zenon
  <2>1. /\ {round[i], round[k], round[l], leader[i], leader[k], leader[l]} \subseteq Nat
        /\ round[i] < round[k] \/ (round[i] = round[k] /\ leader[i] < leader[k])
        /\ round[k] < round[l] \/ (round[k] = round[l] /\ leader[k] < leader[l])
    BY <1>2, <1>5
  <2>2. round[i] < round[l] \/ (round[i] = round[l] /\ leader[i] < leader[l])
    BY <2>1
  <2>3. QED
    BY <1>2, <2>2
<1>9. StrictTotalOrder(robin, places)
  BY <1>6, <1>7, <1>8 DEF StrictTotalOrder
<1>10. QED
  BY <1>9 DEF robin

\* Round robin loses nothing and repeats nothing.
LEMMA DiverseFacts ==
  ASSUME NEW S, NEW evidence \in Seq(S)
  PROVE  LET order == DiverseOrder(evidence)
         IN  /\ order \in Seq(S) /\ Len(order) = Len(evidence)
             /\ \E at \in [DOMAIN evidence -> DOMAIN evidence] :
                  /\ \A n \in DOMAIN evidence : order[n] = evidence[at[n]]
                  /\ \A k \in DOMAIN evidence : \E n \in DOMAIN evidence : at[n] = k
                  /\ \A m, n \in DOMAIN evidence : at[m] = at[n] => m = n
<1> DEFINE places == DOMAIN evidence
           robin == RoundRobin(evidence)
           at == Sorted(places, robin)
           size == Len(evidence)
           order == [n \in places |-> evidence[at[n]]]
<1>1. places = 1..size /\ size \in Nat
  OBVIOUS
<1>2. IsFiniteSet(places) /\ Cardinality(places) = size
  <2>1. IsFiniteSet(1..size) /\ Cardinality(1..size) = IF 1 > size THEN 0 ELSE size - 1 + 1
    BY <1>1, FS_Interval
  <2>2. QED
    BY <1>1, <2>1
<1>3. StrictTotalOrder(robin, places)
  BY RoundRobinOrders
<1> HIDE DEF robin
<1>4. /\ at \in [1..Cardinality(places) -> places]
      /\ \A x \in places : \E n \in 1..Cardinality(places) : at[n] = x
      /\ \A m, n \in 1..Cardinality(places) : m < n <=> <<at[m], at[n]>> \in robin
  BY <1>2, <1>3, SortedFacts
<1>5. /\ at \in [places -> places]
      /\ \A x \in places : \E n \in places : at[n] = x
      /\ \A m, n \in places : m < n <=> <<at[m], at[n]>> \in robin
  BY <1>1, <1>2, <1>4
<1>6. DiverseOrder(evidence) = order
  BY DEF DiverseOrder, robin
<1> HIDE DEF at
<1>7. ASSUME NEW m \in places, NEW n \in places, at[m] = at[n] PROVE m = n
  <2>1. <<at[m], at[n]>> \notin robin /\ <<at[n], at[m]>> \notin robin
    BY <1>3, <1>5, <1>7 DEF StrictTotalOrder
  <2>2. ~(m < n) /\ ~(n < m)
    BY <1>5, <2>1
  <2>3. QED
    BY <1>1, <2>2
<1>8. order \in Seq(S) /\ Len(order) = size /\ \A n \in places : order[n] = evidence[at[n]]
  <2>1. \A n \in places : evidence[at[n]] \in S
    BY <1>5
  <2>2. QED
    BY <1>1, <2>1
<1> HIDE DEF order
<1>9. QED
  BY <1>5, <1>6, <1>7, <1>8

\* What the spending of the context is, item by item: never more than the budget, and
\* never taken back.
LEMMA SpentFacts ==
  ASSUME NEW S, NEW order \in Seq(S), \A i \in S : Len(i.text) \in Nat
  PROVE  LET spent == Spent(order)
         IN  /\ spent \in [0..Len(order) -> 0..ContextTokens]
             /\ \A m, n \in 0..Len(order) : m <= n => spent[m] <= spent[n]
             /\ \A n \in 1..Len(order) :
                  Fits(order[n], spent[n - 1]) \/ spent[n] = spent[n - 1]
<1> DEFINE size == Len(order)
           need == [n \in 1..size |-> Len(order[n].text)]
           step == [p \in (1..size) \X Nat |->
                      p[2] + IF need[p[1]] <= ContextTokens - p[2] THEN need[p[1]] ELSE 0]
           spent == Spent(order)
<1>1. size \in Nat /\ need \in [1..size -> Nat] /\ ContextTokens \in Nat
  BY GroundingAssumption
<1>2. \A n \in 1..size : need[n] = Len(order[n].text)
  OBVIOUS
<1> HIDE DEF need
<1>3. step \in [(1..size) \X Nat -> Nat]
  BY <1>1
<1>4. \A n \in 1..size : \A t \in Nat :
        step[n, t] = t + IF need[n] <= ContextTokens - t THEN need[n] ELSE 0
  OBVIOUS
<1> HIDE DEF step
<1>5. PICK f \in [0..size -> Nat] : Accumulates(f, 0, step, size)
  BY <1>1, <1>3, Accumulated
<1>6. \A n \in 1..size : n \in 0..size /\ n # 0 /\ n - 1 \in 0..size /\ f[n - 1] \in Nat
  BY <1>1
<1>7. f[0] = 0 /\ \A n \in 1..size : f[n] = step[n, f[n - 1]]
  <2>1. 0 \in 0..size
    BY <1>1
  <2>2. f[0] = 0
    BY <1>5, <2>1 DEF Accumulates
  <2>3. ASSUME NEW n \in 1..size PROVE f[n] = step[n, f[n - 1]]
    <3>1. n \in 0..size /\ n # 0
      BY <1>6
    <3>2. f[n] = IF n = 0 THEN 0 ELSE step[n, f[n - 1]]
      BY <1>5, <3>1, Zenon DEF Accumulates
    <3>3. QED
      BY <3>1, <3>2
  <2>4. QED
    BY <2>2, <2>3
<1>8. \A n \in 1..size :
        f[n] = f[n - 1] + IF Fits(order[n], f[n - 1]) THEN Len(order[n].text) ELSE 0
  BY <1>2, <1>4, <1>6, <1>7 DEF Fits
<1>9. f = [n \in 0..size |->
             IF n = 0 THEN 0
             ELSE f[n - 1] + IF Fits(order[n], f[n - 1]) THEN Len(order[n].text) ELSE 0]
  <2> DEFINE g == [n \in 0..size |->
             IF n = 0 THEN 0
             ELSE f[n - 1] + IF Fits(order[n], f[n - 1]) THEN Len(order[n].text) ELSE 0]
  <2>1. \A n \in 0..size : n = 0 \/ n \in 1..size
    BY <1>1
  <2>2. \A n \in 0..size : f[n] = g[n]
    BY <1>7, <1>8, <2>1
  <2>3. DOMAIN f = 0..size /\ DOMAIN g = 0..size
    BY <1>5
  <2>4. QED
    BY <1>5, <2>2, <2>3
<1>10. spent = CHOOSE g : g = [n \in 0..size |->
             IF n = 0 THEN 0
             ELSE g[n - 1] + IF Fits(order[n], g[n - 1]) THEN Len(order[n].text) ELSE 0]
  BY DEF Spent
<1>11. spent = [n \in 0..size |->
             IF n = 0 THEN 0
             ELSE spent[n - 1] + IF Fits(order[n], spent[n - 1]) THEN Len(order[n].text) ELSE 0]
  BY <1>9, <1>10, Zenon
<1> HIDE DEF spent
<1>12. \A n \in 1..size : order[n] \in S /\ Len(order[n].text) \in Nat
  OBVIOUS
<1>13. /\ DOMAIN spent = 0..size /\ spent[0] = 0
       /\ \A n \in 1..size :
            spent[n] = spent[n - 1] + IF Fits(order[n], spent[n - 1]) THEN Len(order[n].text) ELSE 0
  <2>1. DOMAIN spent = 0..size
    BY <1>11
  <2>2. 0 \in 0..size
    BY <1>1
  <2>3. spent[0] = 0
    BY <1>11, <2>2
  <2>4. ASSUME NEW n \in 1..size
        PROVE  spent[n] = spent[n - 1] + IF Fits(order[n], spent[n - 1])
                                         THEN Len(order[n].text) ELSE 0
    BY <1>6, <1>11
  <2>5. QED
    BY <2>1, <2>3, <2>4
<1>14. ASSUME NEW n \in 1..size, spent[n - 1] \in 0..ContextTokens
       PROVE  spent[n] \in 0..ContextTokens /\ spent[n - 1] <= spent[n]
  <2>1. CASE Fits(order[n], spent[n - 1])
    <3>1. /\ spent[n] = spent[n - 1] + Len(order[n].text)
          /\ Len(order[n].text) <= ContextTokens - spent[n - 1]
      BY <1>13, <2>1 DEF Fits
    <3>2. QED
      BY <1>1, <1>12, <1>14, <3>1
  <2>2. CASE ~Fits(order[n], spent[n - 1])
    <3>1. spent[n] = spent[n - 1] + 0
      BY <1>13, <2>2
    <3>2. QED
      BY <1>1, <1>14, <3>1
  <2>3. QED
    BY <2>1, <2>2
<1>15. \A n \in 0..size : spent[n] \in 0..ContextTokens
  <2> DEFINE T == {n \in 0..size : spent[n] \notin 0..ContextTokens}
  <2> SUFFICES ASSUME T # {} PROVE FALSE
    OBVIOUS
  <2>1. T \subseteq Nat
    OBVIOUS
  <2>2. PICK n \in T : \A m \in T : n <= m
    BY <2>1, LeastNat
  <2>3. n \in 1..size /\ n - 1 \in 0..size /\ ~(n <= n - 1)
    BY <1>1, <1>13, <2>2
  <2>4. spent[n - 1] \in 0..ContextTokens
    BY <2>2, <2>3
  <2>5. QED
    BY <1>14, <2>2, <2>3, <2>4
<1>16. \A n \in 1..size : spent[n - 1] <= spent[n]
  BY <1>6, <1>14, <1>15
<1>17. ASSUME NEW m \in 0..size, NEW n \in 0..size, m <= n PROVE spent[m] <= spent[n]
  <2> DEFINE T == {k \in m..size : ~(spent[m] <= spent[k])}
  <2>1. T = {}
    <3> SUFFICES ASSUME T # {} PROVE FALSE
      OBVIOUS
    <3>1. T \subseteq Nat
      BY <1>1
    <3>2. PICK k \in T : \A l \in T : k <= l
      BY <3>1, LeastNat
    <3>3. spent[m] \in Nat /\ k # m /\ k \in m..size
      BY <1>15, <3>2
    <3>4. k \in 1..size /\ k - 1 \in m..size /\ k - 1 \in 0..size /\ k \in 0..size /\ ~(k <= k - 1)
      BY <1>1, <3>3
    <3>5. spent[m] <= spent[k - 1]
      BY <3>2, <3>4
    <3>6. spent[k - 1] <= spent[k] /\ spent[k - 1] \in Nat /\ spent[k] \in Nat
      BY <1>15, <1>16, <3>4
    <3>7. QED
      BY <3>2, <3>3, <3>5, <3>6
  <2>2. n \in m..size
    BY <1>1, <1>17
  <2>3. QED
    BY <2>1, <2>2
<1>18. ASSUME NEW n \in 1..size PROVE Fits(order[n], spent[n - 1]) \/ spent[n] = spent[n - 1]
  BY <1>1, <1>6, <1>13, <1>15
<1>19. spent \in [0..size -> 0..ContextTokens]
  <2>1. spent = [n \in 0..size |-> spent[n]]
    BY <1>11, <1>13
  <2>2. QED
    BY <1>15, <2>1
<1>20. QED
  BY <1>17, <1>18, <1>19 DEF spent

\* What the context is said to be: within its budget, with pieces of the evidence only,
\* each once, and without those only that do not fit in what is left.
PackedSound(evidence, packed) ==
  /\ ToSet(packed.evidence) \subseteq ToSet(evidence)
  /\ packed.tokens <= ContextTokens
  /\ Cardinality(Identities(packed.evidence)) = Len(packed.evidence)
  /\ \A i \in ToSet(evidence) :
       Identity(i) \in Identities(packed.evidence) \/ Len(i.text) > ContextTokens - packed.tokens

\* As many identities as items, if they are different.
LEMMA DifferentIdentities ==
  ASSUME NEW S, NEW items \in Seq(S),
         \A m, n \in DOMAIN items : Identity(items[m]) = Identity(items[n]) => m = n
  PROVE  Cardinality(Identities(items)) = Len(items)
<1> DEFINE size == Len(items)
           name == [n \in 1..size |-> Identity(items[n])]
           T == Identities(items)
<1>1. DOMAIN items = 1..size /\ size \in Nat
  OBVIOUS
<1>2. T = {Identity(items[n]) : n \in 1..size}
  BY <1>1 DEF Identities, ToSet
<1> HIDE DEF T
<1>3. /\ name \in [1..size -> T] /\ \A t \in T : \E n \in 1..size : name[n] = t
      /\ \A m, n \in 1..size : name[m] = name[n] => m = n
  BY <1>1, <1>2
<1> HIDE DEF name
<1>4. name \in Surjection(1..size, T) /\ name \in Injection(1..size, T)
  BY <1>3 DEF Surjection, Injection, IsInjective
<1>5. IsFiniteSet(1..size) /\ Cardinality(1..size) = IF 1 > size THEN 0 ELSE size - 1 + 1
  BY <1>1, FS_Interval
<1>6. Cardinality(1..size) = size
  BY <1>1, <1>5
<1>7. Cardinality(T) = Cardinality(1..size)
  BY <1>4, <1>5, FS_Surjection
<1>8. QED
  BY <1>6, <1>7 DEF T

\* ContextPacker.pack, for any evidence whose items are what their identity says.
LEMMA PackFacts ==
  ASSUME NEW S, NEW evidence \in Seq(S),
         \A i \in S : Len(i.text) \in Nat,
         \A i, k \in S : Identity(i) = Identity(k) => i = k
  PROVE  Pack(evidence).evidence \in Seq(S) /\ PackedSound(evidence, Pack(evidence))
<1> DEFINE unique == Deduplicate(evidence)
           order == DiverseOrder(unique)
           spent == Spent(order)
           size == Len(order)
           taken == {n \in DOMAIN order : Fits(order[n], spent[n - 1])}
           items == Selected(order, taken)
           tokens == spent[size]
           packed == [evidence |-> items, tokens |-> tokens]
<1>1. /\ unique \in Seq(S)
      /\ \A m, n \in DOMAIN unique : Identity(unique[m]) = Identity(unique[n]) => m = n
      /\ \A n \in DOMAIN unique : \E k \in DOMAIN evidence : unique[n] = evidence[k]
      /\ \A k \in DOMAIN evidence :
           \E n \in DOMAIN unique : Identity(unique[n]) = Identity(evidence[k])
  BY DeduplicateFacts
<1>2. Pack(evidence) = packed
  BY DEF Pack
<1> HIDE DEF unique
<1>3. /\ order \in Seq(S) /\ size = Len(unique)
      /\ \E at \in [DOMAIN unique -> DOMAIN unique] :
           /\ \A n \in DOMAIN unique : order[n] = unique[at[n]]
           /\ \A k \in DOMAIN unique : \E n \in DOMAIN unique : at[n] = k
           /\ \A m, n \in DOMAIN unique : at[m] = at[n] => m = n
  BY <1>1, DiverseFacts
<1>4. PICK at \in [DOMAIN unique -> DOMAIN unique] :
        /\ \A n \in DOMAIN unique : order[n] = unique[at[n]]
        /\ \A k \in DOMAIN unique : \E n \in DOMAIN unique : at[n] = k
        /\ \A m, n \in DOMAIN unique : at[m] = at[n] => m = n
  BY <1>3
<1> HIDE DEF order
<1>5. DOMAIN unique = 1..size /\ DOMAIN order = 1..size /\ size \in Nat
  BY <1>1, <1>3
<1>6. ASSUME NEW m \in 1..size, NEW n \in 1..size, Identity(order[m]) = Identity(order[n])
      PROVE  m = n
  <2>1. at[m] \in DOMAIN unique /\ at[n] \in DOMAIN unique
    BY <1>5
  <2>2. order[m] = unique[at[m]] /\ order[n] = unique[at[n]]
    BY <1>4, <1>5
  <2>3. at[m] = at[n]
    BY <1>1, <1>6, <2>1, <2>2, Zenon
  <2>4. QED
    BY <1>4, <1>5, <2>3
<1>7. ASSUME NEW n \in 1..size PROVE \E k \in DOMAIN evidence : order[n] = evidence[k]
  <2>1. at[n] \in DOMAIN unique /\ order[n] = unique[at[n]]
    BY <1>4, <1>5
  <2>2. PICK k \in DOMAIN evidence : unique[at[n]] = evidence[k]
    BY <1>1, <2>1
  <2>3. QED
    BY <2>1, <2>2
<1>8. ASSUME NEW i \in ToSet(evidence)
      PROVE  \E n \in 1..size : order[n] = i
  <2>1. PICK k \in DOMAIN evidence : i = evidence[k]
    BY DEF ToSet
  <2>2. PICK m \in DOMAIN unique : Identity(unique[m]) = Identity(i)
    BY <1>1, <2>1
  <2>3. PICK n \in 1..size : order[n] = unique[m]
    BY <1>4, <1>5
  <2>4. order[n] \in S /\ i \in S
    BY <1>3, <1>5, <2>1
  <2>5. QED
    BY <2>2, <2>3, <2>4
<1>9. /\ spent \in [0..size -> 0..ContextTokens]
      /\ \A m, n \in 0..size : m <= n => spent[m] <= spent[n]
      /\ \A n \in 1..size : Fits(order[n], spent[n - 1]) \/ spent[n] = spent[n - 1]
  BY <1>3, SpentFacts, SMTT(60)
<1> HIDE DEF spent
<1>10. tokens \in 0..ContextTokens /\ \A n \in 1..size : spent[n - 1] \in 0..tokens
  <2>1. size \in 0..size /\ \A n \in 1..size : n - 1 \in 0..size /\ n - 1 <= size
    BY <1>5
  <2>2. QED
    BY <1>9, <2>1
<1> HIDE DEF tokens
<1>11. taken \in SUBSET DOMAIN order
  OBVIOUS
<1>12. \A n \in 1..size : n \in taken <=> Fits(order[n], spent[n - 1])
  BY <1>5
<1> HIDE DEF taken
<1> DEFINE kept == Cardinality(taken)
<1>13. items \in Seq(S) /\ Len(items) = kept /\ kept \in 0..Len(order)
  BY <1>3, <1>11, SelectedFacts
<1>14. DOMAIN items = 1..Len(items) /\ Len(items) \in Nat
  BY <1>13
<1>15. PICK slot \in [1..kept -> taken] :
         /\ \A n \in 1..kept : items[n] = order[slot[n]]
         /\ \A p \in taken : \E n \in 1..kept : slot[n] = p
         /\ \A m, n \in 1..kept : m < n <=> slot[m] < slot[n]
  <2>1. order \in Seq(S)
    BY <1>3
  <2>2. PICK slot : Stand(slot, order, taken)
    BY <1>11, <2>1, SelectionStands
  <2>3. QED
    BY <2>2 DEF Stand
<1> HIDE DEF items, kept
<1>16. \A n \in 1..kept : slot[n] \in taken /\ slot[n] \in 1..size
  BY <1>5, <1>11, <1>15
<1>17. ASSUME NEW m \in DOMAIN items, NEW n \in DOMAIN items,
              Identity(items[m]) = Identity(items[n])
       PROVE  m = n
  <2>1. slot[m] = slot[n] /\ slot[m] \in Int /\ m \in Int /\ n \in Int
    <3>1. m \in 1..kept /\ n \in 1..kept
      BY <1>13, <1>14
    <3>2. /\ items[m] = order[slot[m]] /\ slot[m] \in 1..size /\ m \in Int
          /\ items[n] = order[slot[n]] /\ slot[n] \in 1..size /\ n \in Int
      BY <1>15, <1>16, <3>1
    <3>3. Identity(order[slot[m]]) = Identity(order[slot[n]])
      BY <1>17, <3>2
    <3>4. QED
      BY <1>6, <3>2, <3>3
  <2>2. ~(m < n) /\ ~(n < m)
    BY <1>13, <1>14, <1>15, <2>1
  <2>3. QED
    BY <2>1, <2>2
<1>18. Cardinality(Identities(items)) = Len(items)
  BY <1>13, <1>17, DifferentIdentities
<1>19. ToSet(items) \subseteq ToSet(evidence)
  <2> SUFFICES ASSUME NEW n \in DOMAIN items PROVE items[n] \in ToSet(evidence)
    BY DEF ToSet
  <2>1. items[n] = order[slot[n]] /\ slot[n] \in 1..size
    BY <1>13, <1>14, <1>15, <1>16
  <2>2. QED
    BY <1>7, <2>1 DEF ToSet
<1>20. ASSUME NEW i \in ToSet(evidence), Identity(i) \notin Identities(items)
       PROVE  Len(i.text) > ContextTokens - tokens
  <2>1. PICK n \in 1..size : order[n] = i
    BY <1>8
  <2>2. n \notin taken
    <3> SUFFICES ASSUME n \in taken PROVE FALSE
      OBVIOUS
    <3>0. PICK k \in 1..kept : slot[k] = n
      BY <1>15
    <3>1. PICK m \in DOMAIN items : items[m] = i
      BY <1>13, <1>14, <1>15, <2>1, <3>0
    <3>2. Identity(i) \in Identities(items)
      BY <3>1 DEF Identities, ToSet
    <3>3. QED
      BY <1>20, <3>2
  <2>3. ~(Len(i.text) <= ContextTokens - spent[n - 1])
    BY <1>12, <2>1, <2>2 DEF Fits
  <2>4. Len(i.text) \in Nat
    BY <1>3, <1>5, <2>1
  <2>5. spent[n - 1] \in Nat /\ spent[n - 1] <= tokens /\ tokens \in Nat /\ ContextTokens \in Nat
    BY <1>10, GroundingAssumption
  <2>6. QED
    BY <2>3, <2>4, <2>5
<1>21. packed.evidence = items /\ packed.tokens = tokens
  OBVIOUS
<1>22. tokens <= ContextTokens
  BY <1>10, GroundingAssumption
<1> HIDE DEF packed
<1>23. PackedSound(evidence, packed)
  BY <1>18, <1>19, <1>20, <1>21, <1>22 DEF PackedSound
<1>24. QED
  BY <1>2, <1>13, <1>21, <1>23

-----------------------------------------------------------------------------
(* What is streamed: the beginning of one text of the packed context.      *)

\* The beginning of a sequence, item by item.
LEMMA PrefixFacts ==
  ASSUME NEW S, NEW s \in Seq(S), NEW T, NEW t \in Seq(T)
  PROVE  IsPrefix(s, t) <=> Len(s) <= Len(t) /\ \A n \in 1..Len(s) : s[n] = t[n]
<1> DEFINE a == SubSeq(s, 1, Len(s))
           b == SubSeq(t, 1, Len(s))
<1>1. Len(s) \in Nat /\ Len(t) \in Nat
  OBVIOUS
<1>2. ASSUME Len(s) <= Len(t)
      PROVE  /\ a \in Seq(S) /\ Len(a) = Len(s) /\ \A n \in 1..Len(s) : a[n] = s[n]
             /\ b \in Seq(T) /\ Len(b) = Len(s) /\ \A n \in 1..Len(s) : b[n] = t[n]
  <2>1. /\ a \in Seq(S) /\ Len(a) = Len(s) /\ \A n \in 1..Len(s) : a[n] = s[n]
    BY <1>1
  <2>2. /\ b \in Seq(T) /\ Len(b) = Len(s) /\ \A n \in 1..Len(s) : b[n] = t[n]
    BY <1>1, <1>2
  <2>3. QED
    BY <2>1, <2>2
<1>3. IsPrefix(s, t) <=> Len(s) <= Len(t) /\ a = b
  BY DEF IsPrefix
<1> HIDE DEF a, b
<1>4. ASSUME Len(s) <= Len(t) PROVE a = b <=> \A n \in 1..Len(s) : s[n] = t[n]
  <2>1. a = b <=> \A n \in 1..Len(s) : a[n] = b[n]
    BY <1>2, <1>4
  <2>2. QED
    BY <1>2, <1>4, <2>1
<1>5. QED
  BY <1>3, <1>4

\* A beginning stays one when the whole grows, and is one of a beginning too.
LEMMA PrefixesGrow ==
  ASSUME NEW S, NEW s \in Seq(S), NEW t \in Seq(S), NEW e \in S
  PROVE  /\ IsPrefix(s, s) /\ IsPrefix(<<>>, s)
         /\ IsPrefix(s, t) => IsPrefix(s, Append(t, e))
         /\ IsPrefix(s, <<>>) => s = <<>>
<1> DEFINE u == Append(t, e)
           none == <<>>
<1>0. Len(s) \in Nat /\ Len(t) \in Nat
  OBVIOUS
<1>1. u \in Seq(S) /\ Len(u) = Len(t) + 1 /\ \A n \in 1..Len(t) : u[n] = t[n]
  BY <1>0
<1>2. none \in Seq(S) /\ Len(none) = 0 /\ (Len(s) = 0 => s = none)
  OBVIOUS
<1> HIDE DEF u, none
<1>3. IsPrefix(s, s)
  BY <1>0, PrefixFacts
<1>4. IsPrefix(none, s)
  <2>1. Len(none) <= Len(s) /\ \A n \in 1..Len(none) : none[n] = s[n]
    BY <1>0, <1>2
  <2>2. QED
    BY <1>2, <2>1, PrefixFacts
<1>5. IsPrefix(s, t) => IsPrefix(s, u)
  <2> SUFFICES ASSUME IsPrefix(s, t) PROVE IsPrefix(s, u)
    OBVIOUS
  <2>1. Len(s) <= Len(t) /\ \A n \in 1..Len(s) : s[n] = t[n]
    BY PrefixFacts
  <2>2. Len(s) <= Len(u) /\ \A n \in 1..Len(s) : s[n] = u[n]
    BY <1>0, <1>1, <2>1
  <2>3. QED
    BY <1>1, <2>2, PrefixFacts
<1>6. IsPrefix(s, none) => s = none
  <2>1. IsPrefix(s, none) => Len(s) <= Len(none)
    BY <1>2, PrefixFacts
  <2>2. QED
    BY <1>0, <1>2, <2>1
<1>7. QED
  BY <1>3, <1>4, <1>5, <1>6 DEF u, none

\* What passes the guard has passed it before: the guard never opens again.
LEMMA PassesBefore ==
  ASSUME NEW S, NEW packed, \A i \in ToSet(packed) : i.text \in Seq(ToSet(i.text)),
         NEW candidate \in Seq(S), NEW e \in S, candidate # <<>>,
         Passes(packed, Append(candidate, e))
  PROVE  Passes(packed, candidate)
<1> DEFINE u == Append(candidate, e)
<1>1. PICK i \in ToSet(packed) : IsPrefix(u, i.text)
  BY DEF Passes
<1>2. /\ u \in Seq(S) /\ Len(u) = Len(candidate) + 1 /\ Len(candidate) \in Nat
      /\ \A n \in 1..Len(candidate) : u[n] = candidate[n]
  OBVIOUS
<1> HIDE DEF u
<1> DEFINE text == i.text
<1>3. text \in Seq(ToSet(text)) /\ Len(text) \in Nat
  OBVIOUS
<1>4. IsPrefix(u, text)
  BY <1>1
<1> HIDE DEF text
<1>5. Len(u) <= Len(text) /\ \A n \in 1..Len(u) : u[n] = text[n]
  BY <1>2, <1>3, <1>4, PrefixFacts
<1>6. Len(candidate) <= Len(text) /\ \A n \in 1..Len(candidate) : candidate[n] = text[n]
  BY <1>2, <1>3, <1>5
<1>7. IsPrefix(candidate, text)
  BY <1>3, <1>6, PrefixFacts
<1>8. QED
  BY <1>7 DEF text, Passes

\* The evidence of a world.
Hits == ToSet(Outside.hits)

\* Its items are told apart by their identity, and their texts are sequences.
LEMMA WorldHits ==
  ASSUME world \in DOMAIN Worlds
  PROVE  /\ Outside.hits \in Seq(Hits)
         /\ \A i \in Hits : i.text \in Seq(ToSet(i.text)) /\ Len(i.text) \in Nat
         /\ \A i, k \in Hits : Identity(i) = Identity(k) => i = k
<1> DEFINE w == Worlds[world]
<1>1. w \in ToSet(Worlds)
  BY DEF ToSet
<1> HIDE DEF w
<1>2. /\ w.hits \in Seq(ToSet(w.hits))
      /\ \A i \in ToSet(w.hits) : i.text \in Seq(ToSet(i.text))
      /\ \A i, k \in ToSet(w.hits) : Identity(i) = Identity(k) => i = k
  BY <1>1, AskAssumption, Zenon
<1>3. Outside = w
  BY DEF Outside, w
<1>4. \A i \in Hits : i.text \in Seq(ToSet(i.text))
  BY <1>2, <1>3 DEF Hits
<1>5. \A i \in Hits : Len(i.text) \in Nat
  <2> SUFFICES ASSUME NEW i \in Hits PROVE Len(i.text) \in Nat
    OBVIOUS
  <2> DEFINE text == i.text
  <2>1. text \in Seq(ToSet(text))
    BY <1>4
  <2> HIDE DEF text
  <2>2. Len(text) \in Nat
    BY <2>1
  <2>3. QED
    BY <2>2 DEF text
<1>6. QED
  BY <1>2, <1>3, <1>4, <1>5 DEF Hits

\* What a generator holds of its evidence and of the model's words. The text shown is
\* all of the text so far, until the text so far begins nothing in the context.
GroundSound(s) ==
  /\ s.evidence \in Seq(Hits) /\ s.packed.evidence \in Seq(Hits)
  /\ PackedSound(s.evidence, s.packed)
  /\ s.candidate \in Seq(Outside.words) /\ s.released \in Seq(Outside.words)
  /\ IsPrefix(s.released, s.candidate)
  /\ s.released # <<>> => Passes(s.packed.evidence, s.released)
  /\ s.released = s.candidate \/ ~Passes(s.packed.evidence, s.candidate)
  /\ s.phase \in {"idle", "opened", "retrieving"} => s.candidate = <<>>

GroundInv == \A r \in Requests : GroundSound(stream[r])

\* Nothing found, nothing said.
LEMMA IdleGround ==
  \A p \in {"idle", "opened", "closed"} : GroundSound([Idle EXCEPT !.phase = p])
<1> SUFFICES ASSUME NEW p \in {"idle", "opened", "closed"}
             PROVE  GroundSound([Idle EXCEPT !.phase = p])
  OBVIOUS
<1> DEFINE d == [Idle EXCEPT !.phase = p]
           none == <<>>
<1>1. /\ d.evidence = none /\ d.packed = EmptyContext /\ d.candidate = none
      /\ d.released = none
  BY DEF Idle
<1>2. EmptyContext.evidence = none /\ EmptyContext.tokens = 0
  BY DEF EmptyContext
<1>3. ToSet(none) = {} /\ Identities(none) = {} /\ Len(none) = 0
  BY DEF ToSet, Identities
<1>4. none \in Seq(Hits) /\ none \in Seq(Outside.words)
  OBVIOUS
<1> HIDE DEF d, none
<1>5. IsPrefix(none, none)
  BY DEF IsPrefix, none
<1>6. PackedSound(none, EmptyContext)
  <2>1. ContextTokens \in Nat
    BY GroundingAssumption
  <2>2. Cardinality({}) = 0
    BY FS_EmptySet
  <2>3. QED
    BY <1>2, <1>3, <2>1, <2>2 DEF PackedSound
<1>7. GroundSound(d)
  BY <1>1, <1>2, <1>4, <1>5, <1>6 DEF GroundSound, none
<1>8. QED
  BY <1>7 DEF d

\* A step that leaves the evidence and the words alone.
LEMMA KeptGround ==
  ASSUME NEW s, GroundSound(s), NEW d,
         d.evidence = s.evidence, d.packed = s.packed,
         d.candidate = s.candidate, d.released = s.released,
         d.phase \in {"idle", "opened", "retrieving"} =>
           s.phase \in {"idle", "opened", "retrieving"}
  PROVE  GroundSound(d)
BY DEF GroundSound

\* The last event does.
LEMMA FinalsGround ==
  ASSUME NEW s, StreamSound(s), GroundSound(s),
         NEW status, NEW reason, NEW claims, NEW sources
  PROVE  GroundSound(Finals(s, status, reason, claims, sources))
<1> DEFINE f == [status |-> status, reason |-> reason, claims |-> claims, sources |-> sources]
           d == [s EXCEPT !.phase = "final", !.final = f]
<1>1. d = Finals(s, status, reason, claims, sources)
  BY DEF Finals
<1> HIDE DEF f
<1>2. /\ d.evidence = s.evidence /\ d.packed = s.packed /\ d.candidate = s.candidate
      /\ d.released = s.released /\ d.phase = "final"
  BY DEF StreamSound, StreamFields
<1> HIDE DEF d
<1>3. GroundSound(d)
  BY <1>2, KeptGround
<1>4. QED
  BY <1>1, <1>3

\* So does a change of the phase alone.
LEMMA PhaseGround ==
  ASSUME NEW s, StreamSound(s), GroundSound(s), NEW p,
         p = "retrieving" => s.phase = "opened", p \notin {"idle", "opened"}
  PROVE  GroundSound([s EXCEPT !.phase = p])
<1> DEFINE d == [s EXCEPT !.phase = p]
<1>1. /\ d.evidence = s.evidence /\ d.packed = s.packed /\ d.candidate = s.candidate
      /\ d.released = s.released /\ d.phase = p
  BY DEF StreamSound, StreamFields
<1> HIDE DEF d
<1>2. GroundSound(d)
  BY <1>1, KeptGround
<1>3. QED
  BY <1>2 DEF d

\* Retrieval: authorized hits, and as much of them as the context holds.
LEMMA RetrieveGround ==
  ASSUME AskInv, NEW r \in Requests, GroundSound(stream[r]), Retrieve(r),
         NEW d, Set(r, d)
  PROVE  GroundSound(d)
<1> DEFINE u == stream[r]
           found == Retrieved
           context == Pack(found)
           s == [u EXCEPT !.evidence = found, !.packed = context]
           reason == Decide(s.packed.evidence, {})
           e == IF reason # "none" THEN Finals(s, "abstained", reason, <<>>, {})
                ELSE [s EXCEPT !.phase = "generating"]
<1>1. Set(r, e) /\ u.phase = "retrieving"
  BY DEF Retrieve, Runs
<1>2. StreamSound(u) /\ u.released = <<>> /\ GroundSound(u)
  BY <1>1 DEF AskInv, StreamsSound, StreamSound
<1>3. u.candidate = <<>>
  BY <1>1, <1>2 DEF GroundSound
<1>4. d = e
  BY <1>1, OneMoves DEF AskInv
<1>5. world \in DOMAIN Worlds
  BY DEF AskInv, ClockSound
<1>6. found \in Seq(Hits)
  <2> DEFINE hits == Outside.hits
             places == {n \in DOMAIN hits : Reference(hits[n]) \in Readable(hits)}
  <2>1. hits \in Seq(Hits)
    BY <1>5, WorldHits
  <2>2. places \in SUBSET DOMAIN hits
    OBVIOUS
  <2>3. found = Selected(hits, places)
    BY DEF Retrieved
  <2> HIDE DEF hits, places, found
  <2>4. QED
    BY <2>1, <2>2, <2>3, SelectedFacts
<1> HIDE DEF found
<1>7. context.evidence \in Seq(Hits) /\ PackedSound(found, context)
  BY <1>5, <1>6, WorldHits, PackFacts
<1> HIDE DEF u, context
<1>8. /\ DOMAIN s = StreamFields /\ s.phase = u.phase /\ s.attempt = u.attempt
      /\ s.final = u.final /\ s.released = u.released /\ s.claims = u.claims
      /\ s.candidate = u.candidate /\ s.evidence = found /\ s.packed = context
  BY <1>2 DEF StreamSound, StreamFields
<1> HIDE DEF s
<1>9. StreamSound(s)
  BY <1>2, <1>8 DEF StreamSound
<1>10. GroundSound(s)
  BY <1>2, <1>3, <1>6, <1>7, <1>8 DEF GroundSound
<1> HIDE DEF reason
<1>11. CASE reason # "none"
  BY <1>4, <1>9, <1>10, <1>11, FinalsGround
<1>12. CASE reason = "none"
  BY <1>4, <1>9, <1>10, <1>12, PhaseGround
<1>13. QED
  BY <1>11, <1>12

\* A delta: shown while the text so far begins a text of the context.
LEMMA DeltaGround ==
  ASSUME AskInv, NEW r \in Requests, GroundSound(stream[r]),
         NEW word \in Outside.words, Delta(r, word), NEW d, Set(r, d)
  PROVE  GroundSound(d)
<1> DEFINE u == stream[r]
           candidate == Append(u.candidate, word)
           packed == u.packed.evidence
           s == [u EXCEPT !.candidate = candidate]
           e == IF Passes(s.packed.evidence, candidate)
                THEN [s EXCEPT !.phase = "delta", !.released = Append(@, word)]
                ELSE s
<1>1. Set(r, e) /\ u.phase = "calling" /\ GroundSound(u)
  BY DEF Delta, Runs
<1>2. StreamSound(u) /\ world \in DOMAIN Worlds
  BY DEF AskInv, StreamsSound, ClockSound
<1>3. d = e
  BY <1>1, OneMoves DEF AskInv
<1> HIDE DEF u
<1> DEFINE before == u.candidate
           shown == u.released
<1>4. before \in Seq(Outside.words) /\ shown \in Seq(Outside.words) /\ IsPrefix(shown, before)
  BY <1>1 DEF GroundSound
<1>5. \A i \in ToSet(packed) : i.text \in Seq(ToSet(i.text))
  <2>1. packed \in Seq(Hits)
    BY <1>1 DEF GroundSound
  <2> HIDE DEF packed
  <2>2. \A i \in ToSet(packed) : i \in Hits
    BY <2>1 DEF ToSet
  <2>3. QED
    BY <1>2, <2>2, WorldHits
<1>6. candidate \in Seq(Outside.words) /\ IsPrefix(shown, candidate)
  <2> HIDE DEF before, shown
  <2>1. IsPrefix(shown, Append(before, word))
    BY <1>4, PrefixesGrow
  <2>2. Append(before, word) \in Seq(Outside.words)
    BY <1>4
  <2>3. QED
    BY <2>1, <2>2 DEF before, shown
<1>7. /\ DOMAIN s = StreamFields /\ s.phase = u.phase /\ s.final = u.final
      /\ s.released = shown /\ s.candidate = candidate
      /\ s.evidence = u.evidence /\ s.packed = u.packed
  BY <1>2 DEF StreamSound, StreamFields
<1> HIDE DEF s
<1>8. CASE Passes(packed, candidate)
  <2>1. d = [s EXCEPT !.phase = "delta", !.released = Append(@, word)]
    BY <1>3, <1>7, <1>8
  <2>2. /\ d.phase = "delta" /\ d.released = Append(shown, word) /\ d.candidate = candidate
        /\ d.evidence = u.evidence /\ d.packed = u.packed
    BY <1>7, <2>1 DEF StreamFields
  <2>3. shown = before
    <3>1. CASE before = <<>>
      <4> HIDE DEF before, shown
      <4>1. QED
        BY <1>4, <3>1, PrefixesGrow
    <3>2. CASE before # <<>>
      <4>1. Passes(packed, before)
        <5> HIDE DEF before, packed
        <5>1. Passes(packed, Append(before, word))
          BY <1>8 DEF before
        <5>2. QED
          BY <1>4, <1>5, <3>2, <5>1, PassesBefore
      <4>2. QED
        BY <1>1, <4>1 DEF GroundSound
    <3>3. QED
      BY <3>1, <3>2
  <2>4. d.released = candidate
    BY <2>2, <2>3
  <2>5. IsPrefix(candidate, candidate)
    <3> HIDE DEF candidate
    <3>1. QED
      BY DEF IsPrefix
  <2>6. QED
    BY <1>1, <1>6, <1>8, <2>2, <2>4, <2>5 DEF GroundSound
<1>9. CASE ~Passes(packed, candidate)
  <2>1. d = s
    BY <1>3, <1>7, <1>9
  <2>2. QED
    BY <1>1, <1>6, <1>7, <1>9, <2>1 DEF GroundSound
<1>10. QED
  BY <1>8, <1>9

\* A call starts over, and there was nothing to show before it.
LEMMA AttemptGround ==
  ASSUME AskInv, NEW r \in Requests, GroundSound(stream[r]), Attempt(r), NEW d, Set(r, d)
  PROVE  GroundSound(d)
<1> DEFINE u == stream[r]
           e == [u EXCEPT !.phase = "calling", !.attempt = @ + 1, !.candidate = <<>>]
<1>1. /\ StreamSound(u) /\ GroundSound(u) /\ u.phase \in {"generating", "backoff"}
      /\ u.released = <<>>
  BY DEF Attempt, AskInv, StreamsSound, StreamSound
<1>2. \/ Set(r, e) \/ Set(r, EvidenceOnly(u, "unavailable"))
  BY DEF Attempt
<1>3. d = e \/ d = EvidenceOnly(u, "unavailable")
  BY <1>2, OneMoves DEF AskInv
<1> HIDE DEF u
<1>4. CASE d = EvidenceOnly(u, "unavailable")
  BY <1>1, <1>4, FinalsGround DEF EvidenceOnly
<1>5. CASE d = e
  <2>1. /\ d.phase = "calling" /\ d.released = <<>> /\ d.candidate = <<>>
        /\ d.evidence = u.evidence /\ d.packed = u.packed
    BY <1>1, <1>5 DEF StreamSound, StreamFields
  <2>2. IsPrefix(<<>>, <<>>) /\ <<>> \in Seq(Outside.words)
    BY DEF IsPrefix
  <2>3. QED
    BY <1>1, <2>1, <2>2 DEF GroundSound
<1>6. QED
  BY <1>3, <1>4, <1>5

\* A failed call, or one that is done, leaves what was shown.
LEMMA EndedGround ==
  ASSUME NEW s, StreamSound(s), GroundSound(s), NEW failure, NEW claims
  PROVE  GroundSound(AfterFailure(s, failure)) /\ GroundSound(Drafted(s, claims))
<1>1. GroundSound(AfterFailure(s, failure))
  <2>1. \/ AfterFailure(s, failure) = [s EXCEPT !.phase = "backoff"]
        \/ AfterFailure(s, failure) = Finals(s, "failed", failure.kind, <<>>, {})
        \/ AfterFailure(s, failure)
             = Finals(s, "degraded", failure.kind, <<>>, Identities(s.evidence))
    BY DEF AfterFailure, EvidenceOnly
  <2>2. GroundSound([s EXCEPT !.phase = "backoff"])
    BY PhaseGround
  <2>3. QED
    BY <2>1, <2>2, FinalsGround
<1>2. GroundSound(Drafted(s, claims))
  <2> DEFINE d == [s EXCEPT !.phase = "verifying", !.claims = claims]
  <2>1. Drafted(s, claims) = d \/ Drafted(s, claims) = Finals(s, "failed", "malformed", <<>>, {})
    BY DEF Drafted
  <2>2. /\ d.evidence = s.evidence /\ d.packed = s.packed /\ d.candidate = s.candidate
        /\ d.released = s.released /\ d.phase = "verifying"
    BY DEF StreamSound, StreamFields
  <2> HIDE DEF d
  <2>3. GroundSound(d)
    BY <2>2, KeptGround
  <2>4. QED
    BY <2>1, <2>3, FinalsGround
<1>3. QED
  BY <1>1, <1>2

\* A turn of the verifier and the decision after the last claim leave it too.
LEMMA VerifiedGround ==
  ASSUME NEW s, StreamSound(s), GroundSound(s), s.phase = "verifying", NEW failures, NEW sources,
         NEW reason
  PROVE  /\ GroundSound([s EXCEPT !.checked = @ + 1, !.failures = failures])
         /\ GroundSound(Finals(s, "abstained", reason, <<>>, {}))
         /\ GroundSound(Finals(s, "verified", "none", s.claims, sources))
<1> DEFINE d == [s EXCEPT !.checked = @ + 1, !.failures = failures]
<1>1. /\ d.evidence = s.evidence /\ d.packed = s.packed /\ d.candidate = s.candidate
      /\ d.released = s.released /\ d.phase = s.phase
  BY DEF StreamSound, StreamFields
<1> HIDE DEF d
<1>2. GroundSound(d)
  BY <1>1, KeptGround
<1>3. QED
  BY <1>2, FinalsGround DEF d

\* A request that is closed, refused, asked, or moves on.
LEMMA RequestGround ==
  ASSUME AskInv, GroundInv, NEW r \in Requests,
         Ask(r) \/ Refuse(r) \/ Step(r) \/ Disconnect(r) \/ Abandon(r)
  PROVE  GroundInv' /\ \E d : Set(r, d)
<1> DEFINE u == stream[r]
<1>0. StreamSound(u) /\ GroundSound(u) /\ UNCHANGED world
  <2>1. UNCHANGED world
    BY DEF Ask, Refuse, Step, Disconnect, Abandon, Begin, RetrievalFails, Retrieve, Attempt,
           Resume, Delta, ProviderFails, ProviderStops, ProviderCompletes, VerifyClaim, Conclude,
           Raises, Finish, environment
  <2>2. QED
    BY <2>1 DEF AskInv, StreamsSound, GroundInv
<1>1. ASSUME NEW d, Set(r, d), GroundSound(d) PROVE GroundInv' /\ \E e : Set(r, e)
  <2>1. stream'[r] = d /\ \A q \in Requests \ {r} : stream'[q] = stream[q]
    BY <1>1, OneMoves DEF AskInv
  <2>2. \A q \in Requests : GroundSound(stream'[q])
    BY <1>1, <2>1 DEF GroundInv
  <2>3. Outside' = Outside
    BY <1>0 DEF Outside
  <2>4. GroundInv'
    BY <2>2, <2>3 DEF GroundInv, GroundSound, Hits
  <2>5. QED
    BY <1>1, <2>4
<1>2. CASE Ask(r) \/ Refuse(r) \/ Finish(r) \/ Raises(r) \/ Disconnect(r) \/ Abandon(r)
  <2>1. PICK p \in {"opened", "closed"} : Set(r, [Idle EXCEPT !.phase = p])
    BY <1>2 DEF Ask, Refuse, Finish, Raises, Disconnect, Abandon, Ends
  <2>2. QED
    BY <1>1, <2>1, IdleGround
<1>3. CASE Begin(r)
  <2>1. Set(r, [u EXCEPT !.phase = "retrieving"]) /\ u.phase = "opened"
    BY <1>3 DEF Begin, Runs
  <2> HIDE DEF u
  <2>2. QED
    BY <1>0, <1>1, <2>1, PhaseGround
<1>4. CASE RetrievalFails(r) \/ ProviderStops(r)
  <2>1. PICK reason : Set(r, Finals(u, "failed", reason, <<>>, {}))
    BY <1>4 DEF RetrievalFails, ProviderStops
  <2> HIDE DEF u
  <2>2. QED
    BY <1>0, <1>1, <2>1, FinalsGround
<1>5. CASE Retrieve(r)
  <2>1. PICK d : Set(r, d)
    BY <1>5, RetrieveSound
  <2>2. GroundSound(d)
    BY <1>0, <1>5, <2>1, RetrieveGround
  <2>3. QED
    BY <1>1, <2>1, <2>2
<1>6. CASE Attempt(r)
  <2>1. PICK d : Set(r, d)
    BY <1>6 DEF Attempt
  <2>2. GroundSound(d)
    BY <1>0, <1>6, <2>1, AttemptGround
  <2>3. QED
    BY <1>1, <2>1, <2>2
<1>7. CASE Resume(r)
  <2>1. Set(r, [u EXCEPT !.phase = "calling"])
    BY <1>7 DEF Resume
  <2> HIDE DEF u
  <2>2. QED
    BY <1>0, <1>1, <2>1, PhaseGround
<1>8. ASSUME NEW word \in Outside.words, Delta(r, word) PROVE GroundInv' /\ \E e : Set(r, e)
  <2>1. PICK d : Set(r, d)
    BY <1>8, DeltaSound
  <2>2. GroundSound(d)
    BY <1>0, <1>8, <2>1, DeltaGround
  <2>3. QED
    BY <1>1, <2>1, <2>2
<1>9. ASSUME NEW failure, Fails(r, failure) PROVE GroundInv' /\ \E e : Set(r, e)
  <2>1. Set(r, AfterFailure(u, failure))
    BY <1>9 DEF Fails
  <2> HIDE DEF u
  <2>2. QED
    BY <1>0, <1>1, <2>1, EndedGround
<1>10. ASSUME NEW reply, ProviderCompletes(r, reply) PROVE GroundInv' /\ \E e : Set(r, e)
  <2>1. \/ Fails(r, Failure[ParseFailure(reply)])
        \/ Set(r, Drafted(u, reply.claims))
    BY <1>10 DEF ProviderCompletes
  <2> HIDE DEF u
  <2>2. QED
    BY <1>0, <1>1, <1>9, <2>1, EndedGround
<1>11. ASSUME NEW up, VerifyClaim(r, up) PROVE GroundInv' /\ \E e : Set(r, e)
  <2>1. /\ u.phase = "verifying"
        /\ \E failures : Set(r, [u EXCEPT !.checked = @ + 1, !.failures = failures])
    BY <1>11 DEF VerifyClaim, Runs
  <2> HIDE DEF u
  <2>2. PICK failures : Set(r, [u EXCEPT !.checked = @ + 1, !.failures = failures])
    BY <2>1
  <2> DEFINE d == [u EXCEPT !.checked = @ + 1, !.failures = failures]
  <2>3. GroundSound(d)
    BY <1>0, <2>1, VerifiedGround
  <2> HIDE DEF d
  <2>4. Set(r, d)
    BY <2>2 DEF d
  <2>5. QED
    BY <1>1, <2>3, <2>4
<1>12. CASE Conclude(r)
  <2> DEFINE reason == Decide(u.packed.evidence, u.failures)
             sources == CitedSources(u.claims, u.evidence)
  <2>1. /\ u.phase = "verifying"
        /\ \/ Set(r, Finals(u, "abstained", reason, <<>>, {}))
           \/ Set(r, Finals(u, "verified", "none", u.claims, sources))
    BY <1>12 DEF Conclude, Runs
  <2> HIDE DEF u, reason, sources
  <2>2. QED
    BY <1>0, <1>1, <2>1, VerifiedGround
<1>13. QED
  BY <1>2, <1>3, <1>4, <1>5, <1>6, <1>7, <1>8, <1>9, <1>10, <1>11, <1>12 DEF Step, ProviderFails

\* With the invariant of the streams, this one is inductive.
THEOREM GroundStepSound == AskInv /\ GroundInv /\ [Next]_vars => GroundInv'
<1> SUFFICES ASSUME AskInv, GroundInv, [Next]_vars PROVE GroundInv'
  OBVIOUS
<1>1. CASE Tick \/ PolicyChange \/ UNCHANGED vars
  <2>1. UNCHANGED <<world, stream>>
    BY <1>1 DEF Tick, PolicyChange, vars, environment
  <2>2. QED
    BY <2>1 DEF GroundInv, GroundSound, Hits, Outside
<1>2. CASE Crash
  <2> DEFINE over == [Idle EXCEPT !.phase = "closed"]
  <2>1. /\ UNCHANGED world
        /\ stream' = [r \in Requests |-> IF Open(r) THEN over ELSE stream[r]]
    BY <1>2 DEF Crash
  <2>2. GroundSound(over)
    BY IdleGround
  <2> HIDE DEF over
  <2>3. \A r \in Requests : GroundSound(stream'[r])
    BY <2>1, <2>2 DEF GroundInv
  <2>4. QED
    BY <2>1, <2>3 DEF GroundInv, GroundSound, Hits, Outside
<1>3. ASSUME NEW r \in Requests, Ask(r) \/ Refuse(r) \/ Step(r) \/ Disconnect(r) \/ Abandon(r)
      PROVE  GroundInv'
  BY <1>3, RequestGround
<1>4. QED
  BY <1>1, <1>2, <1>3 DEF Next

\* Every reachable state satisfies it.
THEOREM GroundSafety == Spec => []GroundInv
<1>1. Init => GroundInv
  <2> SUFFICES ASSUME Init PROVE GroundInv
    OBVIOUS
  <2> DEFINE d == [Idle EXCEPT !.phase = "idle"]
  <2>1. /\ Idle.evidence = d.evidence /\ Idle.packed = d.packed /\ Idle.phase = d.phase
        /\ Idle.candidate = d.candidate /\ Idle.released = d.released
    BY DEF Idle
  <2>2. GroundSound(d)
    BY IdleGround
  <2> HIDE DEF d
  <2>3. GroundSound(Idle)
    BY <2>1, <2>2, KeptGround
  <2>4. QED
    BY <2>3 DEF Init, GroundInv
<1>2. QED
  BY <1>1, AskSafety, GroundStepSound, PTL DEF Spec

\* The context is within its budget, holds each piece once, and leaves out only
\* what does not fit in what remains: whatever was found, in whatever order.
THEOREM ContextMaximal == Spec => []ContextIsMaximal
<1>1. ASSUME GroundInv PROVE ContextIsMaximal
  <2> SUFFICES ASSUME NEW r \in Requests
               PROVE  LET evidence == stream[r].evidence
                          packed == stream[r].packed
                          left == Identities(evidence) \ Identities(packed.evidence)
                      IN /\ packed.tokens <= ContextTokens
                         /\ Cardinality(Identities(packed.evidence)) = Len(packed.evidence)
                         /\ \A i \in ToSet(evidence) :
                              (Identity(i) \in left) => Len(i.text) > ContextTokens - packed.tokens
    BY DEF ContextIsMaximal
  <2>1. PackedSound(stream[r].evidence, stream[r].packed)
    BY <1>1 DEF GroundInv, GroundSound
  <2>2. QED
    BY <2>1 DEF PackedSound
<1>2. QED
  BY <1>1, GroundSafety, PTL

\* A client is shown, before anything is verified, the beginning of one text of
\* the context the model was given, and all of it from the attempt in progress.
THEOREM TextGrounded == Spec => []TextIsGrounded
<1>1. ASSUME GroundInv PROVE TextIsGrounded
  <2> SUFFICES ASSUME NEW r \in Requests, stream[r].released # <<>>
               PROVE  /\ IsPrefix(stream[r].released, stream[r].candidate)
                      /\ \E i \in ToSet(stream[r].packed.evidence) :
                           IsPrefix(stream[r].released, i.text)
    BY DEF TextIsGrounded
  <2>1. GroundSound(stream[r])
    BY <1>1 DEF GroundInv
  <2>2. QED
    BY <2>1 DEF GroundSound, Passes
<1>2. QED
  BY <1>1, GroundSafety, PTL

-----------------------------------------------------------------------------
(* What is answered: claims that cite what the client may read.            *)

\* A reply's citations are sequences.
LEMMA RepliesCite ==
  ASSUME world \in DOMAIN Worlds, NEW m \in Outside.replies, NEW c \in ToSet(m.claims)
  PROVE  c.cites \in Seq(ToSet(c.cites))
<1>1. Worlds[world] \in ToSet(Worlds)
  BY DEF ToSet
<1>2. \A n \in Worlds[world].replies : \A k \in ToSet(n.claims) : k.cites \in Seq(ToSet(k.cites))
  BY <1>1, AskAssumption, Zenon
<1>3. QED
  BY <1>2, Zenon DEF Outside

\* The last event is what it was made to be.
LEMMA FinalsTold ==
  ASSUME NEW s, StreamSound(s), NEW status, NEW reason, NEW claims, NEW sources
  PROVE  LET f == Finals(s, status, reason, claims, sources).final
         IN  f.status = status /\ f.claims = claims /\ f.sources = sources
<1> DEFINE f == [status |-> status, reason |-> reason, claims |-> claims, sources |-> sources]
           d == [s EXCEPT !.phase = "final", !.final = f]
<1>1. d = Finals(s, status, reason, claims, sources)
  BY DEF Finals
<1>2. f.status = status /\ f.claims = claims /\ f.sources = sources
  OBVIOUS
<1> HIDE DEF f
<1>3. d.final = f
  BY DEF StreamSound, StreamFields
<1> HIDE DEF d
<1>4. QED
  BY <1>1, <1>2, <1>3

\* A step that answers nothing, and that begins or continues no verification.
Silent(s, d) ==
  /\ d.phase # "verifying"
  /\ d.final = s.final \/ d.final.status # "verified"
  /\ \/ d.phase = "final"
     \/ d.checked = 0 /\ d.failures = {}
     \/ s.phase \notin {"verifying", "final"} /\ d.checked = s.checked /\ d.failures = s.failures

\* Failures, abstentions and degraded answers are such.
LEMMA OtherFinals ==
  ASSUME NEW s, StreamSound(s), NEW status \in {"failed", "degraded", "abstained"},
         NEW reason, NEW claims, NEW sources, NEW u
  PROVE  Silent(u, Finals(s, status, reason, claims, sources))
<1> DEFINE d == Finals(s, status, reason, claims, sources)
<1>1. d.final.status = status
  BY FinalsTold
<1>2. d.phase = "final"
  BY DEF Finals, StreamSound, StreamFields
<1> HIDE DEF d
<1>3. Silent(u, d)
  BY <1>1, <1>2 DEF Silent
<1>4. QED
  BY <1>3 DEF d

\* So is a closed generator, and one that is asked for.
LEMMA IdleSilent ==
  ASSUME NEW s, NEW p \in {"opened", "closed"}
  PROVE  Silent(s, [Idle EXCEPT !.phase = p])
<1> DEFINE d == [Idle EXCEPT !.phase = p]
<1>1. /\ d.phase = p /\ d.checked = 0 /\ d.failures = {} /\ d.final = NoFinal
  BY DEF Idle
<1>2. NoFinal.status = "none"
  BY DEF NoFinal
<1> HIDE DEF d
<1>3. Silent(s, d)
  BY <1>1, <1>2 DEF Silent
<1>4. QED
  BY <1>3 DEF d

\* Before generation, and between its events, nothing is answered.
LEMMA SilentMoves ==
  ASSUME AskInv, NEW r \in Requests, NEW d, Set(r, d),
         Begin(r) \/ Retrieve(r) \/ Attempt(r) \/ Resume(r) \/ (\E word : Delta(r, word))
  PROVE  Silent(stream[r], d)
<1> DEFINE u == stream[r]
<1>1. StreamSound(u)
  BY DEF AskInv, StreamsSound
<1>2. \A e : Set(r, e) => d = e
  BY OneMoves DEF AskInv
<1>3. CASE Retrieve(r)
  <2> DEFINE s == [u EXCEPT !.evidence = Retrieved, !.packed = Pack(Retrieved)]
             reason == Decide(s.packed.evidence, {})
             e == IF reason # "none" THEN Finals(s, "abstained", reason, <<>>, {})
                  ELSE [s EXCEPT !.phase = "generating"]
  <2>1. d = e /\ u.phase = "retrieving"
    BY <1>2, <1>3 DEF Retrieve, Runs
  <2> HIDE DEF u
  <2>2. /\ DOMAIN s = StreamFields /\ s.phase = u.phase /\ s.attempt = u.attempt
        /\ s.final = u.final /\ s.released = u.released /\ s.claims = u.claims
        /\ s.checked = u.checked /\ s.failures = u.failures
    BY <1>1 DEF StreamSound, StreamFields
  <2> HIDE DEF s
  <2>3. StreamSound(s)
    BY <1>1, <2>2 DEF StreamSound
  <2> HIDE DEF reason
  <2>4. CASE reason # "none"
    BY <2>1, <2>3, <2>4, OtherFinals DEF u
  <2>5. CASE reason = "none"
    <3>1. d = [s EXCEPT !.phase = "generating"]
      BY <2>1, <2>5
    <3>2. /\ d.final = u.final /\ d.phase = "generating" /\ d.checked = u.checked
          /\ d.failures = u.failures
      BY <2>2, <3>1 DEF StreamFields
    <3>3. QED
      BY <2>1, <3>2 DEF u, Silent
  <2>6. QED
    BY <2>4, <2>5
<1>4. CASE Attempt(r)
  <2> DEFINE e == [u EXCEPT !.phase = "calling", !.attempt = @ + 1, !.candidate = <<>>]
  <2>1. /\ Set(r, e) \/ Set(r, EvidenceOnly(u, "unavailable"))
        /\ u.phase \in {"generating", "backoff"}
    BY <1>4 DEF Attempt
  <2>2. d = e \/ d = EvidenceOnly(u, "unavailable")
    BY <1>2, <2>1
  <2> HIDE DEF u
  <2>3. CASE d = e
    <3>1. /\ d.final = u.final /\ d.phase = "calling" /\ d.checked = u.checked
          /\ d.failures = u.failures
      BY <1>1, <2>3 DEF StreamSound, StreamFields
    <3>2. QED
      BY <2>1, <3>1 DEF u, Silent
  <2>4. CASE d = EvidenceOnly(u, "unavailable")
    BY <1>1, <2>4, OtherFinals DEF u, EvidenceOnly
  <2>5. QED
    BY <2>2, <2>3, <2>4
<1>5. ASSUME NEW word, Delta(r, word) PROVE Silent(stream[r], d)
  <2> DEFINE candidate == Append(u.candidate, word)
             s == [u EXCEPT !.candidate = candidate]
             e == IF Passes(s.packed.evidence, candidate)
                  THEN [s EXCEPT !.phase = "delta", !.released = Append(@, word)]
                  ELSE s
  <2>1. d = e /\ u.phase = "calling"
    BY <1>2, <1>5 DEF Delta, Runs
  <2> HIDE DEF u
  <2>2. /\ DOMAIN s = StreamFields /\ s.final = u.final /\ s.phase = u.phase
        /\ s.checked = u.checked /\ s.failures = u.failures
    BY <1>1 DEF StreamSound, StreamFields
  <2> HIDE DEF s, candidate
  <2>3. d = s \/ d = [s EXCEPT !.phase = "delta", !.released = Append(@, word)]
    BY <2>1
  <2>4. /\ d.final = u.final /\ d.phase \in {"calling", "delta"} /\ d.checked = u.checked
        /\ d.failures = u.failures
    BY <2>1, <2>2, <2>3 DEF StreamFields
  <2>5. QED
    BY <2>1, <2>4 DEF u, Silent
<1>6. CASE Begin(r) \/ Resume(r)
  <2>1. \E p \in {"retrieving", "calling"} : Set(r, [u EXCEPT !.phase = p])
    BY <1>6 DEF Begin, Resume
  <2>2. PICK p \in {"retrieving", "calling"} : Set(r, [u EXCEPT !.phase = p])
    BY <2>1
  <2>3. d = [u EXCEPT !.phase = p] /\ u.phase \in {"opened", "delta"}
    BY <1>2, <1>6, <2>2 DEF Begin, Resume, Runs
  <2> HIDE DEF u
  <2>4. d.final = u.final /\ d.phase = p /\ d.checked = u.checked /\ d.failures = u.failures
    BY <1>1, <2>3 DEF StreamSound, StreamFields
  <2>5. QED
    BY <2>3, <2>4 DEF u, Silent
<1>7. QED
  BY <1>3, <1>4, <1>5, <1>6

\* Neither is anything after a failed call.
LEMMA SilentFailure ==
  ASSUME NEW s, StreamSound(s), s.phase = "calling", NEW failure
  PROVE  Silent(s, AfterFailure(s, failure))
<1>1. CASE CanRetry(s, failure)
  <2> DEFINE d == [s EXCEPT !.phase = "backoff"]
  <2>1. AfterFailure(s, failure) = d
    BY <1>1 DEF AfterFailure
  <2>2. d.final = s.final /\ d.phase = "backoff" /\ d.checked = s.checked /\ d.failures = s.failures
    BY DEF StreamSound, StreamFields
  <2> HIDE DEF d
  <2>3. QED
    BY <2>1, <2>2 DEF Silent
<1>2. CASE ~CanRetry(s, failure)
  <2>1. \/ AfterFailure(s, failure) = Finals(s, "failed", failure.kind, <<>>, {})
        \/ AfterFailure(s, failure)
             = Finals(s, "degraded", failure.kind, <<>>, Identities(s.evidence))
    BY <1>2 DEF AfterFailure, EvidenceOnly
  <2>2. QED
    BY <2>1, OtherFinals
<1>3. QED
  BY <1>1, <1>2

\* A verification begins with the claims of a reply, and with the rows of now.
Begins(r) ==
  \E m \in Outside.replies :
    /\ stream[r].phase = "calling" /\ DraftAccepted(stream[r].packed.evidence, m.claims)
    /\ Set(r, [stream[r] EXCEPT !.phase = "verifying", !.claims = m.claims])
    /\ since' = [since EXCEPT ![r] = {policies}]

\* What one request may do, to its own generator and history alone.
Moves(r) ==
  /\ UNCHANGED <<policies, world>>
  /\ \E d : Set(r, d)
  /\ \/ since' = since \/ \E tables : since' = [since EXCEPT ![r] = tables]
  /\ \/ Silent(stream[r], stream'[r]) \/ Begins(r)
     \/ (\E up \in BOOLEAN : VerifyClaim(r, up)) \/ Conclude(r)

\* A step of a request is one of those.
LEMMA RequestMoves ==
  ASSUME AskInv, NEW r \in Requests,
         Ask(r) \/ Refuse(r) \/ Step(r) \/ Disconnect(r) \/ Abandon(r)
  PROVE  Moves(r)
<1> DEFINE u == stream[r]
<1>0. StreamSound(u)
  BY DEF AskInv, StreamsSound
<1>1. UNCHANGED <<policies, world>>
  BY DEF Ask, Refuse, Step, Disconnect, Abandon, Begin, RetrievalFails, Retrieve, Attempt,
         Resume, Delta, ProviderFails, ProviderStops, ProviderCompletes, VerifyClaim, Conclude,
         Raises, Finish, environment
<1>2. since' = since \/ \E tables : since' = [since EXCEPT ![r] = tables]
  <2>1. \/ since' = since \/ since' = [since EXCEPT ![r] = {}]
        \/ since' = [since EXCEPT ![r] = {policies}]
    BY DEF Ask, Refuse, Step, Disconnect, Abandon, Begin, RetrievalFails, Retrieve, Attempt,
           Resume, Delta, ProviderFails, ProviderStops, ProviderCompletes, VerifyClaim, Conclude,
           Raises, Finish, Ends
  <2>2. QED
    BY <2>1
<1>3. ASSUME NEW d, Set(r, d), Silent(u, d) PROVE Moves(r)
  <2>1. stream'[r] = d
    BY <1>3, OneMoves DEF AskInv
  <2>2. QED
    BY <1>1, <1>2, <1>3, <2>1 DEF Moves
<1>4. CASE Ask(r) \/ Refuse(r) \/ Finish(r) \/ Raises(r) \/ Disconnect(r) \/ Abandon(r)
  <2>1. PICK p \in {"opened", "closed"} : Set(r, [Idle EXCEPT !.phase = p])
    BY <1>4 DEF Ask, Refuse, Finish, Raises, Disconnect, Abandon, Ends
  <2>2. QED
    BY <1>3, <2>1, IdleSilent
<1>5. CASE Begin(r) \/ Retrieve(r) \/ Attempt(r) \/ Resume(r) \/ (\E word : Delta(r, word))
  <2>1. PICK d : Set(r, d)
    BY <1>5, RetrieveSound DEF Begin, Attempt, Resume, Delta
  <2>2. QED
    BY <1>3, <1>5, <2>1, SilentMoves
<1>6. CASE RetrievalFails(r) \/ ProviderStops(r)
  <2>1. PICK reason : Set(r, Finals(u, "failed", reason, <<>>, {}))
    BY <1>6 DEF RetrievalFails, ProviderStops
  <2>2. QED
    BY <1>0, <1>3, <2>1, OtherFinals
<1>7. ASSUME NEW failure, Fails(r, failure), u.phase = "calling" PROVE Moves(r)
  BY <1>0, <1>3, <1>7, SilentFailure DEF Fails
<1>8. ASSUME NEW m \in Outside.replies, ProviderCompletes(r, m) PROVE Moves(r)
  <2>1. /\ u.phase = "calling"
        /\ \/ Fails(r, Failure[ParseFailure(m)])
           \/ Set(r, Drafted(u, m.claims)) /\ since' = [since EXCEPT ![r] = {policies}]
    BY <1>8 DEF ProviderCompletes, Runs
  <2>2. CASE Fails(r, Failure[ParseFailure(m)])
    BY <1>7, <2>1, <2>2
  <2>3. CASE Set(r, Drafted(u, m.claims)) /\ since' = [since EXCEPT ![r] = {policies}]
    <3>1. CASE DraftAccepted(u.packed.evidence, m.claims)
      <4>1. Set(r, [u EXCEPT !.phase = "verifying", !.claims = m.claims])
        BY <2>3, <3>1 DEF Drafted
      <4>2. Begins(r)
        BY <2>1, <2>3, <3>1, <4>1 DEF Begins
      <4>3. QED
        BY <1>1, <1>2, <4>1, <4>2 DEF Moves
    <3>2. CASE ~DraftAccepted(u.packed.evidence, m.claims)
      <4>1. Set(r, Finals(u, "failed", "malformed", <<>>, {}))
        BY <2>3, <3>2 DEF Drafted
      <4>2. QED
        BY <1>0, <1>3, <4>1, OtherFinals
    <3>3. QED
      BY <3>1, <3>2
  <2>4. QED
    BY <2>1, <2>2, <2>3
<1>9. CASE (\E up \in BOOLEAN : VerifyClaim(r, up)) \/ Conclude(r)
  <2>1. \E d : Set(r, d)
    BY <1>9 DEF VerifyClaim, Conclude
  <2>2. QED
    BY <1>1, <1>2, <1>9, <2>1 DEF Moves
<1>10. CASE \E outcome \in Outside.outcomes \cap DOMAIN Failure : ProviderFails(r, outcome)
  BY <1>7, <1>10 DEF ProviderFails, Runs
<1>11. QED
  BY <1>4, <1>5, <1>6, <1>8, <1>9, <1>10 DEF Step

\* The item a citation names is the one of its identity.
LEMMA ResolvedFacts ==
  ASSUME NEW S, NEW evidence \in Seq(S),
         \A i, k \in S : Identity(i) = Identity(k) => i = k,
         NEW i \in ToSet(evidence)
  PROVE  Resolved(Identity(i), evidence) = i
<1> DEFINE cite == Identity(i)
           First(n) == /\ Identity(evidence[n]) = cite
                       /\ \A k \in 1..(n - 1) : Identity(evidence[k]) # cite
           place == CHOOSE n \in DOMAIN evidence : First(n)
           T == {n \in DOMAIN evidence : Identity(evidence[n]) = cite}
<1>1. DOMAIN evidence = 1..Len(evidence) /\ Len(evidence) \in Nat
  OBVIOUS
<1>2. T \subseteq Nat /\ T # {}
  BY <1>1 DEF ToSet
<1>3. PICK n \in T : \A m \in T : n <= m
  BY <1>2, LeastNat
<1>4. \A k \in 1..(n - 1) : k \in DOMAIN evidence /\ ~(n <= k)
  BY <1>1
<1>5. First(n) /\ n \in DOMAIN evidence
  BY <1>3, <1>4
<1>6. place \in DOMAIN evidence /\ First(place)
  BY <1>5
<1>7. Resolved(cite, evidence) = evidence[place]
  BY DEF Resolved
<1> HIDE DEF place
<1>8. evidence[place] \in S /\ i \in S /\ Identity(evidence[place]) = Identity(i)
  BY <1>6 DEF ToSet
<1>9. QED
  BY <1>7, <1>8

\* The evidence a claim cites.
Cited(evidence, claim) == {i \in ToSet(evidence) : Identity(i) \in ToSet(claim.cites)}

\* What the constructor of the draft and the verifier leave of a claim without
\* failures: it cites packed evidence that may be read and that has its words.
LEMMA ClaimGrounded ==
  ASSUME NEW S, NEW evidence \in Seq(S),
         \A i, k \in S : Identity(i) = Identity(k) => i = k,
         NEW packed, ToSet(packed) \subseteq ToSet(evidence),
         NEW claim, claim.cites \in Seq(ToSet(claim.cites)), claim.cites # <<>>,
         \A cite \in ToSet(claim.cites) : cite \in {Identity(i) : i \in ToSet(packed)},
         NEW readable, ClaimFailures(claim, evidence, readable) = {}
  PROVE  /\ Cited(evidence, claim) # {} /\ Cited(evidence, claim) \subseteq ToSet(packed)
         /\ \A i \in Cited(evidence, claim) : Reference(i) \in readable
         /\ Tokens(claim.text) \subseteq UNION {Tokens(i.text) : i \in Cited(evidence, claim)}
<1> DEFINE cites == ToSet(claim.cites)
           cited == Cited(evidence, claim)
           items == {Resolved(c, evidence) : c \in cites}
           refs == {Reference(i) : i \in items}
           words == UNION {Tokens(i.text) : i \in items}
           unresolved == UNION {ResolveFailures(c, evidence) : c \in cites}
<1>1. ClaimFailures(claim, evidence, readable)
        = IF unresolved # {} THEN unresolved
          ELSE IF ~(refs \subseteq readable) THEN {"evidence_unauthorized"}
          ELSE IF ~(Tokens(claim.text) \subseteq words)
          THEN {"unsupported_claim"} ELSE {}
  BY DEF ClaimFailures
<1> HIDE DEF unresolved, refs, words
<1>2. refs \subseteq readable /\ Tokens(claim.text) \subseteq words
  BY <1>1
<1>3. \A i \in ToSet(evidence) : Resolved(Identity(i), evidence) = i
  BY ResolvedFacts
<1>4. \A i, k \in ToSet(evidence) : Identity(i) = Identity(k) => i = k
  BY DEF ToSet
<1>5. \A c \in cites : \E i \in ToSet(packed) : c = Identity(i) /\ i \in ToSet(evidence)
  OBVIOUS
<1>6. cites # {}
  <2> DEFINE list == claim.cites
  <2>1. list \in Seq(ToSet(list)) /\ list # <<>>
    OBVIOUS
  <2> HIDE DEF list
  <2>2. 1 \in DOMAIN list
    BY <2>1
  <2>3. list[1] \in ToSet(list)
    BY <2>2 DEF ToSet
  <2>4. QED
    BY <2>3 DEF list
<1> HIDE DEF cites
<1>7. cited = {i \in ToSet(evidence) : Identity(i) \in cites}
  BY DEF Cited, cites
<1> HIDE DEF cited
<1>8. items = cited
  <2>1. ASSUME NEW c \in cites PROVE Resolved(c, evidence) \in cited
    <3>1. PICK i \in ToSet(packed) : c = Identity(i) /\ i \in ToSet(evidence)
      BY <1>5
    <3>2. Resolved(c, evidence) = i
      BY <1>3, <3>1
    <3>3. QED
      BY <1>7, <3>1, <3>2
  <2>2. ASSUME NEW i \in cited PROVE i \in items
    <3>1. i \in ToSet(evidence) /\ Identity(i) \in cites
      BY <1>7
    <3>2. Resolved(Identity(i), evidence) = i
      BY <1>3, <3>1
    <3>3. QED
      BY <3>1, <3>2
  <2>3. QED
    BY <2>1, <2>2
<1>9. cited \subseteq ToSet(packed)
  BY <1>4, <1>5, <1>7
<1>10. cited # {}
  BY <1>5, <1>6, <1>7
<1> HIDE DEF items
<1>11. \A i \in cited : Reference(i) \in readable
  BY <1>2, <1>8 DEF refs
<1>12. Tokens(claim.text) \subseteq UNION {Tokens(i.text) : i \in cited}
  BY <1>2, <1>8 DEF words
<1>13. QED
  BY <1>9, <1>10, <1>11, <1>12 DEF cited

\* Two different elements make a set larger than one.
LEMMA TwoElements ==
  ASSUME NEW T, IsFiniteSet(T), NEW a \in T, NEW b \in T, a # b
  PROVE  Cardinality(T) > 1
<1>1. {a, b} \in SUBSET T
  OBVIOUS
<1>2. IsFiniteSet({b}) /\ Cardinality({b}) = 1
  BY FS_Singleton
<1>3. Cardinality({b} \cup {a}) = Cardinality({b}) + 1
  BY <1>2, FS_AddElement
<1>4. {b} \cup {a} = {a, b}
  OBVIOUS
<1>5. Cardinality({a, b}) <= Cardinality(T)
  BY <1>1, FS_Subset
<1>6. Cardinality(T) \in Nat
  BY FS_CardinalityType
<1>7. QED
  BY <1>2, <1>3, <1>4, <1>5, <1>6

\* What the decision to answer says of the versions of one document.
LEMMA NoConflict ==
  ASSUME NEW S, NEW packed \in Seq(S), ~Irreconcilable(packed),
         NEW i \in ToSet(packed), NEW k \in ToSet(packed), i.document = k.document
  PROVE  i.version = k.version \/ i.text = k.text
<1> SUFFICES ASSUME i.version # k.version, i.text # k.text PROVE FALSE
  OBVIOUS
<1> DEFINE d == i.document
           same == {e \in ToSet(packed) : e.document = d}
           versions == {e.version : e \in same}
           texts == {e.text : e \in same}
<1>1. i \in same /\ k \in same
  OBVIOUS
<1>2. IsFiniteSet(ToSet(packed))
  <2>1. IsFiniteSet(1..Len(packed))
    BY FS_Interval
  <2>2. ToSet(packed) = {packed[n] : n \in 1..Len(packed)}
    BY DEF ToSet
  <2> DEFINE at == [n \in 1..Len(packed) |-> packed[n]]
  <2>3. at \in Surjection(1..Len(packed), ToSet(packed))
    BY <2>2 DEF Surjection
  <2>4. QED
    BY <2>1, <2>3, FS_Surjection
<1>3. IsFiniteSet(same)
  <2>1. same \in SUBSET ToSet(packed)
    OBVIOUS
  <2> HIDE DEF same
  <2>2. QED
    BY <1>2, <2>1, FS_Subset
<1> HIDE DEF same
<1>4. IsFiniteSet(versions) /\ IsFiniteSet(texts)
  <2> DEFINE v == [e \in same |-> e.version]
             t == [e \in same |-> e.text]
  <2>1. v \in Surjection(same, versions) /\ t \in Surjection(same, texts)
    BY DEF Surjection
  <2>2. QED
    BY <1>3, <2>1, FS_Surjection
<1>5. /\ i.version \in versions /\ k.version \in versions
      /\ i.text \in texts /\ k.text \in texts
  BY <1>1
<1> HIDE DEF versions, texts
<1>6. Cardinality(versions) > 1 /\ Cardinality(texts) > 1
  BY <1>4, <1>5, TwoElements
<1>7. d \in Conflicts(packed)
  BY <1>6, Zenon DEF Conflicts, versions, same
<1>8. Irreconcilable(packed)
  BY <1>6, <1>7, Zenon DEF Irreconcilable, texts, same
<1>9. QED
  BY <1>8

\* A live row that names the reader.
LiveRow(p, principal, reference) ==
  /\ <<p.tenant, p.document, p.version>> = reference
  /\ ~p.deleted
  /\ p.policy \cap SearchScope(principal) # {}

\* The enforcer's answer is such a row.
LEMMA ReadsAuthorized ==
  ASSUME NEW principal, NEW references, NEW rows, NEW reference,
         reference \in AuthorizeReads(principal, references, rows)
  PROVE  /\ reference[1] = principal.tenant
         /\ \E p \in rows : LiveRow(p, principal, reference)
<1>1. /\ principal.known /\ reference[1] = principal.tenant
      /\ \E p \in rows : /\ <<p.tenant, p.document, p.version>> = reference
                         /\ ~p.deleted
                         /\ AuthorizeReason(principal, p) \in Allowed
  BY Zenon DEF AuthorizeReads
<1>2. ASSUME NEW p, AuthorizeReason(principal, p) \in Allowed
      PROVE  p.policy \cap SearchScope(principal) # {}
  <2> DEFINE roles == Named("role", principal.roles)
             groups == Named("group", principal.groups)
  <2>1. SearchScope(principal) = {Public, <<"principal", principal.id>>} \cup roles \cup groups
    BY <1>1 DEF SearchScope
  <2>2. AuthorizeReason(principal, p) =
          CASE ~principal.known                           -> "unknown_principal"
            [] principal.tenant # p.tenant                -> "cross_tenant"
            [] Public \in p.policy                        -> "public"
            [] <<"principal", principal.id>> \in p.policy -> "principal"
            [] roles \cap p.policy # {}                   -> "role"
            [] groups \cap p.policy # {}                  -> "group"
            [] OTHER                                      -> "policy_denied"
    BY DEF AuthorizeReason
  <2> HIDE DEF roles, groups
  <2>3. \/ Public \in p.policy \/ <<"principal", principal.id>> \in p.policy
        \/ roles \cap p.policy # {} \/ groups \cap p.policy # {}
    <3> SUFFICES ASSUME Public \notin p.policy, <<"principal", principal.id>> \notin p.policy,
                        ~(roles \cap p.policy # {}), ~(groups \cap p.policy # {})
                 PROVE  FALSE
      OBVIOUS
    <3>1. AuthorizeReason(principal, p) \in {"cross_tenant", "policy_denied", "unknown_principal"}
      BY <2>2
    <3>2. QED
      BY <1>2, <3>1 DEF Allowed
  <2>4. QED
    BY <2>1, <2>3
<1>3. PICK p \in rows : /\ <<p.tenant, p.document, p.version>> = reference
                       /\ ~p.deleted
                       /\ AuthorizeReason(principal, p) \in Allowed
  BY <1>1
<1>4. LiveRow(p, principal, reference)
  BY <1>2, <1>3 DEF LiveRow
<1>5. QED
  BY <1>1, <1>4

\* A claim has no failures by what these rows let the reader read, or by none.
Passed(s, claim, rows) ==
  \E readable \in {{}, AuthorizeReads(Principal, {Reference(i) : i \in ToSet(s.evidence)}, rows)} :
    ClaimFailures(claim, s.evidence, readable) = {}

\* A verification in progress: each claim so far was held against rows that were
\* in force at one moment since the reply, among them those of now.
Vetted(s, tables) ==
  /\ s.claims \in Seq(ToSet(s.claims))
  /\ \A c \in ToSet(s.claims) : c.cites \in Seq(ToSet(c.cites))
  /\ DraftAccepted(s.packed.evidence, s.claims)
  /\ s.checked \in 0..Len(s.claims)
  /\ s.failures = {} => \A n \in 1..s.checked : \E rows \in tables : Passed(s, s.claims[n], rows)

VerifiedSoFar(s, tables, rows) ==
  /\ s.phase \notin {"verifying", "final"} => s.checked = 0 /\ s.failures = {}
  /\ s.phase = "verifying" => rows \in tables /\ Vetted(s, tables)

VerifyInv ==
  /\ DOMAIN since = Requests
  /\ \A r \in Requests : VerifiedSoFar(stream[r], since[r], policies)

\* A reply's claims are a sequence.
LEMMA RepliesClaim ==
  ASSUME world \in DOMAIN Worlds, NEW m \in Outside.replies
  PROVE  m.claims \in Seq(ToSet(m.claims))
<1>1. Worlds[world] \in ToSet(Worlds)
  BY DEF ToSet
<1>2. \A n \in Worlds[world].replies : n.claims \in Seq(ToSet(n.claims))
  BY <1>1, AskAssumption, Zenon
<1>3. QED
  BY <1>2, Zenon DEF Outside

\* Nothing is verified at first.
LEMMA VerifyInit == Init => VerifyInv
<1> SUFFICES ASSUME Init PROVE VerifyInv
  OBVIOUS
<1>1. Idle.phase = "idle" /\ Idle.checked = 0 /\ Idle.failures = {}
  BY DEF Idle
<1>2. DOMAIN since = Requests /\ \A r \in Requests : stream[r] = Idle
  BY DEF Init
<1>3. QED
  BY <1>1, <1>2 DEF VerifyInv, VerifiedSoFar

\* The first claim is still to be looked at.
LEMMA BeginsSound ==
  ASSUME AskInv, VerifyInv, NEW r \in Requests, Begins(r)
  PROVE  VerifiedSoFar(stream'[r], since'[r], policies)
<1> DEFINE u == stream[r]
<1>1. PICK m \in Outside.replies :
        /\ u.phase = "calling" /\ DraftAccepted(u.packed.evidence, m.claims)
        /\ Set(r, [u EXCEPT !.phase = "verifying", !.claims = m.claims])
        /\ since' = [since EXCEPT ![r] = {policies}]
  BY DEF Begins
<1> DEFINE d == [u EXCEPT !.phase = "verifying", !.claims = m.claims]
<1>2. stream'[r] = d /\ since'[r] = {policies} /\ StreamSound(u)
  BY <1>1, OneMoves DEF AskInv, VerifyInv, StreamsSound
<1>3. u.checked = 0 /\ u.failures = {}
  BY <1>1 DEF VerifyInv, VerifiedSoFar
<1> HIDE DEF u
<1>4. /\ d.phase = "verifying" /\ d.claims = m.claims /\ d.packed = u.packed
      /\ d.checked = 0 /\ d.failures = {}
  BY <1>2, <1>3 DEF StreamSound, StreamFields
<1>5. world \in DOMAIN Worlds
  BY DEF AskInv, ClockSound
<1>6. /\ m.claims \in Seq(ToSet(m.claims))
      /\ \A c \in ToSet(m.claims) : c.cites \in Seq(ToSet(c.cites))
  BY <1>5, RepliesClaim, RepliesCite
<1>7. 0 \in 0..Len(m.claims) /\ 1..0 = {}
  <2> DEFINE claims == m.claims
  <2>1. claims \in Seq(ToSet(claims))
    BY <1>6
  <2> HIDE DEF claims
  <2>2. Len(claims) \in Nat
    BY <2>1
  <2>3. QED
    BY <2>2 DEF claims
<1> HIDE DEF d
<1>8. Vetted(d, {policies})
  BY <1>1, <1>4, <1>6, <1>7 DEF Vetted
<1>9. VerifiedSoFar(d, {policies}, policies)
  BY <1>4, <1>8 DEF VerifiedSoFar
<1>10. QED
  BY <1>2, <1>9

\* One claim more: held against the rows of now.
LEMMA VerifyClaimSound ==
  ASSUME AskInv, VerifyInv, NEW r \in Requests, NEW up \in BOOLEAN, VerifyClaim(r, up)
  PROVE  VerifiedSoFar(stream'[r], since'[r], policies)
<1> DEFINE u == stream[r]
           claim == u.claims[u.checked + 1]
           readable == VerifierReads(u, up)
           more == u.failures \cup ClaimFailures(claim, u.evidence, readable)
           d == [u EXCEPT !.checked = @ + 1, !.failures = more]
<1>1. /\ u.phase = "verifying" /\ u.checked < Len(u.claims) /\ UNCHANGED since
      /\ Set(r, d)
  BY DEF VerifyClaim, Runs
<1>2. stream'[r] = d /\ StreamSound(u)
  BY <1>1, OneMoves DEF AskInv, StreamsSound
<1>3. policies \in since[r] /\ Vetted(u, since[r])
  BY <1>1 DEF VerifyInv, VerifiedSoFar
<1>4. \/ readable = {}
      \/ readable = AuthorizeReads(Principal, {Reference(i) : i \in ToSet(u.evidence)}, policies)
  BY DEF VerifierReads, Readable
<1> HIDE DEF u, readable, claim
<1>5. ClaimFailures(claim, u.evidence, readable) = {} => Passed(u, claim, policies)
  BY <1>4 DEF Passed
<1> HIDE DEF more
<1>6. /\ d.phase = "verifying" /\ d.claims = u.claims /\ d.packed = u.packed
      /\ d.evidence = u.evidence /\ d.checked = u.checked + 1 /\ d.failures = more
  BY <1>1, <1>2 DEF StreamSound, StreamFields
<1> HIDE DEF d
<1>7. u.checked \in 0..Len(u.claims) /\ Len(u.claims) \in Nat
  <2> DEFINE claims == u.claims
  <2>1. claims \in Seq(ToSet(claims)) /\ u.checked \in 0..Len(claims)
    BY <1>3 DEF Vetted
  <2> HIDE DEF claims
  <2>2. Len(claims) \in Nat
    BY <2>1
  <2>3. QED
    BY <2>1, <2>2 DEF claims
<1>8. d.checked \in 0..Len(d.claims)
  BY <1>1, <1>6, <1>7
<1>9. ASSUME d.failures = {}, NEW n \in 1..d.checked
      PROVE  \E rows \in since[r] : Passed(d, d.claims[n], rows)
  <2>1. u.failures = {} /\ ClaimFailures(claim, u.evidence, readable) = {}
    BY <1>6, <1>9 DEF more
  <2>2. n \in 1..u.checked \/ n = u.checked + 1
    BY <1>6, <1>7
  <2>3. \E rows \in since[r] : Passed(u, u.claims[n], rows)
    <3>1. CASE n \in 1..u.checked
      BY <1>3, <2>1, <3>1 DEF Vetted
    <3>2. CASE n = u.checked + 1
      <4>1. Passed(u, u.claims[n], policies)
        BY <1>5, <2>1, <3>2 DEF claim
      <4>2. QED
        BY <1>3, <4>1
    <3>3. QED
      BY <2>2, <3>1, <3>2
  <2>4. \A c, rows : Passed(d, c, rows) <=> Passed(u, c, rows)
    BY <1>6 DEF Passed
  <2>5. QED
    BY <1>6, <2>3, <2>4
<1>10. /\ d.claims \in Seq(ToSet(d.claims)) /\ DraftAccepted(d.packed.evidence, d.claims)
       /\ \A c \in ToSet(d.claims) : c.cites \in Seq(ToSet(c.cites))
  BY <1>3, <1>6 DEF Vetted
<1>11. Vetted(d, since[r])
  BY <1>8, <1>9, <1>10 DEF Vetted
<1>12. VerifiedSoFar(d, since[r], policies)
  BY <1>3, <1>6, <1>11 DEF VerifiedSoFar
<1>13. since'[r] = since[r]
  BY <1>1
<1>14. QED
  BY <1>2, <1>12, <1>13

\* With the invariant of the streams, this one is inductive.
THEOREM VerifyStepSound == AskInv /\ VerifyInv /\ [Next]_vars => VerifyInv'
<1> SUFFICES ASSUME AskInv, VerifyInv, [Next]_vars PROVE VerifyInv'
  OBVIOUS
<1>1. ASSUME NEW r \in Requests, Ask(r) \/ Refuse(r) \/ Step(r) \/ Disconnect(r) \/ Abandon(r)
      PROVE  VerifyInv'
  <2>1. Moves(r)
    BY <1>1, RequestMoves
  <2>2. /\ policies' = policies
        /\ \/ Silent(stream[r], stream'[r]) \/ Begins(r)
           \/ (\E up \in BOOLEAN : VerifyClaim(r, up)) \/ Conclude(r)
    BY <2>1 DEF Moves
  <2>3. \A q \in Requests \ {r} : stream'[q] = stream[q]
    <3>1. PICK d : Set(r, d)
      BY <2>1 DEF Moves
    <3>2. QED
      BY <3>1, OneMoves DEF AskInv
  <2>4. DOMAIN since' = Requests /\ \A q \in Requests \ {r} : since'[q] = since[q]
    <3>1. since' = since \/ \E tables : since' = [since EXCEPT ![r] = tables]
      BY <2>1 DEF Moves
    <3>2. QED
      BY <3>1 DEF VerifyInv
  <2>5. VerifiedSoFar(stream'[r], since'[r], policies)
    <3>1. CASE Silent(stream[r], stream'[r])
      BY <3>1 DEF Silent, VerifyInv, VerifiedSoFar
    <3>2. CASE Begins(r)
      BY <3>2, BeginsSound
    <3>3. CASE \E up \in BOOLEAN : VerifyClaim(r, up)
      BY <3>3, VerifyClaimSound
    <3>4. CASE Conclude(r)
      <4>1. PICK d : Set(r, d) /\ d.phase = "final"
        BY <3>4, ConcludeSound
      <4>2. stream'[r].phase = "final"
        BY <4>1, OneMoves DEF AskInv
      <4>3. QED
        BY <4>2 DEF VerifiedSoFar
    <3>5. QED
      BY <2>2, <3>1, <3>2, <3>3, <3>4
  <2>6. \A q \in Requests : VerifiedSoFar(stream'[q], since'[q], policies')
    BY <2>2, <2>3, <2>4, <2>5 DEF VerifyInv
  <2>7. QED
    BY <2>4, <2>6 DEF VerifyInv
<1>2. CASE PolicyChange
  <2>1. /\ UNCHANGED stream
        /\ since' = [r \in Requests |-> IF stream[r].phase = "verifying"
                                        THEN since[r] \cup {policies'} ELSE since[r]]
    BY <1>2 DEF PolicyChange
  <2>2. ASSUME NEW s, NEW tables, Vetted(s, tables) PROVE Vetted(s, tables \cup {policies'})
    <3>1. s.failures = {} =>
            \A n \in 1..s.checked :
              \E rows \in tables \cup {policies'} : Passed(s, s.claims[n], rows)
      BY <2>2 DEF Vetted
    <3>2. QED
      BY <2>2, <3>1 DEF Vetted
  <2>3. ASSUME NEW r \in Requests PROVE VerifiedSoFar(stream'[r], since'[r], policies')
    <3>1. CASE stream[r].phase = "verifying"
      <4>1. Vetted(stream[r], since[r] \cup {policies'})
        BY <2>2, <3>1 DEF VerifyInv, VerifiedSoFar
      <4>2. since'[r] = since[r] \cup {policies'} /\ stream'[r] = stream[r]
        BY <2>1, <3>1
      <4>3. QED
        BY <3>1, <4>1, <4>2 DEF VerifiedSoFar
    <3>2. CASE stream[r].phase # "verifying"
      BY <2>1, <3>2 DEF VerifyInv, VerifiedSoFar
    <3>3. QED
      BY <3>1, <3>2
  <2>4. DOMAIN since' = Requests
    BY <2>1
  <2>5. QED
    BY <2>3, <2>4 DEF VerifyInv
<1>3. CASE Crash
  <2> DEFINE over == [Idle EXCEPT !.phase = "closed"]
  <2>1. /\ stream' = [r \in Requests |-> IF Open(r) THEN over ELSE stream[r]]
        /\ since' = [r \in Requests |-> {}]
    BY <1>3 DEF Crash
  <2>2. over.phase = "closed" /\ over.checked = 0 /\ over.failures = {}
    BY DEF Idle
  <2> HIDE DEF over
  <2>3. ASSUME NEW r \in Requests PROVE VerifiedSoFar(stream'[r], since'[r], policies')
    <3>1. stream'[r] = over \/ (stream'[r] = stream[r] /\ stream[r].phase \in {"idle", "closed"})
      BY <2>1 DEF Open
    <3>2. QED
      BY <2>2, <3>1 DEF VerifyInv, VerifiedSoFar
  <2>4. QED
    BY <2>1, <2>3 DEF VerifyInv
<1>4. CASE Tick \/ UNCHANGED vars
  <2>1. UNCHANGED <<stream, since, policies>>
    BY <1>4 DEF Tick, vars
  <2>2. QED
    BY <2>1 DEF VerifyInv
<1>5. QED
  BY <1>1, <1>2, <1>3, <1>4 DEF Next

\* Every reachable state satisfies it.
THEOREM VerifySafety == Spec => []VerifyInv
<1>1. QED
  BY VerifyInit, AskSafety, VerifyStepSound, PTL DEF Spec

\* What the property says of one claim of an answer.
GroundedClaim(claim, evidence, sources, tables) ==
  LET cited == Cited(evidence, claim)
  IN /\ cited # {}
     /\ ToSet(claim.cites) \subseteq sources
     /\ Tokens(claim.text) \subseteq UNION {Tokens(i.text) : i \in cited}
     /\ \E rows \in tables : \A i \in cited : \E p \in rows :
          /\ Reference(i) = <<Principal.tenant, p.document, p.version>>
          /\ ~p.deleted /\ p.policy \cap SearchScope(Principal) # {}
     /\ \A i, k \in cited : (i.document = k.document) => (i.version = k.version \/ i.text = k.text)

\* Every claim that passed is grounded in what those rows let the reader read.
LEMMA PassedGrounded ==
  ASSUME AskInv, NEW s, GroundSound(s), NEW claim \in ToSet(s.claims),
         NEW tables, NEW rows \in tables,
         Passed(s, claim, rows), claim.cites \in Seq(ToSet(claim.cites)),
         DraftAccepted(s.packed.evidence, s.claims), ~Irreconcilable(s.packed.evidence)
  PROVE  GroundedClaim(claim, s.evidence, CitedSources(s.claims, s.evidence), tables)
<1> DEFINE evidence == s.evidence
           packed == s.packed.evidence
           claims == s.claims
           references == {Reference(k) : k \in ToSet(evidence)}
           cited == Cited(evidence, claim)
           sources == CitedSources(claims, evidence)
<1>1. world \in DOMAIN Worlds
  BY DEF AskInv, ClockSound
<1>2. /\ evidence \in Seq(Hits) /\ packed \in Seq(Hits) /\ ToSet(packed) \subseteq ToSet(evidence)
  BY DEF GroundSound, PackedSound
<1>3. PICK readable \in {{}, AuthorizeReads(Principal, references, rows)} :
        ClaimFailures(claim, evidence, readable) = {}
  BY DEF Passed
<1>4. /\ claim.cites # <<>>
      /\ \A cite \in ToSet(claim.cites) : cite \in {Identity(i) : i \in ToSet(packed)}
  BY Zenon DEF DraftAccepted
<1>5. \A i, k \in Hits : Identity(i) = Identity(k) => i = k
  BY <1>1, WorldHits
<1>6. claim \in ToSet(claims) /\ ~Irreconcilable(packed)
  OBVIOUS
<1> HIDE DEF evidence, packed, claims
<1>7. /\ cited # {} /\ cited \subseteq ToSet(packed)
      /\ \A i \in cited : Reference(i) \in readable
      /\ Tokens(claim.text) \subseteq UNION {Tokens(i.text) : i \in cited}
  BY <1>2, <1>3, <1>4, <1>5, ClaimGrounded
<1> HIDE DEF cited, sources
<1>8. ASSUME NEW i \in cited
      PROVE  \E p \in rows :
               /\ Reference(i) = <<Principal.tenant, p.document, p.version>>
               /\ ~p.deleted /\ p.policy \cap SearchScope(Principal) # {}
  <2> DEFINE reference == Reference(i)
  <2>1. reference \in AuthorizeReads(Principal, references, rows)
    BY <1>3, <1>7
  <2>2. reference = <<i.tenant, i.document, i.version>>
    BY DEF Reference
  <2> HIDE DEF reference, references
  <2>3. reference[1] = Principal.tenant
    BY <2>1, ReadsAuthorized
  <2>4. PICK p \in rows : LiveRow(p, Principal, reference)
    BY <2>1, ReadsAuthorized
  <2>5. reference = <<Principal.tenant, p.document, p.version>>
    BY <2>3, <2>4 DEF LiveRow
  <2>6. QED
    BY <2>4, <2>5, Zenon DEF reference, LiveRow
<1>9. ASSUME NEW i \in cited, NEW k \in cited, i.document = k.document
      PROVE  i.version = k.version \/ i.text = k.text
  BY <1>2, <1>6, <1>7, <1>9, NoConflict
<1>10. ToSet(claim.cites) \subseteq sources
  <2> SUFFICES ASSUME NEW c \in ToSet(claim.cites) PROVE c \in CitedSources(claims, evidence)
    BY DEF sources
  <2>1. c \in {Identity(i) : i \in ToSet(packed)}
    BY <1>4
  <2>2. c \in {Identity(i) : i \in ToSet(evidence)}
    BY <1>2, <2>1
  <2>3. c \in UNION {ToSet(k.cites) : k \in ToSet(claims)}
    BY <1>6
  <2>4. QED
    BY <2>2, <2>3 DEF CitedSources
<1>11. QED
  BY <1>7, <1>8, <1>9, <1>10 DEF GroundedClaim, cited, evidence, sources, claims

\* An answer is the end of a verification that found nothing wrong.
LEMMA AnsweredBy ==
  ASSUME AskInv, VerifyInv, [Next]_vars, NEW r \in Requests,
         stream'[r].final # stream[r].final, stream'[r].final.status = "verified"
  PROVE  LET s == stream[r]
         IN  /\ Vetted(s, since[r]) /\ s.checked = Len(s.claims) /\ s.failures = {}
             /\ ~Irreconcilable(s.packed.evidence)
             /\ stream'[r].final.claims = s.claims
             /\ stream'[r].final.sources = CitedSources(s.claims, s.evidence)
<1> DEFINE s == stream[r]
<1>0. StreamSound(s)
  BY DEF AskInv, StreamsSound
<1>1. ~Crash
  <2> SUFFICES ASSUME Crash PROVE FALSE
    OBVIOUS
  <2> DEFINE over == [Idle EXCEPT !.phase = "closed"]
  <2>1. stream'[r] = over \/ stream'[r] = stream[r]
    BY DEF Crash
  <2>2. over.final = NoFinal /\ NoFinal.status = "none"
    BY DEF Idle, NoFinal
  <2> HIDE DEF over
  <2>3. QED
    BY <2>1, <2>2
<1>2. PICK q \in Requests : Ask(q) \/ Refuse(q) \/ Step(q) \/ Disconnect(q) \/ Abandon(q)
  BY <1>1 DEF Next, Tick, PolicyChange, vars
<1>3. Moves(q)
  BY <1>2, RequestMoves
<1>4. q = r
  <2>1. PICK d : Set(q, d)
    BY <1>3 DEF Moves
  <2>2. \A x \in Requests \ {q} : stream'[x] = stream[x]
    BY <2>1, OneMoves DEF AskInv
  <2>3. QED
    BY <2>2
<1>5. \A d : Set(r, d) => stream'[r] = d
  BY OneMoves DEF AskInv
<1>6. ~Silent(stream[r], stream'[r])
  BY DEF Silent
<1>7. ~Begins(r)
  <2> SUFFICES ASSUME NEW claims,
                      Set(r, [stream[r] EXCEPT !.phase = "verifying", !.claims = claims])
               PROVE  FALSE
    BY DEF Begins
  <2>1. stream'[r] = [stream[r] EXCEPT !.phase = "verifying", !.claims = claims]
    BY <1>5
  <2>2. [stream[r] EXCEPT !.phase = "verifying", !.claims = claims].final = stream[r].final
    BY <1>0 DEF StreamSound, StreamFields
  <2>3. QED
    BY <2>1, <2>2
<1>8. ~\E up \in BOOLEAN : VerifyClaim(r, up)
  <2> SUFFICES ASSUME NEW failures,
                      Set(r, [stream[r] EXCEPT !.checked = @ + 1, !.failures = failures])
               PROVE  FALSE
    BY DEF VerifyClaim
  <2>1. stream'[r] = [stream[r] EXCEPT !.checked = @ + 1, !.failures = failures]
    BY <1>5
  <2>2. [stream[r] EXCEPT !.checked = @ + 1, !.failures = failures].final = stream[r].final
    BY <1>0 DEF StreamSound, StreamFields
  <2>3. QED
    BY <2>1, <2>2
<1>9. Conclude(r)
  BY <1>3, <1>4, <1>6, <1>7, <1>8 DEF Moves
<1> DEFINE reason == Decide(s.packed.evidence, s.failures)
           sources == CitedSources(s.claims, s.evidence)
           given == Finals(s, "verified", "none", s.claims, sources)
           none == Finals(s, "abstained", reason, <<>>, {})
<1>10. /\ s.phase = "verifying" /\ s.checked = Len(s.claims)
       /\ Set(r, IF reason # "none" THEN none ELSE given)
  BY <1>9 DEF Conclude, Runs
<1>11. Vetted(s, since[r])
  BY <1>10 DEF VerifyInv, VerifiedSoFar
<1>12. reason = IF s.packed.evidence = <<>> THEN "insufficient_evidence"
                ELSE IF Irreconcilable(s.packed.evidence) THEN "conflicting_evidence"
                ELSE IF s.failures # {} THEN "insufficient_evidence" ELSE "none"
  BY DEF Decide
<1> HIDE DEF s, reason, sources
<1>13. /\ none.final.status = "abstained"
       /\ given.final.claims = s.claims /\ given.final.sources = sources
  BY <1>0, FinalsTold
<1>14. stream'[r] = IF reason # "none" THEN none ELSE given
  BY <1>5, <1>10
<1> HIDE DEF none, given
<1>15. reason = "none" /\ stream'[r] = given
  BY <1>13, <1>14
<1>16. ~Irreconcilable(s.packed.evidence) /\ s.failures = {}
  BY <1>12, <1>15
<1>17. QED
  BY <1>10, <1>11, <1>13, <1>15, <1>16 DEF s, sources

\* An answer goes out only with claims each of which cites retrieved evidence that
\* this reader could read by the live rows of one moment between the reply and the
\* answer, has all its words from it, and quotes no document in two wordings: for
\* any replies, and policies that change between the queries of two claims.
THEOREM AnswersGrounded == Spec => AnswersAreGrounded
<1>1. ASSUME AskInv, GroundInv, VerifyInv, [Next]_vars, NEW r \in Requests,
             stream'[r].final # stream[r].final, stream'[r].final.status = "verified",
             NEW claim \in ToSet(stream'[r].final.claims)
      PROVE  GroundedClaim(claim, stream[r].evidence, stream'[r].final.sources, since[r])
  <2> DEFINE s == stream[r]
  <2>1. /\ Vetted(s, since[r]) /\ s.checked = Len(s.claims) /\ s.failures = {}
        /\ ~Irreconcilable(s.packed.evidence)
        /\ stream'[r].final.claims = s.claims
        /\ stream'[r].final.sources = CitedSources(s.claims, s.evidence)
    BY <1>1, AnsweredBy
  <2>2. GroundSound(s)
    BY <1>1 DEF GroundInv
  <2> HIDE DEF s
  <2> DEFINE claims == s.claims
  <2>3. claims \in Seq(ToSet(claims)) /\ claim \in ToSet(claims)
    BY <1>1, <2>1 DEF Vetted
  <2> HIDE DEF claims
  <2>4. DOMAIN claims = 1..Len(claims)
    BY <2>3
  <2>5. PICK n \in 1..Len(claims) : claim = claims[n]
    BY <2>3, <2>4 DEF ToSet
  <2>6. PICK rows \in since[r] : Passed(s, claim, rows)
    BY <2>1, <2>5 DEF Vetted, claims
  <2>7. /\ claim.cites \in Seq(ToSet(claim.cites)) /\ claim \in ToSet(s.claims)
        /\ DraftAccepted(s.packed.evidence, s.claims)
    BY <2>1, <2>3 DEF Vetted, claims
  <2>8. GroundedClaim(claim, s.evidence, CitedSources(s.claims, s.evidence), since[r])
    BY <1>1, <2>1, <2>2, <2>6, <2>7, PassedGrounded
  <2>9. QED
    BY <2>1, <2>8 DEF s
<1>2. AskInv /\ GroundInv /\ VerifyInv /\ [Next]_vars =>
        [\A r \in Requests :
           (stream'[r].final # stream[r].final /\ stream'[r].final.status = "verified") =>
             \A claim \in ToSet(stream'[r].final.claims) :
               LET cited == {i \in ToSet(stream[r].evidence) : Identity(i) \in ToSet(claim.cites)}
               IN /\ cited # {}
                  /\ ToSet(claim.cites) \subseteq stream'[r].final.sources
                  /\ Tokens(claim.text) \subseteq UNION {Tokens(i.text) : i \in cited}
                  /\ \E rows \in since[r] : \A i \in cited : \E p \in rows :
                       /\ Reference(i) = <<Principal.tenant, p.document, p.version>>
                       /\ ~p.deleted /\ p.policy \cap SearchScope(Principal) # {}
                  /\ \A i, k \in cited : (i.document = k.document) =>
                       (i.version = k.version \/ i.text = k.text)]_vars
  BY <1>1, Zenon DEF GroundedClaim, Cited
<1>3. QED
  BY <1>2, AskSafety, GroundSafety, VerifySafety, PTL DEF Spec, AnswersAreGrounded
=============================================================================
