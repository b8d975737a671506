---------------------------- MODULE CircuitBreaker ----------------------------
(***************************************************************************)
(* The circuit breaker in front of a dependency, as operators on its       *)
(* record. Every operation runs under the breaker's lock; what lies        *)
(* between an acquisition and the record of its result does not.           *)
(***************************************************************************)
EXTENDS Integers

CONSTANTS FailureThreshold, RecoveryTimeout, None

ASSUME BreakerAssumption ==
  /\ FailureThreshold \in Nat \ {0}
  /\ RecoveryTimeout \in Nat \ {0}
  /\ None \notin Nat

Closed == [state |-> "closed", failures |-> 0, openedAt |-> None]

\* Fault: an off-by-one admits a probe one unit before the timeout.
AcquiresEarly(b, now) ==
  b.state = "closed" \/ (b.state = "open" /\ now - b.openedAt >= RecoveryTimeout - 1)

\* Whether a call may begin; CircuitOpenError otherwise.
Acquires(b, now) ==
  b.state = "closed" \/ (b.state = "open" /\ now - b.openedAt >= RecoveryTimeout)

Acquired(b) == IF b.state = "open" THEN [b EXCEPT !.state = "half_open"] ELSE b

RecordSuccess(b) == Closed

Opened(b, now) == [b EXCEPT !.state = "open", !.openedAt = now]

\* Fault: a failed probe does not reopen the circuit.
RecordFailureCountOnly(b, now) ==
  IF b.failures + 1 >= FailureThreshold /\ b.state # "half_open"
  THEN Opened([b EXCEPT !.failures = @ + 1], now)
  ELSE [b EXCEPT !.failures = @ + 1]

RecordFailure(b, now) ==
  IF b.state = "half_open" THEN Opened(b, now)
  ELSE IF b.failures + 1 >= FailureThreshold
  THEN Opened([b EXCEPT !.failures = @ + 1], now)
  ELSE [b EXCEPT !.failures = @ + 1]
=============================================================================
