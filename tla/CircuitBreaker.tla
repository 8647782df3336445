--------------------------- MODULE CircuitBreaker ---------------------------
(***************************************************************************)
(* app/shared/circuit_breaker.py: the breaker in front of the broker       *)
(* adapter, OpenFGA and Keycloak.  Its three critical sections run under   *)
(* one asyncio.Lock, so each is one step; the guarded call itself runs     *)
(* outside the lock, so any number of calls may be in flight between them. *)
(*                                                                         *)
(* Time is a logical clock.  Two failures are recorded under the lock one  *)
(* after the other and never read the same time.monotonic(), so recording  *)
(* a failure advances the clock and the list _failures is the set of its   *)
(* timestamps.                                                             *)
(***************************************************************************)
EXTENDS Integers, FiniteSets

CONSTANTS
  Calls,             \* concurrent users of call() / async with cb()
  FailureThreshold,  \* failure_threshold
  RecoveryTimeout,   \* recovery_timeout
  WindowSeconds,     \* window_seconds
  MaxTime            \* bound on the logical clock

ASSUME BreakerAssumption ==
  /\ FailureThreshold \in Nat \ {0}
  /\ RecoveryTimeout \in Nat
  /\ WindowSeconds \in Nat \ {0}
  /\ MaxTime \in Nat

VARIABLES
  state,     \* _state
  failures,  \* _failures
  openedAt,  \* _opened_at
  now,       \* time.monotonic()
  call,      \* per caller: idle, or the state the breaker admitted it in
  trippedAt  \* history: when the breaker last became OPEN

breakerVars == <<state, failures, openedAt, now, call, trippedAt>>

BreakerTypeOK ==
  /\ state \in {"CLOSED", "OPEN", "HALF_OPEN"}
  /\ failures \subseteq 0..MaxTime
  /\ openedAt \in 0..MaxTime
  /\ now \in 0..MaxTime
  /\ call \in [Calls -> {"idle", "CLOSED", "HALF_OPEN"}]
  /\ trippedAt \in 0..MaxTime

BreakerInit ==
  /\ state = "CLOSED"
  /\ failures = {}
  /\ openedAt = 0
  /\ now = 0
  /\ call = [c \in Calls |-> "idle"]
  /\ trippedAt = 0

-----------------------------------------------------------------------------
Elapsed == now - openedAt >= RecoveryTimeout

\* _before_call raises CircuitOpenError and changes nothing.
Refuse(c) ==
  /\ call[c] = "idle"
  /\ state = "OPEN"
  /\ ~Elapsed
  /\ UNCHANGED breakerVars

\* _before_call lets the request through.  HALF_OPEN has no gate.
Admit(c) ==
  /\ call[c] = "idle"
  /\ state = "OPEN" => Elapsed
  /\ state' = IF state = "OPEN" THEN "HALF_OPEN" ELSE state
  /\ call' = [call EXCEPT ![c] = state']
  /\ UNCHANGED <<failures, openedAt, now, trippedAt>>

Return(c) ==
  /\ call[c] # "idle"
  /\ call' = [call EXCEPT ![c] = "idle"]

Reset == state' = "CLOSED" /\ failures' = {}

OnSuccess(c) ==
  /\ Return(c)
  /\ \/ state = "HALF_OPEN" /\ Reset
     \/ state # "HALF_OPEN" /\ UNCHANGED <<state, failures>>
  /\ UNCHANGED <<openedAt, now, trippedAt>>

\* No rolling window.
NoPruning == failures

\* The timestamps above the cutoff.
Recent == {f \in failures : f > now - WindowSeconds}

\* _opened_at keeps the time of the first opening.
ProbeFailedNoRestart ==
  /\ state = "HALF_OPEN"
  /\ state' = "OPEN"
  /\ trippedAt' = now
  /\ UNCHANGED <<failures, openedAt>>

ProbeFailed ==
  /\ state = "HALF_OPEN"
  /\ state' = "OPEN"
  /\ openedAt' = now
  /\ trippedAt' = now
  /\ UNCHANGED failures

Count ==
  /\ state = "CLOSED"
  /\ failures' = Recent \cup {now}
  /\ IF Cardinality(failures') >= FailureThreshold
       THEN state' = "OPEN" /\ openedAt' = now /\ trippedAt' = now
       ELSE UNCHANGED <<state, openedAt, trippedAt>>

Ignore == state = "OPEN" /\ UNCHANGED <<state, failures, openedAt, trippedAt>>

\* A tracked exception.
OnFailure(c) ==
  /\ Return(c)
  /\ now < MaxTime
  /\ now' = now + 1
  /\ ProbeFailed \/ Count \/ Ignore

\* An exception that is not one of tracked_exceptions passes unseen.
OnUntracked(c) ==
  /\ Return(c)
  /\ UNCHANGED <<state, failures, openedAt, now, trippedAt>>

Tick ==
  /\ now < MaxTime
  /\ now' = now + 1
  /\ UNCHANGED <<state, failures, openedAt, call, trippedAt>>

BreakerNext ==
  \/ \E c \in Calls :
       Refuse(c) \/ Admit(c) \/ OnSuccess(c) \/ OnFailure(c) \/ OnUntracked(c)
  \/ Tick

BreakerSpec == BreakerInit /\ [][BreakerNext]_breakerVars

-----------------------------------------------------------------------------
\* While the breaker is CLOSED it remembers fewer failures than the threshold,
\* so that a recovered breaker starts counting afresh: the failures that opened
\* it must not open it again (_reset, l. 171).
ClosedBelowThreshold ==
  state = "CLOSED" => Cardinality(failures) < FailureThreshold

\* A CLOSED breaker opens only on FailureThreshold failures that all lie within
\* the rolling window that ends at the last one (_on_failure, l. 150-158).
TripNeedsWindow ==
  [][state = "CLOSED" /\ state' = "OPEN" =>
       Cardinality({f \in failures' : f > now - WindowSeconds})
         >= FailureThreshold]_breakerVars

\* After every opening, a failed probe's included, no request is admitted for
\* the recovery timeout (_before_call, l. 121-128).
BackoffRespected ==
  [][\A c \in Calls : state = "OPEN" /\ call[c] = "idle" /\ call'[c] # "idle"
       => now - trippedAt >= RecoveryTimeout]_breakerVars
=============================================================================
