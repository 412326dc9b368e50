-------------------------- MODULE BreakerConstants --------------------------
(***************************************************************************)
(* The states, the callers and the settings of one circuit breaker         *)
(* (api_gateway_service/app/core/circuit_breaker.py).                      *)
(***************************************************************************)
EXTENDS Naturals, FiniteSets

CONSTANTS
  Calls,              \* callers of execute; each runs one call at a time
  FailureThreshold,   \* failure_threshold
  RecoveryTimeout,    \* recovery_timeout, in clock ticks
  HalfOpenMaxCalls    \* half_open_max_calls

ASSUME CallsAssumption == IsFiniteSet(Calls)

ASSUME BoundsAssumption ==
  /\ FailureThreshold \in Nat \ {0}
  /\ RecoveryTimeout  \in Nat
  /\ HalfOpenMaxCalls \in Nat \ {0}

CircuitState == {"CLOSED", "OPEN", "HALF_OPEN"}
=============================================================================
