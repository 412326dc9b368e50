--------------------------- MODULE CircuitBreaker ---------------------------
(***************************************************************************)
(* The circuit breaker of the API gateway                                  *)
(* (api_gateway_service/app/core/circuit_breaker.py), one instance per     *)
(* "service.endpoint" key.                                                 *)
(*                                                                         *)
(* All calls run on one asyncio event loop.  The breaker's own coroutines  *)
(* (_check_state, _handle_failure, _reset) take an asyncio.Lock but never  *)
(* await while they hold it, so the lock is never contended and acquiring  *)
(* it never suspends.  The one await of execute that really suspends is    *)
(* the protected function itself.  A call therefore has two atomic steps:  *)
(* its admission (everything before that await) and its completion         *)
(* (everything after it), and calls interleave only between the two.       *)
(*                                                                         *)
(* Counters.  The code compares failure_count only with                    *)
(* failure_threshold and half_open_calls only with half_open_max_calls,    *)
(* and the clock only through time.time() - last_failure_time, so each of  *)
(* the three is kept up to the first value past its comparison.  That      *)
(* loses nothing, and the state space is finite without a bound.           *)
(***************************************************************************)
EXTENDS BreakerConstants

VARIABLES
  state,            \* self.state
  failure_count,    \* self.failure_count
  elapsed,          \* time.time() - self.last_failure_time
  half_open_calls,  \* self.half_open_calls
  call,             \* where each caller is, and how its call was admitted
  lost              \* history: a trial of the latest half-open period was cancelled

breakerVars == <<state, failure_count, elapsed, half_open_calls, lost>>
vars == <<state, failure_count, elapsed, half_open_calls, call, lost>>

\* A caller is idle, or it awaits the protected function, having been
\* admitted by a closed circuit ("closed"), in the half-open period that is
\* the latest one ("trial"), or in a half-open period before it ("stale").
\* The code keeps no such label: only the properties read it.
CallStatus == {"idle", "closed", "trial", "stale"}
InFlight == {c \in Calls : call[c] # "idle"}
Trials   == {c \in Calls : call[c] = "trial"}

\* The next value of a counter that is only compared with values below cap.
UpTo(n, cap) == IF n < cap THEN n + 1 ELSE cap

TypeOK ==
  /\ state \in CircuitState
  /\ failure_count   \in 0 .. FailureThreshold
  /\ elapsed         \in 0 .. RecoveryTimeout + 1
  /\ half_open_calls \in 0 .. HalfOpenMaxCalls + 1
  /\ call \in [Calls -> CallStatus]
  /\ lost \in BOOLEAN

Init ==
  /\ state = "CLOSED"
  /\ failure_count = 0
  /\ elapsed = RecoveryTimeout + 1      \* last_failure_time = 0, the epoch
  /\ half_open_calls = 0
  /\ call = [c \in Calls |-> "idle"]
  /\ lost = FALSE

-----------------------------------------------------------------------------
(* Admission: execute up to the await of the protected function. *)

AdmitClosed(c) ==
  /\ call[c] = "idle"
  /\ state = "CLOSED"
  /\ call' = [call EXCEPT ![c] = "closed"]
  /\ UNCHANGED breakerVars

Recovered == elapsed > RecoveryTimeout

\* _check_state raises CircuitBreakerOpenException.
RejectOpen(c) ==
  /\ call[c] = "idle"
  /\ state = "OPEN"
  /\ ~ Recovered
  /\ UNCHANGED vars

\* half_open_calls of a new period.
FirstTrial == 1

\* _check_state opens a half-open period and resets half_open_calls; execute
\* then counts this call as its first.  Trials of an earlier period that are
\* still in flight are in no counter any more.
StartTrial(c) ==
  /\ call[c] = "idle"
  /\ state = "OPEN"
  /\ Recovered
  /\ state' = "HALF_OPEN"
  /\ half_open_calls' = FirstTrial
  /\ call' = [d \in Calls |-> IF d = c THEN "trial"
                              ELSE IF call[d] = "trial" THEN "stale"
                              ELSE call[d]]
  /\ lost' = FALSE
  /\ UNCHANGED <<failure_count, elapsed>>

HasRoom_OffByOne == half_open_calls <= HalfOpenMaxCalls    \* mutant
HasRoom == half_open_calls < HalfOpenMaxCalls

JoinTrial(c) ==
  /\ call[c] = "idle"
  /\ state = "HALF_OPEN"
  /\ HasRoom
  /\ half_open_calls' = half_open_calls + 1
  /\ call' = [call EXCEPT ![c] = "trial"]
  /\ UNCHANGED <<state, failure_count, elapsed, lost>>

\* A call over capacity has already been counted when it is rejected.
RejectHalfOpen(c) ==
  /\ call[c] = "idle"
  /\ state = "HALF_OPEN"
  /\ ~ HasRoom
  /\ half_open_calls' = UpTo(half_open_calls, HalfOpenMaxCalls + 1)
  /\ UNCHANGED <<state, failure_count, elapsed, call, lost>>

-----------------------------------------------------------------------------
(* Completion: the protected function returns, raises, or is cancelled.    *)
(* What happens depends on the state of the circuit now, not on the state  *)
(* that admitted the call.                                                 *)

Reset_Missing == UNCHANGED breakerVars               \* mutant of the next one
Reset ==
  /\ state' = "CLOSED"
  /\ failure_count' = 0
  /\ half_open_calls' = 0
  /\ UNCHANGED <<elapsed, lost>>

\* A success changes nothing in the other states.
PlainSuccess == UNCHANGED breakerVars

Succeed(c) ==
  /\ call[c] # "idle"
  /\ call' = [call EXCEPT ![c] = "idle"]
  /\ IF state = "HALF_OPEN" THEN Reset ELSE PlainSuccess

Opens_Late(n) == state = "HALF_OPEN" \/ n > FailureThreshold    \* mutant
Opens(n) == state = "HALF_OPEN" \/ n >= FailureThreshold

HandleFailure ==
  /\ failure_count' = UpTo(failure_count, FailureThreshold)
  /\ elapsed' = 0
  /\ state' = IF Opens(failure_count') THEN "OPEN" ELSE state
  /\ UNCHANGED <<half_open_calls, lost>>

Fail(c) ==
  /\ call[c] # "idle"
  /\ call' = [call EXCEPT ![c] = "idle"]
  /\ HandleFailure

\* The task that runs execute is cancelled: CancelledError is no Exception,
\* so neither branch of execute runs.
Cancel(c) ==
  /\ call[c] # "idle"
  /\ call' = [call EXCEPT ![c] = "idle"]
  /\ lost' = (lost \/ call[c] = "trial")
  /\ UNCHANGED <<state, failure_count, elapsed, half_open_calls>>

\* The clock.
Tick ==
  /\ elapsed' = UpTo(elapsed, RecoveryTimeout + 1)
  /\ UNCHANGED <<state, failure_count, half_open_calls, call, lost>>

-----------------------------------------------------------------------------
Admission(c)  == \/ AdmitClosed(c)
                 \/ RejectOpen(c)
                 \/ StartTrial(c)
                 \/ JoinTrial(c)
                 \/ RejectHalfOpen(c)

Completion(c) == Succeed(c) \/ Fail(c) \/ Cancel(c)

Next == \/ \E c \in Calls : Admission(c) \/ Completion(c)
        \/ Tick

\* Every call ends: each attempt has an httpx timeout and the number of
\* attempts is bounded.  Time passes.  Clients keep calling the endpoint.
Fairness ==
  /\ \A c \in Calls : WF_vars(Succeed(c) \/ Fail(c))
  /\ WF_vars(Tick)
  /\ WF_vars(\E c \in Calls : StartTrial(c))

Spec == Init /\ [][Next]_vars /\ Fairness

-----------------------------------------------------------------------------
(* Properties *)

\* A closed circuit has seen fewer failures than the threshold since its last
\* reset: whatever order overlapping calls end in, the failure that reaches
\* the threshold is the one that opens the circuit (line 146).
ClosedBelowThreshold == state = "CLOSED" => failure_count < FailureThreshold

\* Once the circuit has opened it never forgets the failures that opened it
\* until a reset, so that one failed trial is enough to open it again, and
\* only _reset, from HALF_OPEN, may close it.
BrokenUntilReset == state # "CLOSED" => failure_count >= FailureThreshold

\* A half-open period admits at most half_open_max_calls trials at a time,
\* although rejected calls and completed ones share its one counter.
TrialBudget == state = "HALF_OPEN" => Cardinality(Trials) <= HalfOpenMaxCalls

\* Until one of its trials is cancelled, a half-open circuit is waiting for a
\* trial of its own: there is always a call in flight whose end will close or
\* reopen it.  It holds because the step that makes the circuit half-open also
\* admits the first trial, and every normal end of a call in a half-open
\* period ends the period.
HalfOpenHasTrial == state = "HALF_OPEN" => Trials # {} \/ lost

\* When nothing is in flight, a half-open circuit still has room for a test
\* request.  docs/sync_communication_faq.md:67 says a half-open circuit
\* "allows a limited number of test requests to check if the service has
\* recovered".
HalfOpenCanTest ==
  state = "HALF_OPEN" /\ InFlight = {} => half_open_calls < HalfOpenMaxCalls

\* A half-open period ends, the circuit closes or opens again, unless one of
\* its trials is cancelled.
HalfOpenResolves == state = "HALF_OPEN" ~> state # "HALF_OPEN" \/ lost
=============================================================================
