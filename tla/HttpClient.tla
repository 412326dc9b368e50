----------------------------- MODULE HttpClient -----------------------------
(***************************************************************************)
(* HTTPClientService (api_gateway_service/app/services/http_client.py):    *)
(* the retry loop _do_request_with_retry, run under the circuit breaker of *)
(* its "service.endpoint" key by _execute_with_retry.                      *)
(*                                                                         *)
(* One attempt is client.request; the backend answers it with a status, or *)
(* httpx raises (connection error or timeout).  The loop suspends in the   *)
(* attempt and in the backoff sleep, so calls interleave there.  The       *)
(* breaker sees a whole loop as one call: the module implements            *)
(* CircuitBreaker, whose "protected function" is this loop.                *)
(***************************************************************************)
EXTENDS BreakerConstants

CONSTANT MaxRetries        \* HTTP_MAX_RETRIES

ASSUME RetriesAssumption == MaxRetries \in Nat

VARIABLES
  state, failure_count, elapsed, half_open_calls, call, lost,  \* CircuitBreaker
  phase,      \* where each caller is in the loop
  retries,    \* the local variable retries of each loop
  attempts,   \* history: requests the loop has sent to the backend
  outcome     \* history: how the last attempt of each caller ended

CB == INSTANCE CircuitBreaker

breaker == <<state, failure_count, elapsed, half_open_calls, call, lost>>
loopVars == <<phase, retries, attempts, outcome>>
vars == <<state, failure_count, elapsed, half_open_calls, call, lost,
          phase, retries, attempts, outcome>>

\* What the code tells apart in an answer: below 400; 400 and above but not
\* in retry_status_codes; in retry_status_codes (500, 502, 503, 504; the
\* codes 408 and 429 take the same path).
Answers == {"ok", "final_error", "server_error"}
RetryStatusCodes == {"server_error"}
Outcomes == Answers \cup {"none", "bad_body", "connection_error"}

TypeOK ==
  /\ CB!TypeOK
  /\ phase    \in [Calls -> {"idle", "sending", "backoff"}]
  /\ retries  \in [Calls -> 0 .. MaxRetries]
  /\ attempts \in [Calls -> 0 .. MaxRetries + 1]
  /\ outcome  \in [Calls -> Outcomes]

Init ==
  /\ CB!Init
  /\ phase    = [c \in Calls |-> "idle"]
  /\ retries  = [c \in Calls |-> 0]
  /\ attempts = [c \in Calls |-> 0]
  /\ outcome  = [c \in Calls |-> "none"]

-----------------------------------------------------------------------------
\* The breaker admits the call: the loop starts with its first attempt.
Start(c) ==
  /\ CB!AdmitClosed(c) \/ CB!StartTrial(c) \/ CB!JoinTrial(c)
  /\ phase'    = [phase EXCEPT ![c] = "sending"]
  /\ retries'  = [retries EXCEPT ![c] = 0]
  /\ attempts' = [attempts EXCEPT ![c] = 1]
  /\ outcome'   = [outcome EXCEPT ![c] = "none"]

\* CircuitBreakerOpenException reaches the caller; nothing is sent.
Rejected(c) ==
  /\ CB!RejectOpen(c) \/ CB!RejectHalfOpen(c)
  /\ UNCHANGED loopVars

\* The two tests for a retry left: after a status, after an exception.
\* (Mutants: one too many; one too few.)
StatusRetryLeft(c) == retries[c] < MaxRetries

ExceptionRetryLeft_OffByOne(c) == retries[c] <= MaxRetries
ExceptionRetryLeft_Fewer(c) == retries[c] + 1 < MaxRetries
ExceptionRetryLeft(c) == retries[c] + 1 <= MaxRetries

\* Count the retry and sleep.  (Mutant: the breaker is told of the failed
\* attempt.)
Backoff_Told(c, o) ==
  /\ phase'   = [phase EXCEPT ![c] = "backoff"]
  /\ retries' = [retries EXCEPT ![c] = @ + 1]
  /\ outcome' = [outcome EXCEPT ![c] = o]
  /\ CB!HandleFailure /\ UNCHANGED <<attempts, call>>
Backoff(c, o) ==
  /\ phase'   = [phase EXCEPT ![c] = "backoff"]
  /\ retries' = [retries EXCEPT ![c] = @ + 1]
  /\ outcome' = [outcome EXCEPT ![c] = o]
  /\ UNCHANGED attempts
  /\ UNCHANGED breaker

\* A status in retry_status_codes, with retries left.
RetryStatus(c) ==
  /\ phase[c] = "sending"
  /\ StatusRetryLeft(c)
  /\ \E a \in RetryStatusCodes : Backoff(c, a)

\* httpx raises, with retries left.  The backend may have done the work.
RetryException(c) ==
  /\ phase[c] = "sending"
  /\ ExceptionRetryLeft(c)
  /\ Backoff(c, "connection_error")

\* The sleep ends; the loop sends the request again, whatever the state of
\* the circuit is by now.
Resend(c) ==
  /\ phase[c] = "backoff"
  /\ phase'    = [phase EXCEPT ![c] = "sending"]
  /\ attempts' = [attempts EXCEPT ![c] = @ + 1]
  /\ UNCHANGED <<retries, outcome>>
  /\ UNCHANGED breaker

Finish(c, r) ==
  /\ phase'   = [phase EXCEPT ![c] = "idle"]
  /\ retries' = [retries EXCEPT ![c] = 0]
  /\ outcome'  = [outcome EXCEPT ![c] = r]
  /\ UNCHANGED attempts

\* The loop returns a body.  An error status that is not retried any more is
\* returned like any other body, so the breaker sees a success.
Return(c) ==
  /\ phase[c] = "sending"
  /\ \E a \in Answers :
       /\ a \in RetryStatusCodes => ~ StatusRetryLeft(c)
       /\ Finish(c, a)
  /\ CB!Succeed(c)

\* response.json() raises on a body that is not JSON: not an httpx error, so
\* it leaves the loop at once.
BadBody(c) ==
  /\ phase[c] = "sending"
  /\ Finish(c, "bad_body")
  /\ CB!Fail(c)

\* httpx raises and no retry is left: ServiceConnectionError.
GiveUp(c) ==
  /\ phase[c] = "sending"
  /\ ~ ExceptionRetryLeft(c)
  /\ Finish(c, "connection_error")
  /\ CB!Fail(c)

Cancel(c) ==
  /\ Finish(c, "none")
  /\ CB!Cancel(c)

Tick == CB!Tick /\ UNCHANGED loopVars

Next ==
  \/ \E c \in Calls :
       \/ Start(c) \/ Rejected(c)
       \/ RetryStatus(c) \/ RetryException(c) \/ Resend(c)
       \/ Return(c) \/ BadBody(c) \/ GiveUp(c)
       \/ Cancel(c)
  \/ Tick

\* An attempt ends (httpx enforces its timeout), a sleep ends, time passes,
\* and clients keep calling.  Nothing else is assumed of the backend: an
\* attempt may always end in an exception.
Fairness ==
  /\ \A c \in Calls : WF_vars(\/ RetryStatus(c) \/ RetryException(c)
                              \/ Return(c) \/ BadBody(c) \/ GiveUp(c))
  /\ \A c \in Calls : WF_vars(Resend(c))
  /\ WF_vars(Tick)
  /\ WF_vars(\E c \in Calls : CB!StartTrial(c) /\ Start(c))

Spec == Init /\ [][Next]_vars /\ Fairness

-----------------------------------------------------------------------------
(* Properties *)

\* The client implements the circuit breaker: however the loops interleave,
\* retries are invisible to the breaker, and every call the breaker admitted
\* ends, in one step, as exactly one success or failure.
ImplementsBreaker == CB!Spec

\* The loop sends at most MaxRetries + 1 requests, although two different
\* tests on two different paths (< for statuses, <= for exceptions) share the
\* counter.
AttemptsBounded == \A c \in Calls : attempts[c] <= MaxRetries + 1

\* The caller is told "failed after max_retries retries" (line 370), and is
\* handed a retryable status as an answer, only when every attempt was used.
EveryRetryUsed ==
  \A c \in Calls :
    phase[c] = "idle" /\ outcome[c] \in RetryStatusCodes \cup {"connection_error"}
      => attempts[c] = MaxRetries + 1

\* With real retry loops as the calls: the breaker counts a loop once, and the
\* one that reaches the threshold opens the circuit, in whatever order they end.
ClosedBelowThreshold == CB!ClosedBelowThreshold

\* A half-open period never has more loops of its own under way than its
\* budget, although loops sleep and earlier ones are still going on.
TrialBudget == CB!TrialBudget

\* A half-open circuit waits for a loop of its own, unless one was cancelled.
HalfOpenHasTrial == CB!HalfOpenHasTrial

\* A half-open period ends, whatever the loops it let through meet, unless one
\* is cancelled.
HalfOpenResolves == CB!HalfOpenResolves
=============================================================================
