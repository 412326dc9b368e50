---------------------------- MODULE GatewayProofs ----------------------------
(***************************************************************************)
(* For every number of callers and services and all settings: what the     *)
(* circuit breaker guarantees, that it still does with retry loops as its  *)
(* calls (HttpClient) and with requests to several services on one circuit *)
(* (Routing) and cached reads in front of it (ListAgents), the bounds of   *)
(* the loops, that the service registry never holds the failures of one    *)
(* service against another, and how old a cached list can be.              *)
(***************************************************************************)
EXTENDS HttpClient, ServiceRegistry, FiniteSetTheorems, TLAPS

\* CircuitBreaker's copy of Cardinality is Cardinality.
LEMMA CBCardinality == \A S : CB!Cardinality(S) = Cardinality(S)
BY DEF CB!Cardinality, Cardinality

-----------------------------------------------------------------------------
(* The ranges of the breaker's variables *)

LEMMA UpToType ==
  ASSUME NEW cap \in Nat, NEW n \in 0 .. cap
  PROVE  CB!UpTo(n, cap) \in 0 .. cap
BY DEF CB!UpTo

\* The variables stay in their ranges.
LEMMA BreakerInitTypeOK == CB!Init => CB!TypeOK
<1> SUFFICES ASSUME CB!Init PROVE CB!TypeOK
  OBVIOUS
<1>1. lost \in BOOLEAN
  BY Zenon DEF CB!Init
<1> QED
  BY <1>1, BoundsAssumption DEF CB!Init, CB!TypeOK, CB!CircuitState, CB!CallStatus

LEMMA BreakerNextTypeOK == CB!TypeOK /\ [CB!Next]_(CB!vars) => CB!TypeOK'
<1> USE BoundsAssumption
<1> SUFFICES ASSUME CB!TypeOK, [CB!Next]_(CB!vars) PROVE CB!TypeOK'
  OBVIOUS
<1> USE DEF CB!TypeOK, CB!CircuitState, CB!CallStatus, CB!Recovered, CB!FirstTrial,
            CB!HasRoom, CB!PlainSuccess, CB!Opens
<1>1. ASSUME NEW c \in Calls, CB!AdmitClosed(c) PROVE CB!TypeOK'
  BY <1>1 DEF CB!AdmitClosed, CB!breakerVars
<1>2. ASSUME NEW c \in Calls, CB!RejectOpen(c) PROVE CB!TypeOK'
  BY <1>2 DEF CB!RejectOpen, CB!vars
<1>3. ASSUME NEW c \in Calls, CB!StartTrial(c) PROVE CB!TypeOK'
  <2>1. lost' \in BOOLEAN
    BY <1>3, Zenon DEF CB!StartTrial
  <2> QED
    BY <1>3, <2>1 DEF CB!StartTrial
<1>4. ASSUME NEW c \in Calls, CB!JoinTrial(c) PROVE CB!TypeOK'
  BY <1>4 DEF CB!JoinTrial
<1>5. ASSUME NEW c \in Calls, CB!RejectHalfOpen(c) PROVE CB!TypeOK'
  BY <1>5 DEF CB!RejectHalfOpen, CB!UpTo
<1>6. ASSUME NEW c \in Calls, CB!Succeed(c) PROVE CB!TypeOK'
  BY <1>6 DEF CB!Succeed, CB!Reset, CB!breakerVars
<1>7. ASSUME NEW c \in Calls, CB!Fail(c) PROVE CB!TypeOK'
  BY <1>7 DEF CB!Fail, CB!HandleFailure, CB!UpTo
<1>8. ASSUME NEW c \in Calls, CB!Cancel(c) PROVE CB!TypeOK'
  BY <1>8 DEF CB!Cancel, CB!breakerVars
<1>9. CASE CB!Tick
  BY <1>9 DEF CB!Tick, CB!UpTo
<1>10. CASE UNCHANGED CB!vars
  BY <1>10 DEF CB!vars
<1> QED
  BY <1>1, <1>2, <1>3, <1>4, <1>5, <1>6, <1>7, <1>8, <1>9, <1>10
     DEF CB!Next, CB!Admission, CB!Completion

-----------------------------------------------------------------------------
(* The failure counter and the state of the circuit *)

CounterInv == CB!ClosedBelowThreshold /\ CB!BrokenUntilReset

LEMMA NextCounterInv == CB!TypeOK /\ CounterInv /\ [CB!Next]_(CB!vars) => CounterInv'
<1> USE BoundsAssumption
<1> SUFFICES ASSUME CB!TypeOK, CounterInv, [CB!Next]_(CB!vars) PROVE CounterInv'
  OBVIOUS
<1> USE DEF CB!TypeOK, CB!CircuitState, CounterInv, CB!ClosedBelowThreshold,
            CB!BrokenUntilReset, CB!PlainSuccess, CB!Opens
<1>1. ASSUME NEW c \in Calls, CB!Admission(c) PROVE CounterInv'
  BY <1>1 DEF CB!Admission, CB!AdmitClosed, CB!RejectOpen, CB!StartTrial, CB!JoinTrial,
              CB!RejectHalfOpen, CB!breakerVars, CB!vars
<1>2. ASSUME NEW c \in Calls, CB!Succeed(c) PROVE CounterInv'
  BY <1>2 DEF CB!Succeed, CB!Reset, CB!breakerVars
<1>3. ASSUME NEW c \in Calls, CB!Fail(c) PROVE CounterInv'
  BY <1>3 DEF CB!Fail, CB!HandleFailure, CB!UpTo
<1>4. ASSUME NEW c \in Calls, CB!Cancel(c) PROVE CounterInv'
  BY <1>4 DEF CB!Cancel, CB!breakerVars
<1>5. CASE CB!Tick
  BY <1>5 DEF CB!Tick
<1>6. CASE UNCHANGED CB!vars
  BY <1>6 DEF CB!vars
<1> QED
  BY <1>1, <1>2, <1>3, <1>4, <1>5, <1>6 DEF CB!Next, CB!Completion

-----------------------------------------------------------------------------
(* The half-open capacity *)

\* A half-open period has counted every trial of its own that is in flight,
\* and it never admits past the capacity.  CB!TrialBudget alone is not
\* inductive: it does not relate the trials to half_open_calls.
TrialInv ==
  state = "HALF_OPEN" =>
    /\ Cardinality(CB!Trials) <= half_open_calls
    /\ Cardinality(CB!Trials) <= HalfOpenMaxCalls

LEMMA TrialsFinite == IsFiniteSet(CB!Trials) /\ Cardinality(CB!Trials) \in Nat
BY CallsAssumption, FS_Subset, FS_CardinalityType DEF CB!Trials

\* Removing callers from the trials never raises their number.
LEMMA TrialsShrink ==
  ASSUME CB!Trials' \subseteq CB!Trials
  PROVE  /\ Cardinality(CB!Trials') <= Cardinality(CB!Trials)
         /\ Cardinality(CB!Trials') \in Nat
BY TrialsFinite, FS_Subset, FS_CardinalityType

LEMMA NextTrialInv == CB!TypeOK /\ TrialInv /\ [CB!Next]_(CB!vars) => TrialInv'
<1> USE BoundsAssumption
<1> SUFFICES ASSUME CB!TypeOK, TrialInv, [CB!Next]_(CB!vars), state' = "HALF_OPEN"
             PROVE  /\ Cardinality(CB!Trials') <= half_open_calls'
                    /\ Cardinality(CB!Trials') <= HalfOpenMaxCalls
  BY DEF TrialInv
<1> USE DEF CB!TypeOK, TrialInv, CB!FirstTrial, CB!HasRoom, CB!PlainSuccess, CB!Opens
<1>1. ASSUME NEW c \in Calls, CB!StartTrial(c)
      PROVE  /\ Cardinality(CB!Trials') <= half_open_calls'
             /\ Cardinality(CB!Trials') <= HalfOpenMaxCalls
  <2>1. CB!Trials' = {c}
    BY <1>1 DEF CB!StartTrial, CB!Trials
  <2>2. Cardinality(CB!Trials') = 1
    BY <2>1, FS_Singleton
  <2> QED
    BY <1>1, <2>2 DEF CB!StartTrial
<1>2. ASSUME NEW c \in Calls, CB!JoinTrial(c)
      PROVE  /\ Cardinality(CB!Trials') <= half_open_calls'
             /\ Cardinality(CB!Trials') <= HalfOpenMaxCalls
  <2>1. CB!Trials' = CB!Trials \cup {c} /\ c \notin CB!Trials
    BY <1>2 DEF CB!JoinTrial, CB!Trials
  <2>2. Cardinality(CB!Trials') = Cardinality(CB!Trials) + 1
    BY <2>1, TrialsFinite, FS_AddElement
  <2> QED
    BY <1>2, <2>2, TrialsFinite DEF CB!JoinTrial
<1>3. ASSUME NEW c \in Calls, CB!RejectHalfOpen(c)
      PROVE  /\ Cardinality(CB!Trials') <= half_open_calls'
             /\ Cardinality(CB!Trials') <= HalfOpenMaxCalls
  <2>1. CB!Trials' \subseteq CB!Trials
    BY <1>3 DEF CB!RejectHalfOpen, CB!Trials
  <2> QED
    BY <1>3, <2>1, TrialsShrink, TrialsFinite DEF CB!RejectHalfOpen, CB!UpTo
<1>4. ASSUME NEW c \in Calls, CB!Succeed(c) \/ CB!Fail(c) \/ CB!Cancel(c)
      PROVE  /\ Cardinality(CB!Trials') <= half_open_calls'
             /\ Cardinality(CB!Trials') <= HalfOpenMaxCalls
  <2>1. CB!Trials' \subseteq CB!Trials
    BY <1>4 DEF CB!Succeed, CB!Fail, CB!Cancel, CB!Trials
  <2>2. state = "HALF_OPEN" /\ half_open_calls' = half_open_calls
    BY <1>4 DEF CB!Succeed, CB!Fail, CB!Cancel, CB!Reset, CB!HandleFailure, CB!breakerVars
  <2> QED
    BY <2>1, <2>2, TrialsShrink, TrialsFinite
<1>5. CASE CB!Tick \/ UNCHANGED CB!vars
      \/ \E c \in Calls : CB!AdmitClosed(c) \/ CB!RejectOpen(c)
  <2>1. state = "HALF_OPEN" /\ half_open_calls' = half_open_calls
    BY <1>5 DEF CB!Tick, CB!vars, CB!AdmitClosed, CB!RejectOpen, CB!breakerVars
  <2>2. CB!Trials' \subseteq CB!Trials
    BY <1>5 DEF CB!Tick, CB!vars, CB!AdmitClosed, CB!RejectOpen, CB!Trials
  <2> QED
    BY <2>1, <2>2, TrialsShrink, TrialsFinite
<1> QED
  BY <1>1, <1>2, <1>3, <1>4, <1>5 DEF CB!Next, CB!Admission, CB!Completion

-----------------------------------------------------------------------------
(* A half-open circuit always waits for a trial *)

LEMMA NextHalfOpenHasTrial ==
  CB!TypeOK /\ CB!HalfOpenHasTrial /\ [CB!Next]_(CB!vars) => CB!HalfOpenHasTrial'
<1> SUFFICES ASSUME CB!TypeOK, CB!HalfOpenHasTrial, [CB!Next]_(CB!vars),
                    state' = "HALF_OPEN"
             PROVE  CB!Trials' # {} \/ lost'
  BY DEF CB!HalfOpenHasTrial
<1> USE DEF CB!TypeOK, CB!HalfOpenHasTrial, CB!Trials, CB!PlainSuccess, CB!Opens
<1>1. ASSUME NEW c \in Calls, CB!StartTrial(c) PROVE CB!Trials' # {} \/ lost'
  BY <1>1 DEF CB!StartTrial
<1>2. ASSUME NEW c \in Calls, CB!JoinTrial(c) PROVE CB!Trials' # {} \/ lost'
  BY <1>2 DEF CB!JoinTrial
<1>3. ASSUME NEW c \in Calls, CB!Succeed(c) \/ CB!Fail(c) PROVE CB!Trials' # {} \/ lost'
  \* Every normal end of a call in a half-open period ends the period.
  <2>1. state = "HALF_OPEN"
    BY <1>3 DEF CB!Succeed, CB!Fail, CB!HandleFailure, CB!breakerVars, CB!Reset
  <2> QED
    BY <1>3, <2>1 DEF CB!Succeed, CB!Fail, CB!HandleFailure, CB!Reset
<1>4. ASSUME NEW c \in Calls, CB!Cancel(c) PROVE CB!Trials' # {} \/ lost'
  BY <1>4 DEF CB!Cancel
<1>5. CASE CB!Tick \/ UNCHANGED CB!vars
      \/ \E c \in Calls : CB!AdmitClosed(c) \/ CB!RejectOpen(c) \/ CB!RejectHalfOpen(c)
  BY <1>5 DEF CB!Tick, CB!vars, CB!AdmitClosed, CB!RejectOpen, CB!RejectHalfOpen,
              CB!breakerVars
<1> QED
  BY <1>1, <1>2, <1>3, <1>4, <1>5 DEF CB!Next, CB!Admission, CB!Completion

-----------------------------------------------------------------------------
(* What the breaker guarantees by itself *)

BreakerInv == CB!TypeOK /\ CounterInv /\ TrialInv /\ CB!HalfOpenHasTrial

LEMMA InitBreakerInv == CB!Init => BreakerInv
<1> SUFFICES ASSUME CB!Init PROVE BreakerInv
  OBVIOUS
<1>1. CB!TypeOK
  BY BreakerInitTypeOK
<1>2. CounterInv /\ TrialInv /\ CB!HalfOpenHasTrial
  BY BoundsAssumption DEF CB!Init, CounterInv, CB!ClosedBelowThreshold, CB!BrokenUntilReset,
                          TrialInv, CB!HalfOpenHasTrial
<1> QED
  BY <1>1, <1>2 DEF BreakerInv

LEMMA NextBreakerInv == BreakerInv /\ [CB!Next]_(CB!vars) => BreakerInv'
BY BreakerNextTypeOK, NextCounterInv, NextTrialInv, NextHalfOpenHasTrial DEF BreakerInv

LEMMA BreakerInvSuffices ==
  BreakerInv => /\ CB!TypeOK
                /\ CB!ClosedBelowThreshold /\ CB!BrokenUntilReset
                /\ CB!TrialBudget
                /\ CB!HalfOpenHasTrial
BY CBCardinality DEF BreakerInv, CounterInv, TrialInv, CB!TrialBudget

LEMMA BreakerInvariant == CB!Spec => []BreakerInv
BY InitBreakerInv, NextBreakerInv, PTL DEF CB!Spec

\* The type invariant of the circuit breaker.
THEOREM TypeCorrect == CB!Spec => []CB!TypeOK
BY BreakerInvariant, BreakerInvSuffices, PTL

\* The circuit is closed exactly while fewer failures than the threshold have
\* been counted since its last reset, in whatever order overlapping calls end.
THEOREM CounterCorrect == CB!Spec => [](CB!ClosedBelowThreshold /\ CB!BrokenUntilReset)
BY BreakerInvariant, BreakerInvSuffices, PTL

\* A half-open period never has more than half_open_max_calls of its own
\* trials in flight.
THEOREM TrialBudgetHolds == CB!Spec => []CB!TrialBudget
BY BreakerInvariant, BreakerInvSuffices, PTL

\* Unless one of its trials was cancelled, a half-open circuit always has one
\* in flight: it cannot wait for nothing.
THEOREM HalfOpenAlwaysHasTrial == CB!Spec => []CB!HalfOpenHasTrial
BY BreakerInvariant, BreakerInvSuffices, PTL

-----------------------------------------------------------------------------
(* The retry loops *)

\* In an attempt the loop has sent one request more than it has retried; in a
\* backoff the retry is counted but not sent yet.  A loop that has ended with
\* an exhausted budget has sent MaxRetries + 1 requests.
LoopInv ==
  /\ phase    \in [Calls -> {"idle", "sending", "backoff"}]
  /\ retries  \in [Calls -> Nat]
  /\ attempts \in [Calls -> Nat]
  /\ outcome  \in [Calls -> Outcomes]
  /\ \A c \in Calls :
       /\ retries[c] <= MaxRetries
       /\ phase[c] = "sending" => attempts[c] = retries[c] + 1
       /\ phase[c] = "backoff" => attempts[c] = retries[c]
       /\ phase[c] = "idle"    => attempts[c] <= MaxRetries + 1
  /\ EveryRetryUsed

LEMMA InitLoopInv == Init => LoopInv
BY RetriesAssumption DEF Init, LoopInv, Outcomes, EveryRetryUsed, RetryStatusCodes

LEMMA NextLoopInv == LoopInv /\ [Next]_vars => LoopInv'
<1> USE RetriesAssumption
<1> SUFFICES ASSUME LoopInv, [Next]_vars PROVE LoopInv'
  OBVIOUS
<1> USE DEF LoopInv, EveryRetryUsed, Outcomes, Answers, RetryStatusCodes,
            StatusRetryLeft, ExceptionRetryLeft
<1>1. ASSUME NEW c \in Calls, Start(c) PROVE LoopInv'
  BY <1>1 DEF Start
<1>2. ASSUME NEW c \in Calls, Rejected(c) PROVE LoopInv'
  BY <1>2 DEF Rejected, loopVars
<1>3. ASSUME NEW c \in Calls, RetryStatus(c) PROVE LoopInv'
  BY <1>3 DEF RetryStatus, Backoff
<1>4. ASSUME NEW c \in Calls, RetryException(c) PROVE LoopInv'
  BY <1>4 DEF RetryException, Backoff
<1>5. ASSUME NEW c \in Calls, Resend(c) PROVE LoopInv'
  BY <1>5 DEF Resend
<1>6. ASSUME NEW c \in Calls, Return(c) PROVE LoopInv'
  BY <1>6 DEF Return, Finish
<1>7. ASSUME NEW c \in Calls, BadBody(c) PROVE LoopInv'
  BY <1>7 DEF BadBody, Finish
<1>8. ASSUME NEW c \in Calls, GiveUp(c) PROVE LoopInv'
  BY <1>8 DEF GiveUp, Finish
<1>9. ASSUME NEW c \in Calls, Cancel(c) PROVE LoopInv'
  BY <1>9 DEF Cancel, Finish
<1>10. CASE Tick
  BY <1>10 DEF Tick, loopVars
<1>11. CASE UNCHANGED vars
  BY <1>11 DEF vars
<1> QED
  BY <1>1, <1>2, <1>3, <1>4, <1>5, <1>6, <1>7, <1>8, <1>9, <1>10, <1>11
     DEF Next

LEMMA LoopInvariant == Spec => []LoopInv
BY InitLoopInv, NextLoopInv, PTL DEF Spec

\* No loop sends more than MaxRetries + 1 requests, although two tests on two
\* paths share its counter.
THEOREM RetriesBounded == Spec => []AttemptsBounded
<1>1. LoopInv => AttemptsBounded
  BY RetriesAssumption DEF LoopInv, AttemptsBounded
<1> QED
  BY <1>1, LoopInvariant, PTL

\* A loop gives up, or hands out a retryable status, only after it has sent all
\* the requests it may send.
THEOREM NoEarlySurrender == Spec => []EveryRetryUsed
<1>1. LoopInv => EveryRetryUsed
  BY DEF LoopInv
<1> QED
  BY <1>1, LoopInvariant, PTL

-----------------------------------------------------------------------------
\* Each step of the client is one step of the breaker, or leaves it alone.
LEMMA StepImplements == [Next]_vars => [CB!Next]_CB!vars
<1> SUFFICES ASSUME [Next]_vars PROVE CB!Next \/ UNCHANGED CB!vars
  OBVIOUS
<1>1. ASSUME NEW c \in Calls, Start(c) PROVE CB!Next
  BY <1>1 DEF Start, CB!Next, CB!Admission
<1>2. ASSUME NEW c \in Calls, Rejected(c) PROVE CB!Next
  BY <1>2 DEF Rejected, CB!Next, CB!Admission
<1>3. ASSUME NEW c \in Calls, RetryStatus(c) \/ RetryException(c) \/ Resend(c)
      PROVE UNCHANGED CB!vars
  BY <1>3 DEF RetryStatus, RetryException, Resend, Backoff, breaker, CB!vars
<1>4. ASSUME NEW c \in Calls, Return(c) \/ BadBody(c) \/ GiveUp(c) \/ Cancel(c)
      PROVE CB!Next
  BY <1>4 DEF Return, BadBody, GiveUp, Cancel, CB!Next, CB!Completion
<1>5. CASE Tick
  BY <1>5 DEF Tick, CB!Next
<1>6. CASE UNCHANGED vars
  BY <1>6 DEF vars, CB!vars
<1> QED
  BY <1>1, <1>2, <1>3, <1>4, <1>5, <1>6 DEF Next

\* The retry loop implements the circuit breaker (its safety part): whatever
\* the loops do, the breaker sees calls that are admitted and end once.
THEOREM ImplementsBreakerSafety == Spec => CB!Init /\ [][CB!Next]_(CB!vars)
<1>1. Init => CB!Init
  BY DEF Init
<1> QED
  BY <1>1, StepImplements, PTL DEF Spec

LEMMA BreakerInvUnderRetries == Spec => []BreakerInv
BY ImplementsBreakerSafety, InitBreakerInv, NextBreakerInv, PTL

\* The circuit counts failures by the loop, not by the attempt, and opens at
\* the threshold in whatever order the loops end.
THEOREM CountsUnderRetries == Spec => []ClosedBelowThreshold
<1>1. BreakerInv => ClosedBelowThreshold
  BY BreakerInvSuffices DEF ClosedBelowThreshold
<1> QED
  BY <1>1, BreakerInvUnderRetries, PTL

\* A half-open circuit never has more than half_open_max_calls retry loops of
\* its own period under way, however long they sleep between attempts.
THEOREM BudgetUnderRetries == Spec => []TrialBudget
<1>1. BreakerInv => TrialBudget
  BY BreakerInvSuffices DEF TrialBudget
<1> QED
  BY <1>1, BreakerInvUnderRetries, PTL

\* Unless one was cancelled, a half-open circuit always has a loop of its own
\* period under way, the end of which will end the period.
THEOREM TrialUnderRetries == Spec => []HalfOpenHasTrial
<1>1. BreakerInv => HalfOpenHasTrial
  BY BreakerInvSuffices DEF HalfOpenHasTrial
<1> QED
  BY <1>1, BreakerInvUnderRetries, PTL

\* Every variable of the client keeps its type, its circuit's and its loops'.
THEOREM ClientTypeCorrect == Spec => []TypeOK
<1>1. BreakerInv /\ LoopInv => TypeOK
  BY RetriesAssumption DEF BreakerInv, LoopInv, TypeOK
<1> QED
  BY <1>1, LoopInvariant, BreakerInvUnderRetries, PTL

-----------------------------------------------------------------------------
(* Routing *)

VARIABLES health, target
R == INSTANCE Routing

Sent == [service : Services, handler : R!Handlers, seen : SUBSET R!Healths]

\* ReliableNeverMarked alone is not inductive: a reliable service is never
\* marked because no request to it can end with a lost connection, and that is
\* so because its backend has been up ever since the request was sent.
Innocent ==
  /\ available \in [Services -> BOOLEAN]
  /\ health \in [Services -> R!Healths]
  /\ target \in [Calls -> Sent \cup {R!NoTarget}]
  /\ \A s \in Reliable : available[s] /\ health[s] = "up"
  /\ \A c \in Calls : target[c].service \in Reliable => target[c].seen \subseteq {"up"}

LEMMA InitInnocent == R!Init => Innocent
BY RegistryAssumption DEF R!Init, R!LoadServices, Innocent, Sent, R!Healths, R!NoTarget

\* A request that ends frees its caller and marks nothing but the service it
\* was sent to.
LEMMA EndInnocent ==
  ASSUME Innocent, NEW c \in Calls, R!Done(c),
         \/ UNCHANGED R!registry
         \/ /\ target[c].service \in Services \ Reliable
            /\ R!MarkUnavailable(target[c].service)
  PROVE  Innocent'
BY RegistryAssumption DEF Innocent, Sent, R!Done, R!registry, R!MarkUnavailable, R!NoTarget

LEMMA NextInnocent == Innocent /\ [R!Next]_(R!vars) => Innocent'
<1> USE RegistryAssumption
<1> SUFFICES ASSUME Innocent, [R!Next]_(R!vars) PROVE Innocent'
  OBVIOUS
<1> USE DEF Innocent, Sent
<1>1. ASSUME NEW c \in Calls, NEW s \in Services, R!Refuse(c, s) PROVE Innocent'
  BY <1>1 DEF R!Refuse, R!vars
<1>2. ASSUME NEW c \in Calls, NEW s \in Services, R!Route(c, s) PROVE Innocent'
  BY <1>2 DEF R!Route, R!GetServiceUrl, R!Handlers
<1>3. ASSUME NEW c \in Calls, R!Forward(c) PROVE Innocent'
  <2>1. target[c].service \in Services
    BY <1>3 DEF R!Forward, R!Reading
  <2> QED
    BY <1>3, <2>1 DEF R!Forward, R!Admitted, R!registry, R!Handlers
<1>4. ASSUME NEW c \in Calls, R!RouteRejected(c) PROVE Innocent'
  BY <1>4, EndInnocent DEF R!RouteRejected, R!Done
<1>5. ASSUME NEW c \in Calls, R!AskAgentState(c) PROVE Innocent'
  <2>1. available' = [available EXCEPT ![AgentRegistry] = TRUE] /\ UNCHANGED health
    BY <1>5 DEF R!AskAgentState, R!GetServiceUrl
  <2>2. CASE R!Admitted(c, AgentRegistry, "agent_state")
    BY <2>1, <2>2 DEF R!Admitted, R!Handlers
  <2>3. CASE UNCHANGED target
    BY <2>1, <2>3
  <2> QED
    BY <1>5, <2>2, <2>3 DEF R!AskAgentState
<1>6. ASSUME NEW c \in Calls, R!Answered(c) \/ R!BadBody(c) \/ R!Cancel(c) PROVE Innocent'
  BY <1>6, EndInnocent DEF R!Answered, R!BadBody, R!Cancel
<1>7. ASSUME NEW c \in Calls, R!ConnectionLost(c) PROVE Innocent'
  <2>1. target[c].service \in Services \ Reliable
    BY <1>7 DEF R!ConnectionLost, R!NoTarget
  <2> QED
    BY <1>7, <2>1, EndInnocent DEF R!ConnectionLost
<1>8. ASSUME NEW s \in Services, R!HealthChanges(s) PROVE Innocent'
  <2>1. PICK h \in R!Healths :
          /\ health' = [health EXCEPT ![s] = h]
          /\ target' = [c \in Calls |->
                          IF target[c].service = s /\ call[c] # "idle"
                          THEN [target[c] EXCEPT !.seen = @ \cup {h}]
                          ELSE target[c]]
    BY <1>8 DEF R!HealthChanges
  <2>2. s \notin Reliable /\ UNCHANGED available
    BY <1>8 DEF R!HealthChanges, R!registry
  <2>3. ASSUME NEW c \in Calls
        PROVE  /\ target'[c] \in Sent \cup {R!NoTarget}
               /\ target'[c].service \in Reliable => target'[c].seen \subseteq {"up"}
    BY <2>1, <2>2 DEF R!NoTarget
  <2> QED
    BY <2>1, <2>2, <2>3
<1>9. CASE R!Tick
  BY <1>9 DEF R!Tick
<1>10. CASE UNCHANGED (R!vars)
  BY <1>10 DEF R!vars
<1> QED
  BY <1>1, <1>2, <1>3, <1>4, <1>5, <1>6, <1>7, <1>8, <1>9, <1>10 DEF R!Next

\* A service whose backend never fails is never refused by the R!registry,
\* however many services share its circuit.
THEOREM ReliableServed == R!Spec => []ReliableNeverMarked
<1>1. Innocent => ReliableNeverMarked
  BY DEF Innocent, ReliableNeverMarked
<1> QED
  BY <1>1, InitInnocent, NextInnocent, PTL DEF R!Spec

-----------------------------------------------------------------------------
\* Each step of routing is one step of the shared breaker, or leaves it alone.
LEMMA StepUsesBreaker == [R!Next]_(R!vars) => [R!CB!Next]_(R!CB!vars)
<1> SUFFICES ASSUME [R!Next]_(R!vars) PROVE R!CB!Next \/ UNCHANGED (R!CB!vars)
  OBVIOUS
<1> USE DEF R!breaker, R!CB!vars
<1>1. ASSUME NEW c \in Calls, NEW s \in Services, R!Refuse(c, s) \/ R!Route(c, s)
      PROVE  UNCHANGED (R!CB!vars)
  BY <1>1 DEF R!Refuse, R!Route, R!vars
<1>2. ASSUME NEW c \in Calls, R!Forward(c) \/ R!RouteRejected(c) \/ R!AskAgentState(c)
      PROVE  R!CB!Next
  BY <1>2 DEF R!Forward, R!RouteRejected, R!AskAgentState, R!Admitted, R!BreakerRejects,
              R!CB!Next, R!CB!Admission
<1>3. ASSUME NEW c \in Calls,
             R!Answered(c) \/ R!ConnectionLost(c) \/ R!BadBody(c) \/ R!Cancel(c)
      PROVE  R!CB!Next \/ UNCHANGED (R!CB!vars)
  BY <1>3 DEF R!Answered, R!ConnectionLost, R!BadBody, R!Cancel, R!CB!Next, R!CB!Completion
<1>4. ASSUME NEW s \in Services, R!HealthChanges(s) PROVE UNCHANGED (R!CB!vars)
  BY <1>4 DEF R!HealthChanges
<1>5. CASE R!Tick
  BY <1>5 DEF R!Tick, R!CB!Next
<1>6. CASE UNCHANGED (R!vars)
  BY <1>6 DEF R!vars
<1> QED
  BY <1>1, <1>2, <1>3, <1>4, <1>5, <1>6 DEF R!Next

\* Requests to all services together use the one circuit of their endpoint as
\* CircuitBreaker specifies it, so what is proved of the breaker holds of it.
THEOREM RoutingUsesBreaker == R!Spec => R!CB!Init /\ [][R!CB!Next]_(R!CB!vars)
<1>1. R!Init => R!CB!Init
  BY DEF R!Init
<1> QED
  BY <1>1, StepUsesBreaker, PTL DEF R!Spec

\* Routing's breaker and HttpClient's are the same module with the same
\* variables.
LEMMA SameBreaker ==
  /\ R!CB!Init <=> CB!Init
  /\ [R!CB!Next]_(R!CB!vars) => [CB!Next]_(CB!vars)
<1>1. R!CB!Init <=> CB!Init
  BY DEF R!CB!Init, CB!Init
<1>2. [R!CB!Next]_(R!CB!vars) => [CB!Next]_(CB!vars)
  BY DEF R!CB!Next, CB!Next,
       R!CB!Admission, CB!Admission, R!CB!Completion, CB!Completion,
       R!CB!AdmitClosed, CB!AdmitClosed, R!CB!RejectOpen, CB!RejectOpen,
       R!CB!StartTrial, CB!StartTrial, R!CB!JoinTrial, CB!JoinTrial,
       R!CB!RejectHalfOpen, CB!RejectHalfOpen, R!CB!Succeed, CB!Succeed,
       R!CB!Fail, CB!Fail, R!CB!Cancel, CB!Cancel, R!CB!Tick, CB!Tick,
       R!CB!vars, CB!vars, R!CB!breakerVars, CB!breakerVars, R!CB!Recovered,
       CB!Recovered, R!CB!FirstTrial, CB!FirstTrial, R!CB!HasRoom, CB!HasRoom,
       R!CB!PlainSuccess, CB!PlainSuccess, R!CB!Opens, CB!Opens, R!CB!Reset,
       CB!Reset, R!CB!HandleFailure, CB!HandleFailure, R!CB!UpTo, CB!UpTo
<1> QED
  BY <1>1, <1>2

\* The circuit that all services share counts their failures together, opens at
\* the threshold and keeps to its trials, whichever services they go to.
THEOREM SharedCircuitCorrect ==
  R!Spec => [](CB!ClosedBelowThreshold /\ CB!TrialBudget /\ CB!HalfOpenHasTrial)
<1>1. R!Spec => CB!Init /\ [][CB!Next]_(CB!vars)
  BY RoutingUsesBreaker, SameBreaker, PTL
<1> QED
  BY <1>1, InitBreakerInv, NextBreakerInv, BreakerInvSuffices, PTL

-----------------------------------------------------------------------------
(* The types of routing: the breaker's, the registry's and the requests' *)

SinceInRange == since \in [Services -> 0 .. CacheTTL + 1]

LEMMA NextSinceInRange == SinceInRange /\ [R!Next]_(R!vars) => SinceInRange'
<1> USE RegistryAssumption DEF SinceInRange
<1> SUFFICES ASSUME SinceInRange, [R!Next]_(R!vars) PROVE SinceInRange'
  OBVIOUS
<1>1. ASSUME NEW c \in Calls, NEW s \in Services, R!Refuse(c, s) \/ R!Route(c, s)
      PROVE  UNCHANGED since
  BY <1>1 DEF R!Refuse, R!Route, R!GetServiceUrl, R!vars
<1>2. ASSUME NEW c \in Calls, R!Forward(c) \/ R!RouteRejected(c) \/ R!AskAgentState(c)
      PROVE  UNCHANGED since
  BY <1>2 DEF R!Forward, R!RouteRejected, R!AskAgentState, R!GetServiceUrl, R!registry
<1>3. ASSUME NEW c \in Calls, R!Answered(c) \/ R!BadBody(c) \/ R!Cancel(c)
      PROVE  UNCHANGED since
  BY <1>3 DEF R!Answered, R!BadBody, R!Cancel, R!registry
<1>4. ASSUME NEW c \in Calls, R!ConnectionLost(c) PROVE SinceInRange'
  BY <1>4 DEF R!ConnectionLost, R!MarkUnavailable, R!registry
<1>5. ASSUME NEW s \in Services, R!HealthChanges(s) PROVE UNCHANGED since
  BY <1>5 DEF R!HealthChanges, R!registry
<1>6. CASE R!Tick
  BY <1>6 DEF R!Tick, R!CB!UpTo
<1>7. CASE UNCHANGED (R!vars)
  BY <1>7 DEF R!vars
<1> QED
  BY <1>1, <1>2, <1>3, <1>4, <1>5, <1>6, <1>7 DEF R!Next

\* Every variable of routing keeps its type: the shared circuit's, the flags and
\* ages of the registry, the backends, and what every request was given.
THEOREM RoutingTypeCorrect == R!Spec => []R!TypeOK
<1>1. R!Init => SinceInRange
  BY RegistryAssumption DEF R!Init, R!LoadServices, SinceInRange
<1>2. BreakerInv /\ Innocent /\ SinceInRange => R!TypeOK
  <2>1. CB!TypeOK => R!CB!TypeOK
    BY DEF CB!TypeOK, R!CB!TypeOK, CB!CallStatus, R!CB!CallStatus, CB!CircuitState, R!CB!CircuitState
  <2>2. BreakerInv => CB!TypeOK
    BY DEF BreakerInv
  <2> QED
    BY <2>1, <2>2 DEF Innocent, SinceInRange, Sent, R!TypeOK, R!RegistryTypeOK
<1>3. R!Spec => CB!Init /\ [][CB!Next]_(CB!vars)
  BY RoutingUsesBreaker, SameBreaker, PTL
<1>4. R!Spec => []BreakerInv
  BY <1>3, InitBreakerInv, NextBreakerInv, PTL
<1>5. R!Spec => []Innocent
  BY InitInnocent, NextInnocent, PTL DEF R!Spec
<1>6. R!Spec => []SinceInRange
  BY <1>1, NextSinceInRange, PTL DEF R!Spec
<1> QED
  BY <1>2, <1>4, <1>5, <1>6, PTL

-----------------------------------------------------------------------------
(* The cached list of agents *)

CONSTANT RequestTimeout
VARIABLES cache, access_order, answer, age
L == INSTANCE ListAgents

ListAnswers == [body : L!Bodies, age : 0 .. RequestTimeout] \cup {L!NoAnswer}

\* HitIsRecent holds because the time that a valid entry has left and the age of
\* its body never exceed one time to live and one flight together.
Fresh ==
  /\ DOMAIN cache \subseteq {L!Key}
  /\ L!Key \in DOMAIN cache => cache[L!Key] \in [value : L!Bodies, left : 0 .. CacheTTL]
  /\ answer \in [Calls -> ListAnswers]
  /\ age \in Nat
  /\ (L!Key \in DOMAIN cache /\ cache[L!Key].left > 0) =>
       age + cache[L!Key].left <= CacheTTL + RequestTimeout

LEMMA InitFresh == L!Init => Fresh
<1> SUFFICES ASSUME L!Init
             PROVE  Fresh
  OBVIOUS
<1>1. DOMAIN cache = {}
  BY DEF L!Init, L!C!Init
<1>2. answer \in [Calls -> ListAnswers]
  BY DEF L!Init, ListAnswers
<1> QED
  BY <1>1, <1>2 DEF L!Init, Fresh

\* A read of the cache that is no miss for good leaves what is valid there.
LEMMA GetFresh ==
  ASSUME Fresh, L!CacheGet, UNCHANGED <<answer, age>>
  PROVE  Fresh'
<1>1. CASE UNCHANGED cache
  BY <1>1 DEF Fresh
<1>2. CASE cache' = [j \in DOMAIN cache \ {L!Key} |-> cache[j]]
  <2>1. DOMAIN cache' = {}
    BY <1>2 DEF Fresh
  <2> QED
    BY <2>1 DEF Fresh
<1> QED
  BY <1>1, <1>2 DEF L!CacheGet, L!C!GetHit, L!C!GetExpired, L!C!RemoveEntry, L!C!Present, L!store

LEMMA ArriveFresh ==
  ASSUME RequestTimeout \in Nat, Fresh, NEW c \in Calls, L!Arrive(c)
  PROVE  Fresh'
<1> DEFINE a == answer[c]
<1>1. /\ a # L!NoAnswer
      /\ L!C!Set(L!Key, a.body, CacheTTL)
      /\ age' = a.age
      /\ answer' = [answer EXCEPT ![c] = L!NoAnswer]
  BY DEF L!Arrive
<1>2. a.body \in L!Bodies /\ a.age \in 0 .. RequestTimeout
  BY <1>1 DEF Fresh, ListAnswers
<1>3. /\ DOMAIN cache' \subseteq {L!Key} /\ L!Key \in DOMAIN cache'
      /\ cache'[L!Key] = [value |-> a.body, left |-> CacheTTL]
  BY <1>1 DEF Fresh, L!C!Set
<1>4. cache'[L!Key] \in [value : L!Bodies, left : 0 .. CacheTTL] /\ cache'[L!Key].left = CacheTTL
  BY <1>2, <1>3, RegistryAssumption
<1>5. answer' \in [Calls -> ListAnswers]
  BY <1>1 DEF Fresh, ListAnswers
<1> QED
  BY <1>1, <1>2, <1>3, <1>4, <1>5, RegistryAssumption DEF Fresh

LEMMA TickFresh ==
  ASSUME RequestTimeout \in Nat, Fresh, L!Tick
  PROVE  Fresh'
<1>1. /\ \A c \in Calls : answer[c].age < RequestTimeout
      /\ cache' = [k \in DOMAIN cache |->
                     [cache[k] EXCEPT !.left = IF @ > 0 THEN @ - 1 ELSE 0]]
      /\ answer' = [c \in Calls |->
                      IF answer[c] = L!NoAnswer THEN L!NoAnswer
                      ELSE [answer[c] EXCEPT !.age = @ + 1]]
      /\ age' = IF L!Cached = "nothing" THEN age ELSE age + 1
  BY DEF L!Tick, L!C!Tick
<1>2. answer' \in [Calls -> ListAnswers]
  <2> SUFFICES ASSUME NEW c \in Calls
               PROVE  answer'[c] \in ListAnswers
    BY <1>1
  <2>1. CASE answer[c] = L!NoAnswer
    BY <1>1, <2>1 DEF ListAnswers
  <2>2. CASE answer[c] # L!NoAnswer
    <3>1. answer[c] \in [body : L!Bodies, age : 0 .. RequestTimeout] /\ answer[c].age < RequestTimeout
      BY <1>1, <2>2 DEF Fresh, ListAnswers
    <3>2. answer'[c] = [answer[c] EXCEPT !.age = answer[c].age + 1]
      BY <1>1, <2>2
    <3> QED
      BY <3>1, <3>2 DEF ListAnswers
  <2> QED
    BY <2>1, <2>2
<1>3. age' \in Nat
  BY <1>1 DEF Fresh
<1>4. CASE L!Key \notin DOMAIN cache
  BY <1>1, <1>2, <1>3, <1>4 DEF Fresh
<1>5. CASE L!Key \in DOMAIN cache
  <2> DEFINE e == cache[L!Key]
             left == IF e.left > 0 THEN e.left - 1 ELSE 0
  <2>1. e \in [value : L!Bodies, left : 0 .. CacheTTL]
    BY <1>5 DEF Fresh
  <2>2. cache'[L!Key] = [e EXCEPT !.left = left]
    BY <1>1, <1>5
  <2>3. cache'[L!Key] \in [value : L!Bodies, left : 0 .. CacheTTL] /\ cache'[L!Key].left = left
    BY <2>1, <2>2, RegistryAssumption
  <2>4. e.left > 0 => age' = age + 1
    <3>1. "nothing" \notin L!Bodies
      BY DEF L!Bodies, L!Lists
    <3> QED
      BY <1>1, <1>5, <2>1, <3>1 DEF L!Cached, L!C!IsValid
  <2>5. left > 0 => age' + left <= CacheTTL + RequestTimeout
    BY <1>5, <2>1, <2>4, RegistryAssumption DEF Fresh
  <2>6. DOMAIN cache' = DOMAIN cache
    BY <1>1
  <2> HIDE DEF left
  <2> QED
    BY <1>2, <1>3, <1>5, <2>3, <2>5, <2>6 DEF Fresh
<1> QED
  BY <1>4, <1>5

LEMMA NextFresh == ASSUME RequestTimeout \in Nat PROVE Fresh /\ [L!Next]_(L!vars) => Fresh'
<1> SUFFICES ASSUME Fresh, [L!Next]_(L!vars)
             PROVE  Fresh'
  OBVIOUS
<1>1. ASSUME NEW c \in Calls, L!ServeHit(c) \/ L!Fetch(c) \/ L!Fallback(c)
      PROVE  Fresh'
  BY <1>1, GetFresh DEF L!ServeHit, L!Fetch, L!Fallback
<1>2. ASSUME NEW c \in Calls, L!BackendReads(c) \/ L!Break(c) \/ L!Cancel(c)
      PROVE  Fresh'
  <2>1. answer' \in [Calls -> ListAnswers] /\ UNCHANGED <<cache, age>>
    <3>1. \A b \in L!Bodies : [body |-> b, age |-> 0] \in ListAnswers
      BY DEF ListAnswers
    <3>2. L!NoAnswer \in ListAnswers
      BY DEF ListAnswers
    <3> QED
      BY <1>2, <3>1, <3>2 DEF Fresh, L!BackendReads, L!Break, L!Cancel, L!store
  <2> QED
    BY <2>1 DEF Fresh
<1>3. ASSUME NEW c \in Calls, L!Arrive(c)
      PROVE  Fresh'
  BY <1>3, ArriveFresh
<1>4. CASE L!Tick
  BY <1>4, TickFresh
<1>5. CASE UNCHANGED L!vars
  BY <1>5 DEF L!vars, Fresh
<1> QED
  BY <1>1, <1>2, <1>3, <1>4, <1>5 DEF L!Next

\* A list that list_agents serves from the cache is less than one time to live
\* and one flight old (agents.py:58-63), for any callers, whose answers arrive in
\* any order and overwrite each other, for every time to live and every timeout.
THEOREM HitsAreRecent == ASSUME RequestTimeout \in Nat PROVE L!Spec => L!HitIsRecent
<1>1. Fresh /\ [L!Next]_(L!vars) =>
        [\A c \in Calls : L!ServeHit(c) => age < CacheTTL + RequestTimeout]_(L!vars)
  <2> SUFFICES ASSUME Fresh, NEW c \in Calls, L!ServeHit(c)
               PROVE  age < CacheTTL + RequestTimeout
    OBVIOUS
  <2>1. L!Key \in DOMAIN cache /\ cache[L!Key].left > 0
    BY DEF L!ServeHit, L!Truthy, L!Cached, L!C!IsValid
  <2>2. cache[L!Key].left \in Nat
    BY <2>1, RegistryAssumption DEF Fresh
  <2> QED
    BY <2>1, <2>2, RegistryAssumption DEF Fresh
<1> QED
  BY <1>1, InitFresh, NextFresh, PTL DEF L!Spec, L!HitIsRecent

\* Each step of list_agents is one step of its breaker, or leaves it alone.
LEMMA ListStepUsesBreaker == [L!Next]_(L!vars) => [L!CB!Next]_(L!CB!vars)
<1> SUFFICES ASSUME [L!Next]_(L!vars)
             PROVE  L!CB!Next \/ UNCHANGED (L!CB!vars)
  OBVIOUS
<1>1. ASSUME NEW c \in Calls, L!ServeHit(c) \/ L!BackendReads(c)
      PROVE  UNCHANGED (L!CB!vars)
  BY <1>1 DEF L!ServeHit, L!BackendReads, L!breaker, L!CB!vars
<1>2. ASSUME NEW c \in Calls, L!Fetch(c) \/ L!Fallback(c)
      PROVE  L!CB!Next
  BY <1>2 DEF L!Fetch, L!Fallback, L!CB!Next, L!CB!Admission
<1>3. ASSUME NEW c \in Calls, L!Arrive(c) \/ L!Break(c) \/ L!Cancel(c)
      PROVE  L!CB!Next
  BY <1>3 DEF L!Arrive, L!Break, L!Cancel, L!CB!Next, L!CB!Completion
<1>4. CASE L!Tick
  BY <1>4 DEF L!Tick, L!CB!Next
<1>5. CASE UNCHANGED L!vars
  BY <1>5 DEF L!vars, L!CB!vars
<1> QED
  BY <1>1, <1>2, <1>3, <1>4, <1>5 DEF L!Next

LEMMA ListBreakerIsSame ==
  /\ L!CB!Init <=> CB!Init
  /\ [L!CB!Next]_(L!CB!vars) => [CB!Next]_(CB!vars)
<1>1. L!CB!Init <=> CB!Init
  BY DEF L!CB!Init, CB!Init
<1>2. [L!CB!Next]_(L!CB!vars) => [CB!Next]_(CB!vars)
  BY DEF L!CB!Next, CB!Next,
       L!CB!Admission, CB!Admission, L!CB!Completion, CB!Completion,
       L!CB!AdmitClosed, CB!AdmitClosed, L!CB!RejectOpen, CB!RejectOpen,
       L!CB!StartTrial, CB!StartTrial, L!CB!JoinTrial, CB!JoinTrial,
       L!CB!RejectHalfOpen, CB!RejectHalfOpen, L!CB!Succeed, CB!Succeed,
       L!CB!Fail, CB!Fail, L!CB!Cancel, CB!Cancel, L!CB!Tick, CB!Tick,
       L!CB!vars, CB!vars, L!CB!breakerVars, CB!breakerVars, L!CB!Recovered,
       CB!Recovered, L!CB!FirstTrial, CB!FirstTrial, L!CB!HasRoom, CB!HasRoom,
       L!CB!PlainSuccess, CB!PlainSuccess, L!CB!Opens, CB!Opens, L!CB!Reset,
       CB!Reset, L!CB!HandleFailure, CB!HandleFailure, L!CB!UpTo, CB!UpTo
<1> QED
  BY <1>1, <1>2

\* Behind the cache the circuit of list_agents still opens at the threshold,
\* keeps to its trials, and waits for one: hits neither count nor probe.
THEOREM ListCircuitCorrect ==
  L!Spec => [](CB!ClosedBelowThreshold /\ CB!TrialBudget /\ CB!HalfOpenHasTrial)
<1>1. L!Init => CB!Init
  BY ListBreakerIsSame DEF L!Init
<1>2. L!Spec => CB!Init /\ [][CB!Next]_(CB!vars)
  BY <1>1, ListStepUsesBreaker, ListBreakerIsSame, PTL DEF L!Spec
<1> QED
  BY <1>2, InitBreakerInv, NextBreakerInv, BreakerInvSuffices, PTL

\* Each step of list_agents is one of its cache, or leaves it alone.
LEMMA ListStepUsesCache == Fresh /\ [L!Next]_(L!vars) => [L!C!Next]_(L!C!vars)
<1> SUFFICES ASSUME Fresh, [L!Next]_(L!vars)
             PROVE  L!C!Next \/ UNCHANGED (L!C!vars)
  OBVIOUS
<1>1. ASSUME NEW c \in Calls, L!ServeHit(c) \/ L!Fetch(c) \/ L!Fallback(c)
      PROVE  L!C!Next \/ UNCHANGED (L!C!vars)
  BY <1>1 DEF L!ServeHit, L!Fetch, L!Fallback, L!CacheGet, L!store, L!C!Next, L!C!vars
<1>2. ASSUME NEW c \in Calls, L!BackendReads(c) \/ L!Break(c) \/ L!Cancel(c)
      PROVE  UNCHANGED (L!C!vars)
  BY <1>2 DEF L!BackendReads, L!Break, L!Cancel, L!store, L!C!vars
<1>3. ASSUME NEW c \in Calls, L!Arrive(c)
      PROVE  L!C!Next
  <2>1. answer[c].body \in L!Bodies
    BY <1>3 DEF L!Arrive, Fresh, ListAnswers
  <2>2. L!C!Set(L!Key, answer[c].body, CacheTTL)
    BY <1>3 DEF L!Arrive
  <2> QED
    BY <2>1, <2>2 DEF L!C!Next
<1>4. CASE L!Tick
  BY <1>4 DEF L!Tick, L!C!Next
<1>5. CASE UNCHANGED L!vars
  BY <1>5 DEF L!vars, L!C!vars
<1> QED
  BY <1>1, <1>2, <1>3, <1>4, <1>5 DEF L!Next

\* list_agents uses its cache as ResponseCache specifies, whatever its requests
\* overlap with: what is proved of ResponseCache, that it is an LRU cache within
\* its size included, holds of the cache behind the endpoint.
THEOREM ListUsesCache ==
  ASSUME RequestTimeout \in Nat PROVE L!Spec => L!C!Spec
<1>1. L!Init => L!C!Init
  BY DEF L!Init
<1> QED
  BY <1>1, InitFresh, NextFresh, ListStepUsesCache, PTL DEF L!Spec, L!C!Spec
=============================================================================
