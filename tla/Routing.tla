------------------------------- MODULE Routing -------------------------------
(***************************************************************************)
(* How the gateway picks a backend and learns that it is gone:             *)
(* dynamic_route (api/router.py) and the two agent-state endpoints         *)
(* (api/endpoints/agents.py), over the service registry and the circuit    *)
(* breaker.                                                                *)
(*                                                                         *)
(* Two memories of failure meet here.  The registry keeps one flag per     *)
(* service, set by dynamic_route and forgotten after a time to live.  The  *)
(* breaker is keyed by what _execute_with_retry extracts from the URL, the *)
(* host and the last path component, so services on one host share the     *)
(* circuit of equally named endpoints.  The module follows the requests    *)
(* for ".../state" of several services on one host.                        *)
(*                                                                         *)
(* HttpClient implements CircuitBreaker: a retry loop is one protected     *)
(* call.  A backend is up, unreachable or garbled (its JSON does not       *)
(* parse), and changes at any time; a call may end in the way of any       *)
(* health its backend had while the call ran.                              *)
(***************************************************************************)
EXTENDS ServiceRegistry, FiniteSets, SequencesExt

CONSTANTS Calls, FailureThreshold, RecoveryTimeout, HalfOpenMaxCalls

VARIABLES
  state, failure_count, elapsed, half_open_calls, call, lost,  \* CircuitBreaker
  health,       \* what each backend would answer now
  target        \* the service each request was given, by which handler, and
                \* the healths its backend has had since it was sent

\* The breaker of the requests' circuit: CircuitBreakerRegistry.get_or_create
\* makes one per name and never suspends while it holds its lock.
CB == INSTANCE CircuitBreaker

breaker == <<state, failure_count, elapsed, half_open_calls, call, lost>>
vars == <<state, failure_count, elapsed, half_open_calls, call, lost,
          available, since, health, target>>

Healths == {"up", "unreachable", "garbled"}
Handlers == {"dynamic_route", "agent_state"}
NoTarget == [service |-> "none", handler |-> "none", seen |-> {}]

-----------------------------------------------------------------------------
(* The circuit of a URL *)

\* The URL of a service's state endpoint: the settings differ in the port only.
StateURL(s) == [host |-> "localhost", port |-> s, path |-> <<"agents", "id", "state">>]

\* _extract_service_from_url keeps the host, up to ":" or "/";
\* _extract_endpoint_from_url keeps what follows the last "/".
CircuitName(url) == <<url.host, Last(url.path)>>

ASSUME OneCircuit == \A s, t \in Services : CircuitName(StateURL(s)) = CircuitName(StateURL(t))

-----------------------------------------------------------------------------
TypeOK ==
  /\ CB!TypeOK
  /\ RegistryTypeOK
  /\ health \in [Services -> Healths]
  /\ target \in [Calls -> [service : Services, handler : Handlers, seen : SUBSET Healths]
                            \cup {NoTarget}]

Init ==
  /\ CB!Init
  /\ LoadServices
  /\ health = [s \in Services |-> "up"]
  /\ target = [c \in Calls |-> NoTarget]

-----------------------------------------------------------------------------
\* Mutant of Refuse: being asked counts as a check of the service.
Refuse_Renews(c, s) ==
  /\ target[c] = NoTarget
  /\ Unavailable(s)
  /\ since' = [since EXCEPT ![s] = 0]
  /\ UNCHANGED <<available, health, target, breaker>>

\* get_service_url raises ServiceUnavailableError: 503 from every handler.
Refuse(c, s) ==
  /\ target[c] = NoTarget
  /\ Unavailable(s)
  /\ UNCHANGED vars

-----------------------------------------------------------------------------
(* Requests *)

\* The breaker lets the request of c to s through.
Admitted(c, s, handler) ==
  /\ CB!AdmitClosed(c) \/ CB!StartTrial(c) \/ CB!JoinTrial(c)
  /\ target' = [target EXCEPT ![c] = [service |-> s, handler |-> handler, seen |-> {health[s]}]]

BreakerRejects(c) == CB!RejectOpen(c) \/ CB!RejectHalfOpen(c)

\* dynamic_route up to the await of the request's body.
Route(c, s) ==
  /\ target[c] = NoTarget
  /\ GetServiceUrl(s)
  /\ target' = [target EXCEPT ![c] = [service |-> s, handler |-> "dynamic_route", seen |-> {}]]
  /\ UNCHANGED <<health, breaker>>

Reading(c) == target[c] # NoTarget /\ call[c] = "idle"

\* forward_request and _execute_with_retry, up to the await of the backend.
\* The registry is not asked again.
Forward(c) ==
  /\ Reading(c)
  /\ Admitted(c, target[c].service, "dynamic_route")
  /\ UNCHANGED <<registry, health>>

\* Mutant of RouteRejected: the open circuit is taken for a lost connection.
RouteRejected_Marks(c) ==
  /\ Reading(c)
  /\ BreakerRejects(c)
  /\ MarkUnavailable(target[c].service)
  /\ target' = [target EXCEPT ![c] = NoTarget]
  /\ UNCHANGED health

\* CircuitBreakerOpenException is none of the exceptions dynamic_route names:
\* it is answered with 500, and the flag stays.
RouteRejected(c) ==
  /\ Reading(c)
  /\ BreakerRejects(c)
  /\ target' = [target EXCEPT ![c] = NoTarget]
  /\ UNCHANGED <<registry, health>>

\* get_agent_state and update_agent_state: nothing suspends between the
\* registry and the breaker.
AskAgentState(c) ==
  /\ target[c] = NoTarget
  /\ GetServiceUrl(AgentRegistry)
  /\ \/ Admitted(c, AgentRegistry, "agent_state")
     \/ BreakerRejects(c) /\ UNCHANGED target
  /\ UNCHANGED health

-----------------------------------------------------------------------------
(* Completion *)

Done(c) == target' = [target EXCEPT ![c] = NoTarget] /\ UNCHANGED health

\* Any status the backend answers with, an error status too, is returned.
Answered(c) ==
  /\ "up" \in target[c].seen
  /\ CB!Succeed(c)
  /\ Done(c)
  /\ UNCHANGED registry

\* ServiceConnectionError: dynamic_route marks the service and answers 502,
\* the state endpoints only answer 503.
ConnectionLost(c) ==
  /\ "unreachable" \in target[c].seen
  /\ CB!Fail(c)
  /\ Done(c)
  /\ IF target[c].handler = "dynamic_route"
     THEN MarkUnavailable(target[c].service)
     ELSE UNCHANGED registry

\* Any other exception is answered with 500.  The breaker counts it all the same.
BadBody(c) ==
  /\ "garbled" \in target[c].seen
  /\ CB!Fail(c)
  /\ Done(c)
  /\ UNCHANGED registry

\* The client is gone: while its body is read, or in the call.
Cancel(c) ==
  /\ \/ Reading(c) /\ UNCHANGED breaker
     \/ CB!Cancel(c)
  /\ Done(c)
  /\ UNCHANGED registry

\* A backend fails or comes back.
HealthChanges(s) ==
  /\ s \notin Reliable
  /\ \E h \in Healths \ {health[s]} :
       /\ health' = [health EXCEPT ![s] = h]
       /\ target' = [c \in Calls |->
                       IF target[c].service = s /\ call[c] # "idle"
                       THEN [target[c] EXCEPT !.seen = @ \cup {h}]
                       ELSE target[c]]
  /\ UNCHANGED <<registry, breaker>>

Tick ==
  /\ CB!Tick
  /\ since' = [s \in Services |-> CB!UpTo(since[s], CacheTTL + 1)]
  /\ UNCHANGED <<available, health, target>>

-----------------------------------------------------------------------------
Ends(c) == Answered(c) \/ ConnectionLost(c) \/ BadBody(c)

Next ==
  \/ \E c \in Calls, s \in Services : Refuse(c, s) \/ Route(c, s)
  \/ \E c \in Calls :
       Forward(c) \/ RouteRejected(c) \/ AskAgentState(c)
         \/ Answered(c) \/ ConnectionLost(c) \/ BadBody(c) \/ Cancel(c)
  \/ \E s \in Services : HealthChanges(s)
  \/ Tick

\* Time passes, a request whose client stays is forwarded and ends (httpx
\* enforces its timeouts), and every service goes on being asked for by clients
\* who do not all give up.  Those last two are strong fairness: Calls bounds the
\* requests under way, which the code does not, and a client may leave.
Fairness ==
  /\ WF_vars(Tick)
  /\ \A c \in Calls : WF_vars(Ends(c))
  /\ SF_vars(\E c \in Calls : Forward(c) \/ RouteRejected(c))
  /\ \A s \in Services : SF_vars(\E c \in Calls : Route(c, s))

Spec == Init /\ [][Next]_vars /\ Fairness

-----------------------------------------------------------------------------
(* Properties *)

\* A service that is marked unavailable gets another chance, whatever its
\* backend does: requests refused meanwhile do not renew the mark, and those
\* already under way can renew it only finitely often.
MarkLapses == \A s \in Services : ~ available[s] ~> available[s]

Wedged == state = "HALF_OPEN" /\ lost
Serving == state = "CLOSED" /\ \A s \in Services : available[s]

\* Once the backends stay up, the gateway forgets: after the circuit's
\* recovery timeout and the registry's time to live every service is available
\* and the shared circuit is closed, for good, unless a cancelled trial has
\* wedged the circuit (see CircuitBreaker!HalfOpenCanTest).
Recovers == <>[](\A s \in Services : health[s] = "up") => <>[](Serving \/ Wedged)
=============================================================================
