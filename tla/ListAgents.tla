----------------------------- MODULE ListAgents -----------------------------
(***************************************************************************)
(* list_agents (api_gateway_service/app/api/endpoints/agents.py): the      *)
(* gateway's cached read of the agent list.  The module composes the       *)
(* response cache (one key of it) with the circuit breaker of              *)
(* "agent-registry.list_agents".  HttpClient implements CircuitBreaker, so *)
(* a whole retry loop is one protected call here.                          *)
(*                                                                         *)
(* From cache.get to the admission by the breaker nothing suspends (the    *)
(* locks on the way are never held across an await), so both are one step. *)
(* The handler suspends once, in the request; other calls run meanwhile.   *)
(***************************************************************************)
EXTENDS Naturals, FiniteSets, Sequences

CONSTANTS
  Calls, FailureThreshold, RecoveryTimeout, HalfOpenMaxCalls,
  CacheTTL,         \* the ttl_seconds of line 63, in ticks
  RequestTimeout    \* bound: ticks between a backend's read and the arrival
                    \* of its answer, which httpx cuts off

ASSUME TimesAssumption == CacheTTL \in Nat /\ RequestTimeout \in Nat

VARIABLES
  state, failure_count, elapsed, half_open_calls, call, lost,  \* CircuitBreaker
  cache, access_order,                                   \* ResponseCache
  answer,      \* what the backend read for each call, until it arrives
  age          \* history: ticks since the backend read the cached body

Key == "agents_list"
Lists == {"no_agents", "some_agents"}
Bodies == Lists \cup {"error_body"}
NoAnswer == [body |-> "nothing", age |-> 0]

CB == INSTANCE CircuitBreaker
C == INSTANCE ResponseCache
       WITH Keys <- {Key}, Values <- Bodies, TTLs <- {CacheTTL}, MaxSize <- 1000

breaker == <<state, failure_count, elapsed, half_open_calls, call, lost>>
store == <<cache, access_order>>
vars == <<state, failure_count, elapsed, half_open_calls, call, lost,
          cache, access_order, answer, age>>


Init ==
  /\ CB!Init
  /\ C!Init
  /\ answer = [c \in Calls |-> NoAnswer]
  /\ age = 0

-----------------------------------------------------------------------------
\* Mutant of Cached: expired entries are returned.
Cached_Expired == IF Key \in DOMAIN cache THEN cache[Key].value ELSE "nothing"

\* What cache.get returns now, and what it does to the cache.
Cached ==
  IF Key \in DOMAIN cache /\ C!IsValid(Key) THEN cache[Key].value ELSE "nothing"

CacheGet ==
  \/ C!GetHit(Key)
  \/ C!GetExpired(Key)
  \/ Key \notin DOMAIN cache /\ UNCHANGED store

\* "if cached_data": an empty list is false as None is.
Truthy(b) == b \notin {"nothing", "no_agents"}

\* Mutant of ServeHit: a hit renews the time to live.
ServeHit_Renews(c) ==
  /\ call[c] = "idle"
  /\ Truthy(Cached)
  /\ C!Set(Key, Cached, CacheTTL)
  /\ UNCHANGED answer
  /\ age' = 0
  /\ UNCHANGED breaker

\* The cache answers ("cache": "hit"); the backend is not asked.
ServeHit(c) ==
  /\ call[c] = "idle"
  /\ Truthy(Cached)
  /\ CacheGet
  /\ UNCHANGED <<answer, age>>
  /\ UNCHANGED breaker

\* A miss that the breaker admits.
Fetch(c) ==
  /\ ~ Truthy(Cached)
  /\ CacheGet
  /\ CB!AdmitClosed(c) \/ CB!StartTrial(c) \/ CB!JoinTrial(c)
  /\ UNCHANGED <<answer, age>>

\* A miss that the breaker rejects is answered with an empty list.  The second
\* cache.get (line 69) sees what the first one left, so it finds nothing to
\* serve as "stale".
Fallback(c) ==
  /\ ~ Truthy(Cached)
  /\ CacheGet
  /\ CB!RejectOpen(c) \/ CB!RejectHalfOpen(c)
  /\ UNCHANGED <<answer, age>>

\* The agent registry reads its list for the request, or fails to.
BackendReads(c) ==
  /\ call[c] # "idle"
  /\ answer[c] = NoAnswer
  /\ \E b \in Bodies : answer' = [answer EXCEPT ![c] = [body |-> b, age |-> 0]]
  /\ UNCHANGED age
  /\ UNCHANGED breaker
  /\ UNCHANGED store

\* The body arrives.  It is cached and returned whatever it is: an error
\* status was turned into an ordinary body by _handle_error_response.
Arrive(c) ==
  LET a == answer[c]
  IN /\ a # NoAnswer
     /\ CB!Succeed(c)
     /\ C!Set(Key, a.body, CacheTTL)
     /\ age' = a.age
     /\ answer' = [answer EXCEPT ![c] = NoAnswer]

\* An exception: ServiceConnectionError is answered with 503, any other with
\* 500; the cache stays as it is.
Break(c) ==
  /\ CB!Fail(c)
  /\ answer' = [answer EXCEPT ![c] = NoAnswer]
  /\ UNCHANGED age
  /\ UNCHANGED store

Cancel(c) ==
  /\ CB!Cancel(c)
  /\ answer' = [answer EXCEPT ![c] = NoAnswer]
  /\ UNCHANGED age
  /\ UNCHANGED store

Tick ==
  /\ \A c \in Calls : answer[c].age < RequestTimeout
  /\ CB!Tick
  /\ C!Tick
  /\ answer' = [c \in Calls |->
                  IF answer[c] = NoAnswer THEN NoAnswer
                  ELSE [answer[c] EXCEPT !.age = @ + 1]]
  /\ age' = IF Cached = "nothing" THEN age ELSE age + 1

Next ==
  \/ \E c \in Calls :
       ServeHit(c) \/ Fetch(c) \/ Fallback(c) \/ BackendReads(c) \/ Arrive(c)
         \/ Break(c) \/ Cancel(c)
  \/ Tick

\* Time passes, a request ends (httpx enforces its timeout), clients go on
\* asking for the list.
Fairness ==
  /\ WF_vars(Tick)
  /\ \A c \in Calls : WF_vars(Arrive(c) \/ Break(c))
  /\ WF_vars(\E c \in Calls : Fetch(c) /\ CB!StartTrial(c))

Spec == Init /\ [][Next]_vars /\ Fairness

-----------------------------------------------------------------------------
(* Properties *)

\* A hit was the backend's answer less than CacheTTL + RequestTimeout ticks
\* ago.  Concurrent misses overwrite each other's entry in the order in which
\* the answers arrive, not in which the backend read them, and each renews the
\* time to live; still nothing older than one flight and one TTL is served.
HitIsRecent ==
  [][\A c \in Calls : ServeHit(c) => age < CacheTTL + RequestTimeout]_vars

\* Cache hits keep callers away from an open circuit, and so from probing it,
\* only until the entry expires: the circuit does not stay open.
OpenProbed == state = "OPEN" ~> state # "OPEN"
=============================================================================
