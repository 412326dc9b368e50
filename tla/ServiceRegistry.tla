-------------------------- MODULE ServiceRegistry --------------------------
(***************************************************************************)
(* ServiceRegistry of the gateway (core/service_registry.py): one flag and *)
(* one check time per service.  Its methods never suspend; Routing says    *)
(* who calls them, and when.                                               *)
(***************************************************************************)
EXTENDS Naturals

CONSTANTS
  Services,         \* SERVICE_NAME_MAPPINGS
  AgentRegistry,    \* "agent-registry", which the state endpoints ask for
  Reliable,         \* the services whose backend never fails
  CacheTTL          \* SERVICE_CACHE_TTL_SECONDS, in ticks

ASSUME RegistryAssumption ==
  /\ AgentRegistry \in Services
  /\ "none" \notin Services
  /\ Reliable \subseteq Services
  /\ CacheTTL \in Nat

VARIABLES
  available,    \* ServiceInfo.available
  since         \* time.time() - ServiceInfo.last_check, up to CacheTTL + 1

registry == <<available, since>>

RegistryTypeOK ==
  /\ available \in [Services -> BOOLEAN]
  /\ since \in [Services -> 0 .. CacheTTL + 1]

\* _load_services: every service is available, last checked at the epoch.
LoadServices ==
  /\ available = [s \in Services |-> TRUE]
  /\ since = [s \in Services |-> CacheTTL + 1]

Expired(s) == since[s] > CacheTTL

\* get_service_url returns: the flag is reset by whoever asks first after the
\* time to live, last_check is not.
GetServiceUrl(s) ==
  /\ available[s] \/ Expired(s)
  /\ available' = [available EXCEPT ![s] = TRUE]
  /\ UNCHANGED since

\* get_service_url raises ServiceUnavailableError.
Unavailable(s) == ~ available[s] /\ ~ Expired(s)

MarkUnavailable(s) ==
  /\ available' = [available EXCEPT ![s] = FALSE]
  /\ since' = [since EXCEPT ![s] = 0]

-----------------------------------------------------------------------------
\* A service whose backend never fails is never refused by the registry,
\* although it shares its circuit with services that do: what an open circuit
\* or a request to another service raises is never held against it.
ReliableNeverMarked == \A s \in Reliable : available[s]
=============================================================================
