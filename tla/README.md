# KFM Protocol: TLA+ models, model checks and proofs

The repository implements the KFM ("kill, fold/modify, mature") protocol for
managing the life of software agents as a set of Python services: FastAPI
applications on asyncio, with PostgreSQL, Redis, RabbitMQ and Kubernetes behind
them. This directory holds TLA+ models of the services' own logic, the TLC runs
that check them, and theorems checked by TLAPS. `PROJECT.json` lists components,
runs, the source lines behind every definition, the hazards found in the code
and the properties that cover them.

All paths below are relative to the repository root; FAQ means
`api_gateway_service/docs/sync_communication_faq.md`.

## 1. The system

### Parts, state, operations

| Part | State | Operations | Hard behaviour |
|---|---|---|---|
| **gateway: circuit breaker** (`api_gateway_service/app/core/circuit_breaker.py`) | per "service.endpoint": state, failure_count, last_failure_time, half_open_calls | execute, _check_state, _handle_failure, _reset | overlapping calls end in another state than the one that admitted them; cancelled callers |
| **gateway: HTTP client** (`app/services/http_client.py`) | local to a call: retries | retry loop with backoff under the breaker | retries invisible to the breaker; two tests on one counter |
| **gateway: response cache** (`app/core/cache.py`) | dict of entries, list of keys in order of use | get, set, delete, clear, eviction, expiry | two structures that must agree |
| **gateway: agents endpoint** (`app/api/endpoints/agents.py`) | none of its own | list_agents: cache, then breaker and client, then fallback | answers out of order; stale reads; cache and breaker starving each other |
| **gateway: async tasks** (`app/api/endpoints/async_tasks.py`, `app/services/task_*.py`, `app/models/task.py`) | records and a queue in Redis; a worker loop per process | submit, register webhook, worker, retry, timeout, webhook | whole records read and written by several actors; crashes |
| **gateway: service registry and dynamic routing** (`app/core/service_registry.py`, `app/api/router.py`) | an availability flag and a check time per service | get_service_url, mark_service_unavailable, dynamic_route, the agent-state endpoints | two memories of failure: a flag per service that time resets, and a circuit that services on one host share |
| **agent registry: registry manager** (`agent_registry_service/core/registry_manager.py`, `crud/crud_agent_registry.py`) | rows in PostgreSQL, a dict of the process, discovery pages in Redis | register, update, deregister, discover, load at start-up | two copies of every agent; lock held across an await; cache invalidation; events |
| agent registry: state machine and agents (`core/state_machine.py`, `crud/crud_agent.py`) | life-cycle state, history | no code calls them | |
| **agent registry: subscriptions** (`services/subscription_service.py`, `services/notification_service.py`) | subscriptions, a pub/sub listener | listen, match, call webhooks with retries | at-most-once events |
| agent registry: rate limit (`app/middleware/rate_limit.py`) | counters in Redis | never added to the application | |
| **k-operator** (`k_operator_service`) | connection to RabbitMQ | deprecate, archive, delete batches; publish events | state change and event are not atomic |
| **resource manager** (`resource_manager_service`) | quotas, resources in Kubernetes | event listener, quota merge | failed messages are acknowledged |
| m-operator (`m_operator_service`) | promotion reviews and approvals | no request can change a review (section 8) | |
| **f-operator: experiments and feature flags** (`f_operator_service/services`, `crud/crud_experiment.py`) | experiments in the database, flag overrides in memory | create, update, start, pause, resume, conclude, cancel | restart; await between check and write; shared flags; the arithmetic of a conclusion |
| **f-operator: checklists and reviews** (`f_operator_service/app/api/endpoints/checklist.py`, `promotion.py`, `app/services/provenance_service.py`) | templates, criteria, versions, reviews, provenance records | CRUD, ordering, versioning, decisions | read-then-write numbering; a record in a second transaction |
| **policy engine** (`policy_engine/engine.py`, `models.py`) | loaded policies | load, reload, serialise, evaluate, execute | nested conditions; missing data; a condition that raises; a reload or a failing handler between actions |
| admin UI, middleware, logging, tracing, settings, migrations, manifests | none of the protocol's | | |

### Interactions

Clients talk to the gateway. Its endpoints read the response cache, then call a
backend through the HTTP client; each call passes the breaker of its endpoint.
Asynchronous tasks go through Redis to a worker loop in each gateway process. The
registry answers reads from its dict and discovery pages, and publishes events
on Redis pub/sub for the subscription service. The k-, m- and f-operators change
agents by HTTP calls of the registry; the k-operator publishes RabbitMQ events
for the resource manager. Requests that are not for the agents list find their
backend in the service registry of the gateway and pass the same breakers. The
f-operator serves experiments and checklists from its own database. The policy
engine, a library, calls the operators over HTTP.

### What makes a part correct

- Breaker: counting and the trial budget under overlapping calls; the circuit
  always leaves HALF_OPEN and OPEN.
- HTTP client: a bounded number of requests, no early surrender, exactly one
  result for the breaker.
- Cache: it is an LRU cache with time to live and a size limit.
- Agents endpoint: bounded staleness, no starvation of the breaker's probe.
- Async tasks: one owner per task, truthful webhooks, every task ends.
- Registry: the dict has what the database has, events and cached pages tell the
  truth, no request hangs.
- Routing: no service pays for the failures of another in the registry, no mark
  lasts for ever, and the gateway recovers when the backends do.
- k-operator and resource manager: events tell the truth, every confirmed
  deletion is told, every message is handled.
- Subscriptions: events arrive in order, who left hears no more, the listener
  always comes back.
- Experiments: the override agrees with the status, an end leaves a conclusion,
  a success was measured.
- Checklists: what is answered as done is on record, appended criteria come
  last, versions do not touch each other.
- Policy engine: an evaluation finds what the conditions say, missing data match
  nothing, and every match is acted on and logged.

## 2. How the code is turned into a model

Every service runs on one asyncio event loop, so code interleaves only where an
`await` really suspends. An action is the code between two such awaits, with
every assignment it makes; its guard is the code's own conditions and early
returns. The locks of the gateway are never held across an await, so they are
never contended and taking one does not suspend. The registry manager's lock is
held across awaits in one branch and is modelled.

Counters that the code only compares are kept up to the first value past their
comparison (`UpTo` in `CircuitBreaker`), which loses nothing. Clocks are ticks.
Identifiers, payloads and pages are model values or members of small sets.

The models describe the function bodies. As committed, several service modules
do not import (for example `agent_registry_service` uses `Depends`,
`get_settings` and `Optional` without importing them, and the gateway's
`main.py:81` does not await `start_worker`; `policy_engine/models.py` uses
`Literal` and `timezone` without importing them; the f-operator's experiment
modules miss `Tuple` and names of `crud`). These are one-line mistakes in the
wiring, not in the logic modelled here; section 7 lists those that decide what a
user sees.

## 3. Modules

| Module | Models | State and actions |
|---|---|---|
| `BreakerConstants` | | The callers and settings of a breaker with their assumptions, and its states. |
| `CircuitBreaker` | `circuit_breaker.py` | The four fields of the class under their names (the time as `elapsed` ticks) and `call`, where each caller is. Admission (`AdmitClosed`, `RejectOpen`, `StartTrial`, `JoinTrial`, `RejectHalfOpen`) is execute up to its await; completion (`Succeed`, `Fail`, `Cancel`) is the rest. |
| `HttpClient` | `http_client.py` | Adds the retry loop: `Start`, `RetryStatus`, `RetryException`, `Resend`, `Return`, `BadBody`, `GiveUp`. Uses the breaker's actions through `INSTANCE`, implements its specification, and states the breaker's properties with loops as its calls. |
| `LRUCache` | abstract | What the cache promises: recency as a relation, the oldest entry evicted. |
| `ResponseCache` | `cache.py` | The dict and the list, one action per method and outcome. Implements `LRUCache`. |
| `ListAgents` | `endpoints/agents.py` | Composes `CircuitBreaker` (standing for the HTTP client, which implements it) and one key of `ResponseCache`, with the backend's read and the arrival of its answer as separate steps. |
| `ServiceRegistry` | `service_registry.py` | `available` and `since` are the flag and the check time of each `ServiceInfo`; `LoadServices`, `GetServiceUrl` and `MarkUnavailable` are the methods. |
| `Routing` | `router.py`, the state endpoints of `agents.py`, the key of a circuit in `http_client.py` | Composes `CircuitBreaker` with `ServiceRegistry`. `target` is the service a request was given; `health` is what a backend would answer, and changes at any time. One action per handler up to its await (`Refuse`, `Route`, `Forward`, `RouteRejected`, `AskAgentState`) and per way a call ends. |
| `AsyncTasks` | `async_tasks.py`, `task_*.py` | The record hash and queue of Redis, submissions, registrations and workers; one action per Redis call, plus timeouts, crashes and failing Redis calls. |
| `AgentRegistry` | `registry_manager.py`, `crud_agent_registry.py` | Rows, dict, lock, discovery cache, and a program counter per request, started by the four handlers of `endpoints/agents.py`; one action per database or Redis call, plus failing calls and restarts. |
| `AgentRemoval` | k-operator (`operations.py`, `publisher.py`, `clients/agent_registry.py`), exchange, resource manager (`event_listener.py`) | Composes the two services. A batch keeps the agents still to call and `successful_ids`; one action per call and per event. The listener connects and then consumes, and each may fail. `messages` is the log of everything published, each with its status in the queue and the progress of its handler; one action per call of Kubernetes that suspends. `confirmed` and `untold` are histories. |
| `MCAgentRemoval` | | The kinds of resources for TLC. |
| `Subscriptions` | `subscription_service.py`, `notification_service.py`, `crud_subscription.py`, `endpoints/subscriptions.py` | The table, the channel (what Redis has sent and the listener not read), the listener task with the event in its hands, and the webhooks under way; one action per call of Redis, the database or a subscriber that returns, and the writes of subscriptions beside them. `told` and `leaving` are histories. |
| `MCSubscriptions` | | Criteria and events for TLC. |
| `PolicyEvaluation` | `policy_engine/engine.py`, `models.py` | No state: comparison, targets, the four types of conditions and their groups, as a recursive function on `Trees`, the conditions that files and their groups hold, nested to any `Depth`. A verdict is true, false, or that the evaluation raises. |
| `PolicyExecution` | `execute_actions` of `engine.py` | The latest evaluation with its matches, and the audit entries. One action per handler, with the call of an operator as two. |
| `PolicyEngine` | the rest of `engine.py` | Adds the loaded policies, and the matches of an evaluation in the order its loops find them: the n-th is the pair with n - 1 sooner ones. Loading and evaluating are one action each, as they never suspend. |
| `MCPolicyEngine` | | Condition trees, policy files and agents for TLC. |
| `FeatureFlags` | `feature_flag_service.py` | The override an experiment sets, and whom a flag is shown to. |
| `ExperimentAnalysis` | the analysis of `experiment_service.py` | Means, relative differences, criteria and the outcome, in whole numbers. |
| `Experiments` | `experiment_service.py`, `crud_experiment.py`, `endpoints/experiment.py` | Rows, overrides in memory, and where each request is: read, touched the override, collected the metrics, wrote. Commits may fail and the process restart. `disturbed` and `last` are histories. |
| `MCExperiments` | | Configurations, metrics and users for TLC. |
| `Checklists` | `checklist.py`, `promotion.py`, `provenance_service.py` | Templates with their criteria, reviews, the requests that have a provenance record, and where each request is. A request reads, commits its change, commits its record; each commit may fail and the process end. |
| `MCChecklists` | | Two interchangeable requests for TLC. |
| `GatewayProofs`, `ResponseCacheProofs`, `AsyncTasksProofs`, `AgentRegistryProofs`, `OperationsProofs`, `SubscriptionsProofs`, `ExperimentsProofs`, `ChecklistsProofs` | | The theorems of section 6. `OperationsProofs` is about what is done to agents: the removals of `AgentRemoval` and the policies of `PolicyEngine`. `GatewayProofs` treats the breaker with its three users: the HTTP client, `Routing` (as `R`) and `ListAgents` (as `L`). |

A definition named `X_Something` just before `X` is a mutant: `X` changed as a
plausible bug would change it. Each property of a passing run names one in
`PROJECT.json`, and replacing `X` by it makes TLC report the property.

## 4. Runs

| Run | Instance | Question and answer |
|---|---|---|
| `breaker_wedge` | 3 callers, threshold 2, timeout 1, 1 trial | `HalfOpenCanTest` fails: see section 7. |
| `http_client` | 3 calls, 1 retry, threshold 2, timeout 1, 2 trials | The breaker with retry loops as its calls: counting (`ClosedBelowThreshold`), `TrialBudget`, `HalfOpenHasTrial`, and the circuit leaves HALF_OPEN unless a trial is cancelled (`HalfOpenResolves`). The loops: `AttemptsBounded`, `EveryRetryUsed`. The refinement `ImplementsBreaker`, liveness included. Any caller may be cancelled. |
| `response_cache` | 4 keys, size 3, 2 values, 2 times to live | `OrderMatchesCache`, `SizeBound`, and the refinement `ImplementsLRU`. |
| `list_agents` | 2 callers, time to live 2, flight 1 | `HitIsRecent` bounds the age of a hit by one flight and one time to live, though concurrent answers overwrite each other. `OpenProbed`: hits do not keep the circuit open for good. |
| `routing` | 2 requests, a failing and a reliable service, threshold 3, 2 trials, time to live 2 | `ReliableNeverMarked`: the shared circuit costs nobody his place in the registry. `MarkLapses`: no mark lasts for ever. `Recovers`: once the backends stay up, every service is available and the circuit closed for good, unless a cancelled trial has wedged it. |
| `async_tasks` | 2 tasks, 2 workers, a registration, 1 fault | `OneOwner`, `NotifiedWasCommitted`; until a fault `EveryTaskProcessed`, and `TasksComplete` where no registration wrote the record. |
| `agent_registry` | 2 agents, 2 requests, 1 fault | `DictFollowsRows`, `DeletionTold`, `PagesInvalidated`, `CallsEnd`. |
| `agent_removal` | 2 agents, a batch of up to 2, an event of another publisher, 1 fault | `EventsTrue`, `DeletionsTold`, `BatchesEnd`, `MessagesHandled`. |
| `subscriptions` | 2 subscriptions, 2 criteria, 3 kinds of events, 2 attempts, limit 1, 2 events, 2 faults | `ToldInOrder`, `LeaversHearNoMore`, and `ListenerKeepsUp`: however connections and calls fail, the listener is back in its loop, subscribed and with nothing left to do. |
| `policy_engine` | 79 policy files, 5 lists of agents | `MatchesAreExact`: an evaluation finds what the conditions say. `UnknownNeverMatches`: an agent of which nothing is known matches no policy that negates nothing. `AuditFollowsActions` and `EveryMatchAudited`: failing handlers, reloads and slow operators lose no match and no entry. |
| `experiments` | 2 experiments on one flag, 2 requests, 8 outcomes of the metrics, 3 users | `FlagFollowsStatus`, `EndedHasConclusion`, `SuccessIsMeasured`. |
| `checklists` | 2 requests of any kind, a template with any two criteria, 3 orders | `AnsweredIsRecorded`, `AppendsComeLast`, `CriteriaChangeByName`. |

All hold but the first. Type invariants are not checked by runs of their own: those
that section 6 lists are proved.

### Bounds

- Breaker and HTTP client: three callers are the fewest for a stale trial, a trial
  and a rejected call at the same time; threshold 2 separates "a failure" from
  "the failure that opens"; with two trials and three callers the budget is reached
  and exceeded by a rejected call. One retry gives a loop a first and a last
  attempt, and a sleep in which the circuit changes. The proofs lift all of them
  for the safety properties.
- Cache: three entries and four keys have an oldest, a middle and a newest
  entry and one key outside, so every order of use and eviction occurs.
- Agents endpoint: two concurrent misses show answers out of order; time to live
  and flight differ, so their sum is not mistaken for either.
- Routing: threshold 3 is above what two requests under way may add, so the
  circuit opens by failures of different times and services; time to live and
  recovery time differ. `OneCircuit` states, and TLC checks, that the URLs of the
  instance share a circuit.
- Async tasks: `FailFirst` is 2 as in the code (`task_worker.py:49`) and
  `MaxRetries` its default 3. One registrar writes once. `MaxFaults` bounds
  crashes and failing calls; `runs` is a history that stops at `MaxRetries + 2`.
- Registry: two requests make every race of two; with two agents an
  invalidation also concerns pages the change did not touch; an agent is reduced
  to its state and a discovery to the state it asks for. `MaxFaults` bounds
  failing calls and restarts. Ids are never reused, as uuids are not.
- Removal: a batch of two has an agent before and one after the failure, and may
  name one agent twice; with an event of another publisher there is a handler
  that takes several steps, and messages wait behind it at a prefetch limit of 1.
  One request and one operator: its half and the listener's share only the log, so
  that more of both multiply the states without a new meeting. Two of the six
  kinds, as the code treats all alike; agents start with any of them. `RoutedKeys`
  holds both keys, as a binding `agent.#` would, so that both kinds of messages
  reach the handlers. The proofs lift the bounds for the two invariants.
- Subscriptions: two events are the fewest that can be told in the wrong order; two
  attempts have a first and a last; a limit of 1 below two active subscriptions
  shows that some are passed over. One criterion matches the updated agent by
  capability and metadata, the other can only match the deleted one. Two faults let
  the restart of the listener fail, too. The proofs lift the bounds for the two
  safety properties.

- Policy engine: trees reach four levels of groups, so that a negation stands over
  every kind of group; six leaves hold every type of condition, a value that
  compares, one that does not, and one that raises. Agents lack everything, have it,
  or have it in a type that does not fit.
- Experiments: two experiments that share a flag are the fewest whose overrides
  meet, two requests the fewest that overlap. The metrics have negative means, a
  mean of zero, means without a difference, too few samples, values that are no
  numbers and a result the database refuses. One configuration asks for a rise of 10%;
  the other has both thresholds pointing away from their directions, and readings at
  either limit (a fall of 50%, a rise of 25%).
- Checklists: each request is sent once; two are enough for every race of a read and
  a commit, and the template starts with whatever criteria earlier requests may have
  left. Order 0 is the default.

Deadlock is checked in every run but those of `AgentRemoval`, `Subscriptions`,
`Experiments` and `Checklists`. The first two and the last stop when the requests and
events of their bounds are used up (and the listener once it was stopped); in
`Experiments` every experiment may have ended with nobody at work.

### Fairness

- Breaker: an admitted call ends (httpx timeouts and a bounded loop), time
  passes, and clients keep calling, so that *some* caller runs `StartTrial`. No
  fairness is assumed of any other admission, nor that a call succeeds.
- HTTP client: an attempt ends in some way, a sleep ends, and as above.
- Routing: time passes, and a call ends in some way. A request whose client stays
  is forwarded, and every service goes on being asked for, both strongly fair: a
  client may leave, but not all of them do.
- Agents endpoint: the same, and nothing that makes callers miss the cache.
- Async tasks: each worker's current call returns in some way (a timeout or an
  error is a way), and the second half of a submission is run. Nobody need
  register, no webhook need be reached.
- Registry: an answered call continues (weak), and a request that waits for the
  lock gets it (strong): `asyncio.Lock` wakes its waiters in order. Faults are
  never fair, and a request need never come.

- Removal: a call of a batch returns in some way (httpx has a timeout; failures
  are separate, unfair actions), the listener's next step is taken, and a resource
  manager that stopped is started again (a Kubernetes Deployment does) and, as
  long as no fault comes, connects and consumes. Nobody
  need submit or publish.
- Subscriptions: the listener's next call returns (httpx and Redis have timeouts;
  failing Redis and database calls are separate, unfair actions, failing webhooks are
  not even rare), and a start that was scheduled runs. Nobody need publish.
- Policy engine: a handler that was started ends, as the call of an operator has a
  timeout. Nobody need evaluate or reload. `Experiments` and `Checklists` state no
  fairness and claim no liveness.

## 5. What the properties are about

`HalfOpenHasTrial` is the reason the breaker cannot hang: the step that makes it
half-open also admits a trial, and any normal end of any call, of whatever
period, ends the period. A cancelled trial breaks this chain: the history variable
`lost` records it, and `breaker_wedge` shows what follows.

`ImplementsBreaker` states that a retry loop is one protected call: nothing
between its first attempt and its result reaches the breaker. This is what
entitles `ListAgents` to use the breaker in place of the client.

`OneOwner` holds through crashes because LPOP hands out the id and nothing
returns it. The price is that a task in hand is lost in a crash, which is why the
liveness properties stop at the first fault.

`DictFollowsRows` and `DeletionTold` relate the three copies of an agent that the
registry manager keeps (row, dict, event), for all overlaps of its operations.
`astray` records the ways in which row and dict part in the code for longer than a
request: a failure after a commit, a failed load, and an update that stores an agent
deleted since the update read it (`registry_manager.py:316`). The code has no repair
for these but a restart, an update of the row that is not listed, or another deletion
of the agent that is. `DictFollowsRows` says that these are the only ways.
`late` records
the pages that a discovery was still sending while the dict changed: KEYS and
DEL, and SETEX after the search, are not atomic, and such a page lives until it
expires or the next change. `PagesInvalidated` says that these are the only
wrong pages.

`DeletionsTold` is what the two loops of a batch promise together: each
confirmed deletion is in `successful_ids`, then in the exchange, unless its own
publication failed or the process ended (`untold`). `EventsTrue` is the other
direction.

`ToldInOrder` rests on one await: `_process_event` gathers all notifications of an
event before it returns, and only then is the next message taken. It is what a
subscriber who keeps the last state he was told depends on. The price is in the
model, too: one slow subscriber delays everybody (up to four attempts of ten seconds),
and what the connection cannot hold meanwhile is lost. `LeaversHearNoMore` bounds what
the rows read for an event may still cause after they changed; `leaving` is set
once, when a subscription ends. `ListenerKeepsUp` needs both ways back: the inner
`subscribe` of the loop, and the done callback for the one outside its try.

`ReliableNeverMarked` is what keeps the shared circuit from doing lasting harm: the
breaker's own exception is none of those for which `dynamic_route` marks a service,
and a lost connection is held against the service the request was given, not
against the one last asked for. `Recovers` composes both memories: marks lapse only
by time, circuits close only by a request that gets through, and a marked service
sends none.

`MatchesAreExact` compares the evaluator, which turns exceptions into false and may
raise, with a reference that pushes negations to the leaves; what a single condition
says is the same in both. `UnknownNeverMatches` would fail for a policy with NOT, `!=`
or an empty group, which the code takes for true (`engine.py:494`), and does in the
code: it is stated for the policies without them. `AuditFollowsActions` counts: what the log
holds is a function of how far the execution is.

`FlagFollowsStatus` relates memory and database, neither changed atomically with the
other, also while requests of two experiments on one flag overlap. `disturbed` names
the ways it fails in the code: two requests for one experiment that overlap, a commit
that fails after the override was touched, a restart while the experiment runs. One
undisturbed request that sets or removes the override ends it.
`EndedHasConclusion` holds although a late pause may put its status over an end:
the columns are written together and nobody clears them. `SuccessIsMeasured` is about
the sign of a relative difference when the control is negative or zero, for thresholds
of either sign: a success is a difference on the criterion's side of its threshold, and
is no loss where the threshold points in that direction (section 7 has the others).

`AnsweredIsRecorded` spans two transactions, a rollback that may fail, and a restart
between them. `AppendsComeLast` is about the order computed from a read before the
commit: whoever appends at the same time collides with the constraint, or comes
after. `CriteriaChangeByName` says that versions are deep copies.

## 6. Theorems

Checked by `tlapm` for every value of the constants that satisfies the modules'
named assumptions.

| Theorem | States | Argument |
|---|---|---|
| `GatewayProofs!TypeCorrect` | `[]TypeOK` | inductive by itself |
| `GatewayProofs!CounterCorrect` | `[]ClosedBelowThreshold`, `[]BrokenUntilReset` | with `TypeOK`: the counter is below the threshold exactly in CLOSED |
| `GatewayProofs!TrialBudgetHolds` | `[]TrialBudget` | strengthened: in HALF_OPEN the trials in flight are at most `half_open_calls` and the limit; starting a period relabels old trials |
| `GatewayProofs!HalfOpenAlwaysHasTrial` | `[]HalfOpenHasTrial` | inductive with `TypeOK`: only a cancellation takes a trial without ending its period |
| `GatewayProofs!RetriesBounded` | `[]AttemptsBounded` | strengthened by phase: a loop that is sending has sent retries + 1 requests, one in backoff has sent retries |
| `GatewayProofs!NoEarlySurrender` | `[]EveryRetryUsed` | the same, and by phase what a loop may return |
| `GatewayProofs!ImplementsBreakerSafety` | `Init` and every step map to the breaker | action by action |
| `GatewayProofs!CountsUnderRetries`, `BudgetUnderRetries`, `TrialUnderRetries` | `[]ClosedBelowThreshold`, `[]TrialBudget`, `[]HalfOpenHasTrial` with loops as calls | the breaker's invariant, carried over by the step above |
| `GatewayProofs!ClientTypeCorrect` | `[]TypeOK` of `HttpClient` | the breaker's invariant and that of the loops |
| `GatewayProofs!ReliableServed` | `[]ReliableNeverMarked` | `Innocent`: a request to a reliable service has seen its backend up all the time, so it cannot end in a lost connection |
| `GatewayProofs!RoutingUsesBreaker` | `Init` and every step map to the breaker | action by action, for the one circuit all services share |
| `GatewayProofs!SharedCircuitCorrect` | counting, trial budget and half-open trial of the shared circuit | by the refinement above and the breaker's invariant |
| `GatewayProofs!RoutingTypeCorrect` | `[]TypeOK` of `Routing` | the breaker's invariant by the refinement, `Innocent`, and that times since a mark stay in range |
| `GatewayProofs!HitsAreRecent` | `HitIsRecent` | `Fresh`: as long as an entry is valid, the age of its body and the time it has left are together at most one time to live and one flight. Time passing takes from one what it gives the other, and a fetched body is no older than a flight when it is stored. Assumes `RequestTimeout \in Nat` |
| `GatewayProofs!ListCircuitCorrect` | counting, trial budget and half-open trial of the circuit behind the cached list | each step of `ListAgents` is one of the breaker or leaves it alone |
| `GatewayProofs!ListUsesCache` | `ListAgents` implements `ResponseCache` | action by action; with `Fresh`, which says what an answer that arrives may be |
| `ResponseCacheProofs!OrderCorrect` | `[]OrderMatchesCache` | lemmas on removing from and appending to an injective sequence, then one case per method |
| `ResponseCacheProofs!SizeBounded` | `[]SizeBound` | from the same invariant: the evicted key is in the dict; assumes `MaxSize > 0` |
| `ResponseCacheProofs!CacheIsLRU` | `ImplementsLRU` | the refinement, for every size: the relation `Before` of the list is `LRUCache`'s `older`. Lemmas say what removing a key, moving it to the end and popping the head do to `Before`; with them each method's list update is the abstract update, and the head is the one entry with no older |
| `AsyncTasksProofs!RetriesWithinLimit` | `[]TypeOK`, which bounds retries | `RetryInv`: a task that may still be tried has retries left in its record, in its worker's copy, and in every copy a registration may write back |
| `AsyncTasksProofs!TasksHaveOneOwner` | `[]OneOwner` | `OwnerInv`: the queue and the workers hold distinct tasks, and none whose submission has yet to queue it |
| `AsyncTasksProofs!ToldAfterCommit` | `[]NotifiedWasCommitted` | `OutcomeInv`: what a worker is about to tell is an outcome its record has held |
| `AgentRegistryProofs!RegistryTypeCorrect` | `[]TypeOK` | with `CallsInv` |
| `AgentRegistryProofs!DictIsTheRows` | `[]DictFollowsRows` | with `CallsInv`, `KnownInv` |
| `AgentRegistryProofs!DeletionEventsTrue` | `[]DeletionTold` | the same |
| `AgentRegistryProofs!PagesAreInvalidated` | `[]PagesInvalidated` | `PagesInv`: a wrong page is late, or a request will still remove it, which it will if it has not asked for the keys yet or has the page among them |
| `OperationsProofs!RemovalEventsTrue` | `[]EventsTrue` | with `PendingTrue`: the agents a batch has yet to tell of are gone, too |
| `OperationsProofs!RemovalsTold` | `[]DeletionsTold` | with the same invariant: an agent leaves `successful` only into the log or `untold` |
| `OperationsProofs!RemovalTypeCorrect` | `[]TypeOK` | `BatchFits`: what a batch has to do and what it has to tell are together no more than its request |
| `SubscriptionsProofs!EventsToldInOrder` | `ToldInOrder` | `OrderInv`: the inbox is in the order of publication, later than the event in hand, which is no earlier than what anybody was told; webhooks under way are all of that event |
| `SubscriptionsProofs!NothingAfterLeaving` | `[]LeaversHearNoMore` | the same, with `LastWebhooks`: a webhook under way to one who left is of the event that was in hand then |
| `SubscriptionsProofs!SubscriptionsTypeCorrect` | `[]TypeOK` | starts that are scheduled are at most one more than the faults; that an event is in hand when its subscribers are fetched is part of `OrderInv` |
| `OperationsProofs!EvaluationsAreExact` | `MatchesAreExact` | `TreeTruth`: on a well-formed tree the evaluator and the reference agree, by the depth of trees; `MatchesFound`: the matches are the pairs that match, as each rank is that of one pair |
| `OperationsProofs!UnknownIsSafe` | `[]UnknownNeverMatches` | `CautiousTree`, by the depth of trees: no condition without a negation is true of an agent of which nothing is known. Later reloads leave the matches of a run alone |
| `OperationsProofs!AuditIsExact` | `[]AuditFollowsActions` | `ExecutionInv`: while a match is acted on, `outcomes` counts the actions before the next one that did not raise; one step more is one outcome more or a raise. With the types of loaded policies and of matches |
| `ExperimentsProofs!EndsHaveConclusions` | `[]EndedHasConclusion` | part of `Inv`: what a request will write comes with its conclusion, and fits the row it is about |
| `ExperimentsProofs!FlagsFollow` | `[]FlagFollowsStatus` | `AloneInv` and `FlagInv`, below |
| `ExperimentsProofs!SuccessMeasured` | `SuccessIsMeasured` | arithmetic on sums and counts: a fraction compares with a threshold as the means do, multiplied by both counts and the size of the control |
| `ChecklistsProofs!RecordsInvariant` | `[]RecordsInv` | inductive: before its answer a request has no record, after an answer "done" it has one |
| `ChecklistsProofs!DoneIsRecorded` | `[]AnsweredIsRecorded` | from `RecordsInv` |
| `ChecklistsProofs!TypedInvariant` | `[]Typed` | inductive: types of rows and requests, and what a request has read are keys of its row, which no write takes back |
| `ChecklistsProofs!CriteriaByName` | `CriteriaChangeByName` | action by action, with `Typed` |
| `ChecklistsProofs!AppendsAreLast` | `AppendsComeLast` | the next order is the highest that was read plus one, or 0; equal only at 0, where the constraint on orders refuses it. That finitely many orders have a highest is shown by a least counterexample in `Nat` |

The registry's invariants are not inductive alone: whether `Drop` may remove an
entry, or `Publish` send an event, depends on what the request saw calls ago.
`CallsInv` says, by where a request is, what the database must hold for its agent
(a request past a deletion, or one that found no row, is about a *deleted* agent,
and it stays deleted because uuids are fresh), and `KnownInv` that clients only
have ids that were once committed.

`AsyncTasks` and `Experiments` need the same kind of invariant. `OneOwner` speaks of
workers and the queue, but is kept by what `OwnerInv` says of submissions: an id whose
submission has not made its second call is nowhere yet, so that call cannot queue it
twice. `FlagFollowsStatus` relates override and row, which change in two steps; between
the steps it holds of the row *as the request under way will write it* (`FlagInv`). That
the request does write this, from what it read earlier, is `AloneInv`: a request that is
alone has read the row as it still is, and where two overlap the experiment is
`disturbed`.

The theorems about policies hold for any files, agents and trees that satisfy
`TreesAssumption` (a group's conditions are less deep than the group, as what was read
from a file ends somewhere), `FilesAssumption` (files hold policies of these) and
`AgentsAssumption` (a value, or None, at every key). The evaluator, the reference and the
two classes of trees are recursive functions, of which nothing is known but that they
are chosen by their equation. So the first lemma is that there is a solution to choose:
`Recursion` builds one for any recursion that descends in depth, out of solutions up to
each depth, which agree where they overlap. What then holds of every tree is shown by a
counterexample of least depth. The matches are counted, not concatenated, so that what
an evaluation returns follows from the order of the loops (`OneOfEachRank`).

`NumbersAssumption` of `Experiments` says that the values that were measured and the
thresholds are whole numbers; fractions of a common denominator would do as well, as
the analysis compares ratios only. That their sums are whole numbers too is a lemma
(`TotalIsWhole`): the sum is a recursive function along the sequence, so it has a
solution for every length (`SumsExist`), and no least place where it leaves the whole
numbers.

Only model-checked: everything under fairness (`HalfOpenResolves`, `OpenProbed`,
`CallsEnd`, `EveryTaskProcessed`, `TasksComplete`, `BatchesEnd`, `MessagesHandled`,
`ListenerKeepsUp`, `MarkLapses`, `Recovers`, `EveryMatchAudited`, the liveness half
of `ImplementsBreaker`), which the prover does not treat.

## 7. Where the code and its documentation part

Shown by a run:

- `breaker_wedge`: a trial whose task is cancelled leaves `half_open_calls`
  incremented. With nothing in flight the circuit stays half-open at capacity
  and rejects every call until the process restarts (FAQ:67). `CancelledError` is
  no `Exception`, so line 106 of `circuit_breaker.py` does not see it; the
  gateway's `BaseHTTPMiddleware`s run an endpoint in a task group that a client's
  disconnect may cancel.

Noticed while modelling; the models contain the behaviour, no run is spent on it:

- A success in CLOSED does not reset the failure count, though FAQ:64 says
  "consecutive failures"; late failures of calls admitted earlier restart the
  recovery time (FAQ:67); trials of an earlier half-open period run beside those
  of the next (`circuit_breaker.py:53`); a retry loop goes on sending while the
  circuit is open (FAQ:55); a final 5xx is a success for the breaker (FAQ:60);
  connection errors are retried as well as statuses (`sync_communication.md:116`).
- With the circuit open, the fallback of `list_agents` asks the cache again for the
  entry that the first `cache.get` of the same request has just removed
  (`agents.py:48`, 69), so stale data is never served, though FAQ:84 says so.
- A cache of size 0 stores entries; error bodies are cached (FAQ:75); an empty
  list is falsy and so never served from the cache.
- One failing service opens the circuit `localhost.<last path component>` of all
  services on its host (`http_client.py:286`), as `Routing` models. An open circuit
  becomes a 500 in `dynamic_route` and in the state endpoints, though
  `router.py:56` documents 503. `mark_service_available` and
  `update_service_health` have no caller. `get_http_client` and
  `get_service_registry` are cached with settings that do not hash; the model is of
  the wiring they intend.
- A webhook registration that was acknowledged is overwritten by the worker's copy of
  the record, if the worker read it before (`async_tasks.py:176`).
- A webhook that outlasts the timeout turns a task stored as SUCCESS into FAILED
  or runs it again; a registration may write back an old retry count; a task in a
  worker's hand is lost in a crash (FAQ:28).
- Two updates of one agent may reach the dict in the opposite order of their
  commits (`registry_manager.py:310`), and reads are wrong until a restart. An update
  that is still on its way when its agent is deleted puts the agent back into the dict
  (`registry_manager.py:316`), where it is listed until a restart or a second deletion.
- The registry never sends its created and updated events and never caches a
  page with agents in it: `json.dumps` does not take their UUIDs and datetimes,
  and the error is only logged. With pydantic 2 `orm_mode` is ignored, so
  `from_orm` raises after the commit; `DbFails` covers this as a failure.
  `initialize_from_db` loads at most 10000 rows.
- No deletion leads to the reclamation that `docs/architecture.md:132` and
  `docs/k_operator_design.md:7` describe. The binding `agent.state.#`
  (`resource_manager_service/core/config.py:30`) matches none of the k-operator's
  keys; with a binding that does, the type is inside `meta`
  (`k_operator_service/schemas/events.py:16`), where the listener does not look, and
  is named `agent.deletion.requested`.
- Nothing is deleted when an agent is killed, either: `client` and `ApiException` are not
  imported (`event_listener.py:136`, 138, 147), so the first resource found, or the
  first failure, ends the handler. Were they imported, a Deployment would still
  stay, as the handler passes `body=` to a wrapper that takes none, through
  `to_thread` (`k8s_client.py:117`). A failed message is acknowledged, though comments at
  `event_listener.py:177` and 180 say it is nack'd. The registry has no
  `PUT /agents/{id}/state`, so every deprecation and archival fails
  (`clients/agent_registry.py:69`). A resource manager that cannot connect or
  consume at start-up runs on without a listener (`app/main.py:64`) and reports
  itself healthy.
- A subscription that filters by state only hears of deletions: under
  `use_enum_values` the state is a string, `.value` raises
  (`subscription_service.py:166`), and the error is logged;
  `schemas/subscription.py:14` says "Filter by exact agent state". As the registry's
  created and updated events are never sent (above), deletions are all that any
  subscriber hears of today; the model lets all kinds arrive. Client errors are
  retried like the others (`notification_service.py:36` says they are not). POST, and
  a PUT of the URL, always fail, as `model_dump` leaves an `HttpUrl` object that
  asyncpg does not take for a string. Beyond 1000 active subscriptions it is
  left to the database who is told. `last_notified_at` is never set. A listener that
  failed may start again after `stop_listener`.
- An event publisher that cannot connect refuses the whole request, and with a 500
  for the 503 it means: `HTTPException` is not imported
  (`k_operator_service/events/publisher.py:126`).
- Policies: `run_evaluation` returns pairs and `execute_actions` unpacks
  triples, so what `docs/policy_engine.md:61` shows raises before the first action.
  A file that `serialize_policy_file` wrote does not load again unless it names no
  type, operator or state. A dependency check ends in a `NameError`, and a duration
  of too many days in an `OverflowError`; both end the evaluation of every policy for
  every agent. A reload that fails ends in a `NameError`, too, and keeps the old
  policies.
- Experiments: every request makes a flag service of its own
  (`endpoints/experiment.py:28`), `duration_days` is no column, and variants and
  criteria come back from the database as dicts without the attributes the service
  reads; the model is of the wiring these intend. The audience stored always has a
  percentage, so environments and segments are never consulted, and a percentage of
  None raises. A pause that commits late puts "paused" over an ended experiment.
  A threshold is compared with its sign (`experiment_service.py:251`), so a "decrease"
  with a positive one succeeds on any smaller rise, and an "increase" with a negative
  one on a smaller fall, though `schemas/experiment.py:26` calls it "Minimum relative
  change required for success". From a control of 0 any fall is no change
  (`experiment_service.py:210`).
  A conclusion with an infinite difference or NaN is refused by PostgreSQL's JSON and
  never commits.
- Checklists: an append to a template whose highest order is 0 always collides
  and answers 500 (0 is taken for "none"). `archived_at` is never set, and cleared if
  given. Evidence always answers 404, as items have no `criteria_id`. A review never
  leaves INITIATED, and its creation answers 500 after the commit. A record that
  fails makes the request answer 500, though the code means to swallow it; a deletion
  answers 204 unrecorded. Two concurrent versions get one number.

## 8. Not modelled, and what is left

`PROJECT.json` gives the reason for each part. What the program cannot reach is
not modelled, as no action of a model could stand for a step it takes:

- The m-operator's reviews. `initiate_promotion_review_workflow` is called from
  nowhere; an approval is looked up under the stakeholder ...000 while
  reviews are assigned to the placeholder ...001, so every approval answers 404; the
  check of completeness reads `ApprovalStatus.CANCELLED`, which does not exist
  (`promotion_service.py:67`); `update_promotion_review` calls `.dict()` of a dict;
  `crud/__init__` is empty and `promotions.py:35` uses `crud`.
  `docs/promotion_workflow.md:14` to 17 describe the workflow as working. Maintenance
  and scheduling are placeholders, and completing a maintenance review ends in a
  `NameError` (`maintenance_service.py:93`).
- The registry's state machine and agent table, which no module imports, and its rate
  limit, which `app/main.py:29` imports and never adds.
- The f-operator's git service, which is constructed and not called, its adapters and
  sandboxes, placeholders or calls of external tools.

What is reachable and left out: the gateway's task event stream, where each
event is read by whichever client asks first and says only "pending"; the merge of
quotas, a function whose result nobody reads; what evidence and attachments say.
Beyond the models: the registry with several replicas (each has its own dict; the
model is of one process), the admin UI, migrations, Kubernetes manifests, logging and
tracing, and account handling, which keep no state that the protocol depends on.
