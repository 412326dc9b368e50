---------------------------- MODULE AgentRemoval ----------------------------
(***************************************************************************)
(* The removal of agents: the batch operations of the k-operator           *)
(* (k_operator_service: operations.py, publisher.py, agent_registry.py),   *)
(* the exchange it publishes to, and the listener of the resource manager  *)
(* (resource_manager_service/services/event_listener.py).                  *)
(*                                                                         *)
(* A batch calls the registry for its agents one after the other, and only *)
(* then publishes one event for each call that succeeded.  The listener's  *)
(* messages are handled by concurrent tasks, one for each delivery; a      *)
(* handler suspends in every call of Kubernetes that runs in a thread.     *)
(*                                                                         *)
(* Agents own resources of some kinds, one of each.  An event is reduced   *)
(* to its routing key, the event_type at its top level and its agent.      *)
(***************************************************************************)
EXTENDS Naturals, Sequences, FiniteSets, SequencesExt

CONSTANTS
  Agents,
  Kinds,        \* the kinds of resources, in the order of resources_to_delete
  Operators,    \* requests that the k-operator handles at a time
  MaxRequests,  \* bound: requests to the k-operator
  MaxBatch,     \* bound: agents in a batch
  MaxOthers,    \* bound: events of other publishers
  RoutedKeys,   \* the keys that RESOURCE_EVENT_ROUTING_KEY matches
  Prefetch,     \* set_qos(prefetch_count)
  MaxFaults     \* bound: failing calls and crashes

ASSUME RemovalAssumption ==
  /\ MaxRequests \in Nat /\ MaxBatch \in Nat /\ MaxOthers \in Nat /\ MaxFaults \in Nat
  /\ Prefetch \in Nat \ {0}
  /\ Kinds \in Seq({"Deployment", "StatefulSet", "Service", "ConfigMap", "Secret",
                    "PersistentVolumeClaim"})

VARIABLES
  registered,   \* agents that the registry has
  requests,     \* how many requests the k-operator got
  batch,        \* the request that each operator handles
  confirmed,    \* history: agents whose deletion the registry confirmed
  untold,       \* history: confirmed agents whose event was given up
  declared,     \* the listener's durable queue exists
  messages,     \* every message that was published, in this order
  listener,     \* "stopped", "connected", "on", or "deaf": running without a
                \* consumer
  resources,    \* the kinds that each agent owns in Kubernetes
  scaled,       \* agents whose Deployment was patched to 0 replicas
  faults

k_vars == <<registered, requests, batch, confirmed, untold>>
rm_vars == <<declared, listener, resources, scaled>>
vars == <<k_vars, messages, rm_vars, faults>>

Keys == {"agent.deleted", "agent.state"}
Types == {"other", "AgentArchived", "AgentKilled"}   \* event_type, as the listener reads it

Operations == {"deprecate", "archive", "delete"}
Batches == UNION {[1 .. n -> Agents] : n \in 1 .. MaxBatch}
NoBatch == [op |-> "none", todo |-> <<>>, successful |-> <<>>]

Message == [key : Keys, type : Types, agent : Agents,
            status : {"dropped", "ready", "handling", "acked"},
            kind : 1 .. Len(Kinds) + 1]

TypeOK ==
  /\ registered \subseteq Agents
  /\ requests \in 0 .. MaxRequests
  /\ \A o \in Operators :
       /\ batch[o].op \in Operations \cup {"none"}
       /\ batch[o].todo \in Batches \cup {<<>>}
       /\ batch[o].successful \in Batches \cup {<<>>}
  /\ confirmed \subseteq Agents /\ untold \subseteq Agents
  /\ declared \in BOOLEAN
  /\ messages \in Seq(Message)
  /\ listener \in {"stopped", "connected", "on", "deaf"}
  /\ resources \in [Agents -> SUBSET Range(Kinds)]
  /\ scaled \subseteq Agents
  /\ faults \in 0 .. MaxFaults

Init ==
  /\ registered = Agents
  /\ requests = 0
  /\ batch = [o \in Operators |-> NoBatch]
  /\ confirmed = {} /\ untold = {}
  /\ declared = FALSE
  /\ messages = <<>>
  /\ listener = "stopped"
  /\ resources \in [Agents -> SUBSET Range(Kinds)]
  /\ scaled = {}
  /\ faults = 0

-----------------------------------------------------------------------------
(* The exchange *)

\* A topic exchange drops what no queue is bound for.
Send(key, type, a) ==
  messages' = Append(messages,
    [key |-> key, type |-> type, agent |-> a,
     status |-> IF declared /\ key \in RoutedKeys THEN "ready" ELSE "dropped",
     kind |-> 1])

-----------------------------------------------------------------------------
(* The k-operator *)

\* A request begins with a publisher that is connected.
Submit(o, op, agents) ==
  /\ batch[o] = NoBatch
  /\ requests < MaxRequests /\ requests' = requests + 1
  /\ batch' = [batch EXCEPT ![o] = [op |-> op, todo |-> agents, successful |-> <<>>]]
  /\ UNCHANGED <<registered, confirmed, untold, messages>>

\* get_event_publisher cannot connect: the request ends before any call of the
\* registry.
SubmitRefused ==
  /\ requests < MaxRequests /\ requests' = requests + 1
  /\ UNCHANGED <<registered, batch, confirmed, untold, messages>>

\* The batch as it is when its next agent has been dealt with.  It is answered
\* when neither calls nor events are left.  (Mutant: it is never answered.)
Settle_Waits(o, b) == batch' = [batch EXCEPT ![o] = b]
Settle(o, b) ==
  batch' = [batch EXCEPT ![o] = IF b.todo = <<>> /\ b.successful = <<>> THEN NoBatch ELSE b]

\* delete_agent.  The registry answers 204 for an agent that it does not have,
\* too.
Delete(o) ==
  LET b == batch[o]  a == Head(batch[o].todo)
  IN /\ b.op = "delete" /\ b.todo # <<>>
     /\ registered' = registered \ {a}
     /\ confirmed' = confirmed \cup {a}
     /\ Settle(o, [b EXCEPT !.todo = Tail(@), !.successful = Append(@, a)])
     /\ UNCHANGED <<requests, untold, messages>>

\* set_agent_state: the registry has no route for PUT /agents/{id}/state, so the
\* call always fails.
SetState(o) ==
  LET b == batch[o]
  IN /\ b.op \in {"deprecate", "archive"} /\ b.todo # <<>>
     /\ Settle(o, [b EXCEPT !.todo = Tail(@)])
     /\ UNCHANGED <<registered, requests, confirmed, untold, messages>>

\* The deletion fails or times out, before or after it took effect: the agent
\* is reported as failed.  (Mutant: it counts as a success all the same.)
DeleteFails_Counted(o) ==
  LET b == batch[o]  a == Head(batch[o].todo)
  IN /\ b.op = "delete" /\ b.todo # <<>>
     /\ registered' \in {registered, registered \ {a}}
     /\ Settle(o, [b EXCEPT !.todo = Tail(@), !.successful = Append(@, a)])
     /\ UNCHANGED <<requests, confirmed, untold, messages>>
DeleteFails(o) ==
  LET b == batch[o]  a == Head(batch[o].todo)
  IN /\ b.op = "delete" /\ b.todo # <<>>
     /\ registered' \in {registered, registered \ {a}}
     /\ Settle(o, [b EXCEPT !.todo = Tail(@)])
     /\ UNCHANGED <<requests, confirmed, untold, messages>>

Publishing(o) == batch[o].todo = <<>> /\ batch[o].successful # <<>>

\* publish_event for the next of successful_ids; the event carries its type in
\* "meta", where the listener does not look.
PublishEvent(o) ==
  LET b == batch[o]
  IN /\ Publishing(o)
     /\ Send("agent.deleted", "other", Head(b.successful))
     /\ Settle(o, [b EXCEPT !.successful = Tail(@)])
     /\ UNCHANGED <<registered, requests, confirmed, untold>>

\* The broker cannot be reached, or the connection is lost while it confirms:
\* the error is logged and the next event is tried.  (Mutant: it ends the loop.)
PublishFails_Break(o) ==
  LET b == batch[o]
  IN /\ Publishing(o)
     /\ Settle(o, [b EXCEPT !.successful = <<>>])
     /\ untold' = untold \cup {Head(b.successful)}
     /\ UNCHANGED <<registered, requests, confirmed, messages>>
PublishFails(o) ==
  LET b == batch[o]
  IN /\ Publishing(o)
     /\ Settle(o, [b EXCEPT !.successful = Tail(@)])
     /\ untold' = untold \cup {Head(b.successful)}
     /\ Send("agent.deleted", "other", Head(b.successful)) \/ UNCHANGED messages
     /\ UNCHANGED <<registered, requests, confirmed>>

\* The process ends with the batches it has in hand.
KOperatorCrash ==
  /\ batch' = [o \in Operators |-> NoBatch]
  /\ untold' = untold \cup UNION {Range(batch[o].successful) : o \in Operators}
  /\ UNCHANGED <<registered, requests, confirmed, messages>>

-----------------------------------------------------------------------------
(* The resource manager *)

\* Another service publishes an event in the form that the listener reads, or
\* one that it ignores.
OtherPublish(type, a) ==
  /\ Len(SelectSeq(messages, LAMBDA m : m.key = "agent.state")) < MaxOthers
  /\ Send("agent.state", type, a)
  /\ UNCHANGED <<k_vars, rm_vars>>

\* connect: from here the durable queue collects messages.
Connect ==
  /\ listener = "stopped" /\ listener' = "connected"
  /\ declared' = TRUE
  /\ UNCHANGED <<messages, resources, scaled>>

\* The Kubernetes client has no configuration, or connect fails, at the latest
\* when the queue is bound: the service runs on without a listener, and reports
\* itself healthy.
ConnectFails ==
  /\ listener = "stopped" /\ listener' = "deaf"
  /\ declared' \in {declared, TRUE}
  /\ UNCHANGED <<messages, resources, scaled>>

\* start_consuming, in a task of its own.
StartConsuming ==
  /\ listener = "connected" /\ listener' = "on"
  /\ UNCHANGED <<declared, messages, resources, scaled>>

\* The error is logged; stop_consuming disconnects, and nobody starts the task
\* again.
ConsumeFails ==
  /\ listener = "connected" /\ listener' = "deaf"
  /\ UNCHANGED <<declared, messages, resources, scaled>>

\* The process stops or crashes: the broker delivers again what it has not
\* acknowledged.
ListenerCrash ==
  /\ listener' = "stopped"
  /\ messages' = [i \in DOMAIN messages |->
       IF messages[i].status = "handling"
       THEN [messages[i] EXCEPT !.status = "ready", !.kind = 1]
       ELSE messages[i]]
  /\ UNCHANGED <<declared, resources, scaled>>

InHand == {i \in DOMAIN messages : messages[i].status = "handling"}

\* The broker delivers in order, Prefetch messages at most.
Deliverable(i) ==
  /\ listener = "on"
  /\ messages[i].status = "ready"
  /\ \A j \in 1 .. i - 1 : messages[j].status # "ready"
  /\ Cardinality(InHand) < Prefetch

\* _process_message for a message of another type, or of none.
Ignore(i) ==
  /\ Deliverable(i) /\ messages[i].type = "other"
  /\ messages' = [messages EXCEPT ![i].status = "acked"]
  /\ UNCHANGED rm_vars

\* patch_namespaced_deployment_scale; an agent without a Deployment is a 404.
PatchScale(a) == scaled' = IF "Deployment" \in resources[a] THEN scaled \cup {a} ELSE scaled

\* _handle_agent_archived; the call of Kubernetes does not suspend.
Archive(i) ==
  /\ Deliverable(i) /\ messages[i].type = "AgentArchived"
  /\ messages' = [messages EXCEPT ![i].status = "acked"]
  /\ PatchScale(messages[i].agent)
  /\ UNCHANGED <<declared, listener, resources>>

\* Its errors are logged and the message is acknowledged.
ArchiveFails(i) ==
  /\ Deliverable(i) /\ messages[i].type = "AgentArchived"
  /\ messages' = [messages EXCEPT ![i].status = "acked"]
  /\ UNCHANGED rm_vars

Kill(i) ==
  /\ Deliverable(i) /\ messages[i].type = "AgentKilled"
  /\ messages' = [messages EXCEPT ![i].status = "handling"]
  /\ UNCHANGED rm_vars

Handling(i) == listener = "on" /\ messages[i].status = "handling" /\ messages[i].kind <= Len(Kinds)
KindOf(i) == Kinds[messages[i].kind]

\* _handle_agent_killed lists the agent's resources of the next kind.  What it
\* finds it would delete, but event_listener.py does not import the "client"
\* that it takes V1DeleteOptions from, nor the ApiException that both except
\* clauses name first: evaluating them raises again, and the first resource found
\* ends the handler.  (Mutant: it is listed again.)
List_Again(i) ==
  /\ Handling(i)
  /\ messages' = IF KindOf(i) \in resources[messages[i].agent] THEN messages
                 ELSE [messages EXCEPT ![i].kind = @ + 1]
  /\ UNCHANGED rm_vars
List(i) ==
  /\ Handling(i)
  /\ messages' = [messages EXCEPT ![i].kind =
       IF KindOf(i) \in resources[messages[i].agent] THEN Len(Kinds) + 1 ELSE @ + 1]
  /\ UNCHANGED rm_vars

\* Listing fails, and for the same reason that ends the handler.
KubernetesFails(i) ==
  /\ Handling(i)
  /\ messages' = [messages EXCEPT ![i].kind = Len(Kinds) + 1]
  /\ UNCHANGED rm_vars

\* _process_message logs what the handler raised, if anything, and
\* message.process() acknowledges.
Ack(i) ==
  /\ listener = "on" /\ messages[i].status = "handling" /\ messages[i].kind > Len(Kinds)
  /\ messages' = [messages EXCEPT ![i].status = "acked"]
  /\ UNCHANGED rm_vars

-----------------------------------------------------------------------------
Operate(o) == Delete(o) \/ SetState(o) \/ PublishEvent(o)

Process(i) ==
  Ignore(i) \/ Archive(i) \/ Kill(i) \/ List(i) \/ Ack(i)

KOperatorFault ==
  SubmitRefused \/ KOperatorCrash \/ \E o \in Operators : DeleteFails(o) \/ PublishFails(o)

ListenerFault ==
  \/ ConnectFails \/ ConsumeFails \/ ListenerCrash
  \/ \E i \in DOMAIN messages : ArchiveFails(i) \/ KubernetesFails(i)

Next ==
  \/ /\ \E o \in Operators :
          \/ \E op \in Operations, agents \in Batches : Submit(o, op, agents)
          \/ Operate(o)
     /\ UNCHANGED <<rm_vars, faults>>
  \/ /\ Connect \/ StartConsuming \/ \E i \in DOMAIN messages : Process(i)
     /\ UNCHANGED <<k_vars, faults>>
  \/ /\ \E type \in Types, a \in Agents : OtherPublish(type, a)
     /\ UNCHANGED faults
  \/ /\ faults < MaxFaults /\ faults' = faults + 1
     /\ \/ KOperatorFault /\ UNCHANGED rm_vars
        \/ ListenerFault /\ UNCHANGED k_vars

\* Calls are answered or time out; a stopped resource manager is started again.
Fairness ==
  /\ \A o \in Operators : WF_vars(Operate(o) /\ UNCHANGED <<rm_vars, faults>>)
  /\ WF_vars(/\ Connect \/ StartConsuming \/ \E i \in DOMAIN messages : Process(i)
             /\ UNCHANGED <<k_vars, faults>>)

Spec == Init /\ [][Next]_vars /\ Fairness

-----------------------------------------------------------------------------
(* Properties *)

\* An event says that an agent was deleted only when the registry has deleted
\* it: not for a call that failed, and not for the rest of its batch.
EventsTrue == \A i \in DOMAIN messages :
  messages[i].key = "agent.deleted" => messages[i].agent \notin registered

\* Every deletion that the registry confirmed is told, will be told by its
\* batch, or was given up by a failure of its own: operations.py:71-73 goes on
\* with the other events when one fails.
DeletionsTold == \A a \in confirmed \ untold :
  \/ \E i \in DOMAIN messages : messages[i].key = "agent.deleted" /\ messages[i].agent = a
  \/ \E o \in Operators : a \in Range(batch[o].successful)

\* Every batch is answered, whatever its calls and events meet.
BatchesEnd == \A o \in Operators : batch[o] # NoBatch ~> batch[o] = NoBatch

\* The messages in the queue are handled in the end, across crashes of the
\* listener, unless the service comes up without one.
MessagesHandled ==
  []<>(listener = "deaf" \/ \A i \in DOMAIN messages : messages[i].status \in {"dropped", "acked"})
=============================================================================
