--------------------------- MODULE Subscriptions ---------------------------
(***************************************************************************)
(* Subscriptions to the events of the agent registry                       *)
(* (agent_registry_service: services/subscription_service.py,              *)
(* services/notification_service.py, crud/crud_subscription.py and         *)
(* api/endpoints/subscriptions.py).                                        *)
(*                                                                         *)
(* A listener task takes the events from Redis pub/sub one at a time, asks *)
(* the database which subscriptions are active, and calls the webhooks of  *)
(* those that match, all at once and each with retries, before it takes    *)
(* the next event.  It suspends in each of these calls, and subscriptions  *)
(* change, events are published and the connection is lost meanwhile.      *)
(*                                                                         *)
(* What may be absent is a set with at most one element.                   *)
(***************************************************************************)
EXTENDS Naturals, Sequences, FiniteSets, Functions

CONSTANTS
  Ids,          \* subscriptions
  Criteria,     \* the criteria that a subscription may have
  Kinds,        \* the events that may be published: [kind, data]
  MaxAttempts,  \* stop_after_attempt
  Limit,        \* of get_active_subscriptions
  MaxEvents,    \* bound: events published
  MaxFaults     \* bound: lost connections and failing calls of Redis or the database

ASSUME SubscriptionsAssumption ==
  /\ MaxAttempts \in Nat \ {0} /\ Limit \in Nat
  /\ MaxEvents \in Nat /\ MaxFaults \in Nat
  /\ \A k \in Kinds : k.kind \in {"agent_created", "agent_updated", "agent_deleted", "invalid"}

VARIABLES
  rows,        \* the table of subscriptions
  service,     \* "up" or "stopped", as the application's lifespan has it
  starts,      \* start_listener coroutines that were scheduled and have not run
  task,        \* where the listener task is
  subscribed,  \* Redis sends this process the channel's events
  inbox,       \* those that it has sent
  event,       \* the event in the listener's hands
  webhooks,    \* the notifications under way, by event number and subscription
  published,   \* how many events were published
  told,        \* history: the last event that each subscriber was sent
  leaving,     \* history: the last event before a subscription ended
  faults

listener == <<starts, task, subscribed, inbox, event, webhooks, told>>
vars == <<rows, service, starts, task, subscribed, inbox, event, webhooks,
          published, told, leaving, faults>>

Events == [no : 1 .. MaxEvents, what : Kinds]
NoEvent == [no |-> 0]
Rows == [is_active : BOOLEAN, criteria : Criteria]
Ended == {"none", "failed", "cancelled"}

TypeOK ==
  /\ DOMAIN rows \subseteq Ids /\ \A s \in DOMAIN rows : rows[s] \in Rows
  /\ service \in {"up", "stopped"}
  /\ starts \in 0 .. MaxFaults + 1
  /\ task \in Ended \cup {"subscribing", "loop", "lost", "fetching", "notifying"}
  /\ subscribed \in BOOLEAN
  /\ inbox \in Seq(Events)
  /\ event \in Events \cup {NoEvent}
  /\ DOMAIN webhooks \subseteq (1 .. MaxEvents) \X Ids
  /\ \A w \in DOMAIN webhooks :
       webhooks[w] \in [attempts : 0 .. MaxAttempts - 1, status : {"sending", "waiting"}]
  /\ published \in 0 .. MaxEvents
  /\ told \in [Ids -> 0 .. MaxEvents] /\ leaving \in [Ids -> 0 .. MaxEvents]
  /\ faults \in 0 .. MaxFaults

\* main.py schedules the first start_listener.
Init ==
  /\ rows \in [Ids -> Rows]
  /\ service = "up" /\ starts = 1 /\ task = "none"
  /\ subscribed = FALSE /\ inbox = <<>> /\ event = NoEvent
  /\ webhooks = <<>>
  /\ published = 0
  /\ told = [s \in Ids |-> 0] /\ leaving = [s \in Ids |-> 0]
  /\ faults = 0

-----------------------------------------------------------------------------
(* The table and the channel *)

Active == {s \in DOMAIN rows : rows[s].is_active}

\* When a subscription ends, its subscriber may still hear of the event in hand.
Leave(s) ==
  leaving' = [leaving EXCEPT ![s] = IF event = NoEvent THEN told[s] ELSE event.no]

\* crud.update_subscription and crud.delete_subscription: the commit.
WriteRow(s, row) ==
  /\ rows' = [rows EXCEPT ![s] = row]
  /\ IF rows[s].is_active /\ ~ row.is_active THEN Leave(s) ELSE UNCHANGED leaving
RemoveRow(s) ==
  /\ rows' = Restrict(rows, DOMAIN rows \ {s})
  /\ IF rows[s].is_active THEN Leave(s) ELSE UNCHANGED leaving

\* PUT: new criteria, or is_active.  (A new URL, and so every POST, fails in
\* asyncpg: model_dump leaves an HttpUrl object that is no string.)
Update(s, row) ==
  /\ s \in DOMAIN rows /\ rows[s] # row
  /\ WriteRow(s, row)
  /\ UNCHANGED <<service, listener, published, faults>>

\* DELETE answers 404 for a row that is not there.
Delete(s) ==
  /\ s \in DOMAIN rows
  /\ RemoveRow(s)
  /\ UNCHANGED <<service, listener, published, faults>>

\* Pub/sub drops what nobody is subscribed to.
Publish(k) ==
  /\ published < MaxEvents /\ published' = published + 1
  /\ inbox' = IF subscribed THEN Append(inbox, [no |-> published', what |-> k]) ELSE inbox
  /\ UNCHANGED <<rows, service, starts, task, subscribed, event, webhooks, told, leaving, faults>>

-----------------------------------------------------------------------------
(* Matching *)

\* _event_matches_criteria, and the caller's except clause.  A state in the
\* criteria raises: under use_enum_values it is a string and has no .value.  So
\* does a filter of metadata where the agent has none.
Matches(k, c) ==
  \/ k.kind = "agent_deleted"
  \/ \E agent \in k.data :
       /\ c.type \subseteq {agent.type}
       /\ c.state = {}
       /\ c.capabilities = {} \/ IF c.match = "any" THEN c.capabilities \cap agent.capabilities # {}
                                 ELSE c.capabilities \subseteq agent.capabilities
       /\ \A f \in c.metadata_filters : \E meta \in agent.metadata : f \in meta

-----------------------------------------------------------------------------
(* The listener *)

\* start_listener does nothing while there is a task.
StartListener ==
  /\ starts > 0 /\ starts' = starts - 1
  /\ task' = IF task \in Ended THEN "subscribing" ELSE task
  /\ UNCHANGED <<subscribed, inbox, event, webhooks, told>>

Subscribe ==
  /\ task = "subscribing"
  /\ task' = "loop" /\ subscribed' = TRUE
  /\ UNCHANGED <<starts, inbox, event, webhooks, told>>

\* The first subscribe is outside the loop's try: the task ends, and
\* _listener_done_callback schedules another start.  (Mutant: it does not.)
SubscribeFails_Once ==
  /\ task = "subscribing" /\ task' = "failed"
  /\ UNCHANGED <<starts, subscribed, inbox, event, webhooks, told>>
SubscribeFails ==
  /\ task = "subscribing" /\ task' = "failed"
  /\ starts' = starts + 1
  /\ UNCHANGED <<subscribed, inbox, event, webhooks, told>>

\* What was not read from the connection is lost with it.
LoseConnection ==
  /\ subscribed /\ subscribed' = FALSE /\ inbox' = <<>>
  /\ UNCHANGED <<starts, task, event, webhooks, told>>

\* get_message connects again by itself or raises ConnectionError.
NoticeLoss ==
  /\ task = "loop" /\ ~ subscribed
  /\ \/ subscribed' = TRUE /\ UNCHANGED task
     \/ task' = "lost" /\ UNCHANGED subscribed
  /\ UNCHANGED <<starts, inbox, event, webhooks, told>>

Resubscribe ==
  /\ task = "lost" /\ task' = "loop" /\ subscribed' = TRUE
  /\ UNCHANGED <<starts, inbox, event, webhooks, told>>

\* The failure is logged, and the loop goes on without a subscription.
ResubscribeFails ==
  /\ task = "lost" /\ task' = "loop"
  /\ UNCHANGED <<starts, subscribed, inbox, event, webhooks, told>>

\* get_message; _process_event drops what it cannot read.
Receive ==
  /\ task = "loop" /\ inbox # <<>>
  /\ inbox' = Tail(inbox)
  /\ IF Head(inbox).what.kind = "invalid" THEN UNCHANGED <<task, event>>
     ELSE task' = "fetching" /\ event' = Head(inbox)
  /\ UNCHANGED <<starts, subscribed, webhooks, told>>

\* get_active_subscriptions: Limit rows of those that are active, in no order.
Fetched == {S \in SUBSET Active : Cardinality(S) = IF Cardinality(Active) < Limit
                                                   THEN Cardinality(Active) ELSE Limit}
Matched(S) == {s \in S : Matches(event.what, rows[s].criteria)}

\* The first attempts of a set of notifications, beside those under way.
Notify(S) ==
  /\ webhooks' = [w \in DOMAIN webhooks \cup {<<event.no, s>> : s \in S} |->
       IF w \in DOMAIN webhooks THEN webhooks[w] ELSE [attempts |-> 0, status |-> "sending"]]
  /\ told' = [s \in Ids |-> IF s \in S THEN event.no ELSE told[s]]

\* gather starts the matching notifications together.  Nothing suspends between the
\* database's answer and their start: a row that changes while the answer is on its
\* way is to the listener a row that changes just after.  (Mutants: rows are
\* fetched whether active or not; the notifications are not awaited.)
Fetch_All ==
  /\ task = "fetching"
  /\ Notify(Matched(DOMAIN rows))
  /\ task' = "notifying"
  /\ UNCHANGED <<starts, subscribed, inbox, event>>
Fetch_NotAwaited ==
  /\ task = "fetching"
  /\ \E S \in Fetched : Notify(Matched(S))
  /\ task' = "loop" /\ event' = NoEvent
  /\ UNCHANGED <<starts, subscribed, inbox>>
Fetch ==
  /\ task = "fetching"
  /\ \E S \in Fetched : Notify(Matched(S))
  /\ task' = "notifying"
  /\ UNCHANGED <<starts, subscribed, inbox, event>>

\* The error is logged, and the event is dropped.
FetchFails ==
  /\ task = "fetching" /\ task' = "loop" /\ event' = NoEvent
  /\ UNCHANGED <<starts, subscribed, inbox, webhooks, told>>

Without(w) == webhooks' = Restrict(webhooks, DOMAIN webhooks \ {w})

Deliver(w) ==
  /\ webhooks[w].status = "sending"
  /\ Without(w)
  /\ UNCHANGED <<starts, task, subscribed, inbox, event, told>>

\* No answer, or 4xx or 5xx: tenacity retries them all, after a pause, up to
\* MaxAttempts.
SendFails(w) ==
  /\ webhooks[w].status = "sending"
  /\ IF webhooks[w].attempts + 1 < MaxAttempts
     THEN webhooks' = [webhooks EXCEPT ![w] = [attempts |-> @.attempts + 1, status |-> "waiting"]]
     ELSE Without(w)
  /\ UNCHANGED <<starts, task, subscribed, inbox, event, told>>

SendAgain(w) ==
  /\ webhooks[w].status = "waiting"
  /\ webhooks' = [webhooks EXCEPT ![w].status = "sending"]
  /\ told' = [told EXCEPT ![w[2]] = w[1]]
  /\ UNCHANGED <<starts, task, subscribed, inbox, event>>

\* gather returns when every notification was delivered or given up.
EventDone ==
  /\ task = "notifying" /\ webhooks = <<>>
  /\ task' = "loop" /\ event' = NoEvent
  /\ UNCHANGED <<starts, subscribed, inbox, webhooks, told>>

\* stop_listener cancels the task, with the notifications it awaits, and waits for
\* its end.  A task that has ended is forgotten, but not a start that its end has
\* scheduled.
Stop ==
  /\ service = "up" /\ service' = "stopped"
  /\ IF task \in Ended THEN UNCHANGED listener
     ELSE /\ task' = "cancelled" /\ subscribed' = FALSE /\ inbox' = <<>>
          /\ event' = NoEvent /\ webhooks' = <<>>
          /\ UNCHANGED <<starts, told>>
  /\ UNCHANGED <<rows, published, leaving, faults>>

-----------------------------------------------------------------------------
Listen ==
  \/ StartListener \/ Subscribe \/ NoticeLoss \/ Resubscribe
  \/ Receive \/ Fetch \/ EventDone
  \/ \E w \in DOMAIN webhooks : Deliver(w) \/ SendFails(w) \/ SendAgain(w)

Fault == SubscribeFails \/ LoseConnection \/ ResubscribeFails \/ FetchFails

Others == <<rows, service, published, leaving>>

Next ==
  \/ \E s \in Ids : Delete(s) \/ \E row \in Rows : Update(s, row)
  \/ \E k \in Kinds : Publish(k)
  \/ Listen /\ UNCHANGED <<Others, faults>>
  \/ /\ faults < MaxFaults /\ faults' = faults + 1
     /\ Fault /\ UNCHANGED Others
  \/ Stop

\* The listener's calls return, with an answer, an error or a timeout, and a
\* scheduled start runs.
Fairness == WF_vars(Listen /\ UNCHANGED <<Others, faults>>)

Spec == Init /\ [][Next]_vars /\ Fairness

-----------------------------------------------------------------------------
(* Properties *)

\* A subscriber is never sent an event after a later one, though notifications
\* are retried for many seconds while events arrive (subscription_service.py:130
\* awaits them all).
ToldInOrder == [][\A s \in Ids : told'[s] >= told[s]]_vars

\* A subscription that was deleted or made inactive hears of nothing but the
\* event in hand, and of that once more at most for each retry.
LeaversHearNoMore == \A s \in Ids \ Active : told[s] <= leaving[s]

\* However often Redis, the database and subscribers fail, the listener comes
\* back to its loop, subscribed and with nothing left to do, until it is stopped.
ListenerKeepsUp ==
  []<>(service # "up" \/ (task = "loop" /\ subscribed /\ inbox = <<>>))
=============================================================================
