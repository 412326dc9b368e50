-------------------------- MODULE OperationsProofs --------------------------
(***************************************************************************)
(* What is done to agents.  The removals of the k-operator and what the    *)
(* resource manager makes of them, for any agents, operators, batches,     *)
(* kinds of resources, routing keys, faults and prefetch count; and the    *)
(* evaluation of policies and the execution of their actions, for any      *)
(* files of policies, agents and nested conditions.                        *)
(***************************************************************************)
EXTENDS AgentRemoval, PolicyEngine, SequenceTheorems, FiniteSetTheorems, WellFoundedInduction,
        TLAPS

Batch == [op : Operations \cup {"none"}, todo : Seq(Agents), successful : Seq(Agents)]

\* The part of the types that the proofs use.
TypeInv ==
  /\ registered \subseteq Agents
  /\ batch \in [Operators -> Batch]
  /\ confirmed \subseteq Agents
  /\ messages \in Seq(Message)

\* An event that a batch still has to publish is true, too.
PendingTrue == \A o \in Operators : Range(batch[o].successful) \cap registered = {}

EventsInv == TypeInv /\ PendingTrue /\ EventsTrue /\ DeletionsTold

-----------------------------------------------------------------------------
(* Steps of the messages and of the batches *)

\* Replacing one message.
LEMMA Replaced ==
  ASSUME messages \in Seq(Message), NEW i \in DOMAIN messages, NEW m \in Message,
         messages' = [messages EXCEPT ![i] = m]
  PROVE  /\ messages' \in Seq(Message)
         /\ DOMAIN messages' = DOMAIN messages
         /\ messages'[i] = m
         /\ \A j \in DOMAIN messages : j # i => messages'[j] = messages[j]
<1>1. i \in 1 .. Len(messages)  OBVIOUS
<1> QED  BY <1>1, ExceptSeq

\* Sending one.
LEMMA Sent ==
  ASSUME messages \in Seq(Message), NEW key \in Keys, NEW type \in Types, NEW a \in Agents,
         RemovalAssumption, Send(key, type, a)
  PROVE  /\ messages' \in Seq(Message)
         /\ Len(messages') = Len(messages) + 1
         /\ \A j \in DOMAIN messages : j \in DOMAIN messages' /\ messages'[j] = messages[j]
         /\ LET m == messages'[Len(messages) + 1]
            IN m.key = key /\ m.type = type /\ m.agent = a
<1> DEFINE m == [key |-> key, type |-> type, agent |-> a,
                 status |-> IF declared /\ key \in RoutedKeys THEN "ready" ELSE "dropped",
                 kind |-> 1]
<1>1. m \in Message  BY Kinds \in Seq({"Deployment", "StatefulSet", "Service", "ConfigMap",
                       "Secret", "PersistentVolumeClaim"}) DEF Message, RemovalAssumption
<1>2. messages' = Append(messages, m)  BY DEF Send
<1> HIDE DEF m
<1>3. /\ messages' \in Seq(Message)
      /\ Len(messages') = Len(messages) + 1
      /\ \A j \in 1 .. Len(messages) : messages'[j] = messages[j]
      /\ messages'[Len(messages) + 1] = m
  BY <1>1, <1>2, AppendProperties
<1> QED  BY <1>3 DEF m

\* Settling a batch.
LEMMA Settled ==
  ASSUME TypeInv, NEW o \in Operators, NEW b \in Batch, Settle(o, b)
  PROVE  /\ batch' \in [Operators -> Batch]
         /\ batch'[o].successful = b.successful
         /\ \A p \in Operators : p # o => batch'[p] = batch[p]
<1>1. NoBatch \in Batch  BY DEF NoBatch, Batch, Operations
<1>2. CASE b.todo = <<>> /\ b.successful = <<>>
  BY <1>1, <1>2 DEF Settle, TypeInv, NoBatch
<1>3. CASE ~(b.todo = <<>> /\ b.successful = <<>>)
  BY <1>3 DEF Settle, TypeInv
<1> QED  BY <1>2, <1>3

\* What the messages keep whatever the listener does: their number, keys,
\* types and agents.
ListenerStep ==
  \/ Connect \/ ConnectFails \/ StartConsuming \/ ConsumeFails \/ ListenerCrash
  \/ \E i \in DOMAIN messages : Process(i) \/ ArchiveFails(i) \/ KubernetesFails(i)

KeepsEvents ==
  /\ messages' \in Seq(Message)
  /\ DOMAIN messages' = DOMAIN messages
  /\ \A j \in DOMAIN messages : /\ messages'[j].key = messages[j].key
                                /\ messages'[j].type = messages[j].type
                                /\ messages'[j].agent = messages[j].agent

\* One message moves on within its record.
LEMMA Moves ==
  ASSUME TypeInv, NEW i \in DOMAIN messages, NEW m \in Message,
         messages' = [messages EXCEPT ![i] = m],
         m.key = messages[i].key, m.type = messages[i].type, m.agent = messages[i].agent
  PROVE  KeepsEvents
BY Replaced DEF TypeInv, KeepsEvents

LEMMA MessageType == ASSUME TypeInv, NEW i \in DOMAIN messages PROVE messages[i] \in Message
<1>1. i \in 1 .. Len(messages)  BY DEF TypeInv
<1> QED  BY <1>1, ElementOfSeq DEF TypeInv

LEMMA ListenerKeepsEvents ==
  ASSUME TypeInv, RemovalAssumption, ListenerStep
  PROVE  KeepsEvents
<1> USE MessageType
<1>k. Len(Kinds) \in Nat /\ \A k \in 1 .. Len(Kinds) : Kinds[k] \in Range(Kinds)
  BY DEF RemovalAssumption, Range
<1>1. CASE Connect \/ StartConsuming
  BY <1>1 DEF Connect, StartConsuming, KeepsEvents, TypeInv
<1>2. CASE ConnectFails \/ ConsumeFails
  BY <1>2 DEF ConnectFails, ConsumeFails, KeepsEvents, TypeInv
<1>3. CASE ListenerCrash
  <2> DEFINE M(i) == IF messages[i].status = "handling"
                     THEN [messages[i] EXCEPT !.status = "ready", !.kind = 1]
                     ELSE messages[i]
  <2>1. messages' = [i \in DOMAIN messages |-> M(i)]
    BY <1>3 DEF ListenerCrash
  <2>2. ASSUME NEW i \in DOMAIN messages
        PROVE  /\ M(i) \in Message
               /\ M(i).key = messages[i].key /\ M(i).type = messages[i].type
               /\ M(i).agent = messages[i].agent
    <3>1. messages[i] \in Message  OBVIOUS
    <3> DEFINE m == [messages[i] EXCEPT !.status = "ready", !.kind = 1]
    <3>2. 1 \in 1 .. Len(Kinds) + 1  BY <1>k
    <3>3. /\ m \in Message
          /\ m.key = messages[i].key /\ m.type = messages[i].type /\ m.agent = messages[i].agent
      BY <3>1, <3>2 DEF Message
    <3> HIDE DEF m
    <3>4. M(i) = IF messages[i].status = "handling" THEN m ELSE messages[i]  BY DEF m
    <3> QED  BY <3>1, <3>3, <3>4
  <2> HIDE DEF M
  <2>3. DOMAIN messages = 1 .. Len(messages) /\ Len(messages) \in Nat  BY DEF TypeInv
  <2>4. messages' \in [1 .. Len(messages) -> Message]
    <3>1. messages' = [i \in 1 .. Len(messages) |-> M(i)]  BY <2>1, <2>3
    <3>2. \A i \in 1 .. Len(messages) : M(i) \in Message  BY <2>2, <2>3
    <3> QED  BY <3>1, <3>2
  <2>5. messages' \in Seq(Message)  BY <2>3, <2>4, SeqDef
  <2> QED  BY <2>1, <2>2, <2>5 DEF KeepsEvents, TypeInv
<1>4. ASSUME NEW i \in DOMAIN messages,
             \/ Ignore(i) \/ Archive(i) \/ Ack(i)
             \/ Kill(i) \/ List(i) \/ ArchiveFails(i) \/ KubernetesFails(i)
      PROVE  KeepsEvents
  <2>1. messages[i] \in Message  OBVIOUS
  <2>2. CASE Ignore(i) \/ Archive(i) \/ ArchiveFails(i) \/ Ack(i)
    <3> DEFINE m == [messages[i] EXCEPT !.status = "acked"]
    <3>1. m \in Message /\ m.key = messages[i].key /\ m.type = messages[i].type /\ m.agent = messages[i].agent
      BY <2>1 DEF Message
    <3>2. messages' = [messages EXCEPT ![i] = m]  BY <2>2 DEF Ignore, Archive, ArchiveFails, Ack
    <3> QED  BY <3>1, <3>2, Moves
  <2>3. CASE Kill(i)
    <3> DEFINE m == [messages[i] EXCEPT !.status = "handling"]
    <3>1. m \in Message /\ m.key = messages[i].key /\ m.type = messages[i].type /\ m.agent = messages[i].agent
      BY <2>1 DEF Message
    <3>2. messages' = [messages EXCEPT ![i] = m]  BY <2>3 DEF Kill
    <3> QED  BY <3>1, <3>2, Moves
  <2>4. CASE List(i) \/ KubernetesFails(i)
    <3>1. messages[i].kind + 1 \in 1 .. Len(Kinds) + 1 /\ Len(Kinds) + 1 \in 1 .. Len(Kinds) + 1
      BY <2>1, <2>4, <1>k DEF List, KubernetesFails, Handling, Message
    <3>2. PICK k \in {messages[i].kind + 1, Len(Kinds) + 1} :
            messages' = [messages EXCEPT ![i] = [messages[i] EXCEPT !.kind = k]]
      BY <2>4 DEF List, KubernetesFails
    <3> DEFINE m == [messages[i] EXCEPT !.kind = k]
    <3>3. m \in Message /\ m.key = messages[i].key /\ m.type = messages[i].type /\ m.agent = messages[i].agent
      BY <2>1, <3>1 DEF Message
    <3> QED  BY <3>2, <3>3, Moves
  <2> QED  BY <1>4, <2>2, <2>3, <2>4
<1> QED  BY <1>1, <1>2, <1>3, <1>4 DEF ListenerStep, Process


-----------------------------------------------------------------------------
(* The elements of a sequence *)

LEMMA RangeOfAppend ==
  ASSUME NEW S, NEW s \in Seq(S), NEW e \in S
  PROVE  Range(Append(s, e)) = Range(s) \cup {e}
<1>1. /\ Len(Append(s, e)) = Len(s) + 1 /\ Append(s, e) \in Seq(S)
      /\ \A i \in 1 .. Len(s) : Append(s, e)[i] = s[i]
      /\ Append(s, e)[Len(s) + 1] = e
  BY AppendProperties
<1>2. DOMAIN Append(s, e) = DOMAIN s \cup {Len(s) + 1} /\ DOMAIN s = 1 .. Len(s)  BY <1>1
<1> QED  BY <1>1, <1>2 DEF Range

LEMMA RangeOfTail ==
  ASSUME NEW S, NEW s \in Seq(S), s # <<>>
  PROVE  Range(s) = {Head(s)} \cup Range(Tail(s))
<1>1. /\ Tail(s) \in Seq(S) /\ Len(Tail(s)) = Len(s) - 1 /\ Len(s) \in Nat \ {0}
      /\ \A i \in 1 .. Len(Tail(s)) : Tail(s)[i] = s[i + 1]
      /\ Head(s) = s[1]
  BY HeadTailProperties, EmptySeq
<1>2. DOMAIN s = 1 .. Len(s) /\ DOMAIN Tail(s) = 1 .. Len(s) - 1  BY <1>1
<1>3. ASSUME NEW x \in Range(s) PROVE x \in {Head(s)} \cup Range(Tail(s))
  <2>1. PICK i \in 1 .. Len(s) : s[i] = x  BY <1>2 DEF Range
  <2>2. CASE i = 1  BY <1>1, <2>1, <2>2
  <2>3. CASE i # 1
    <3>1. i - 1 \in DOMAIN Tail(s) /\ Tail(s)[i - 1] = x  BY <1>1, <1>2, <2>1, <2>3
    <3> QED  BY <3>1 DEF Range
  <2> QED  BY <2>2, <2>3
<1>4. Head(s) \in Range(s)  BY <1>1, <1>2 DEF Range
<1>5. ASSUME NEW x \in Range(Tail(s)) PROVE x \in Range(s)
  <2>1. PICK i \in 1 .. Len(s) - 1 : Tail(s)[i] = x  BY <1>2 DEF Range
  <2>2. i + 1 \in DOMAIN s /\ s[i + 1] = x  BY <1>1, <1>2, <2>1
  <2> QED  BY <2>2 DEF Range
<1> QED  BY <1>3, <1>4, <1>5

-----------------------------------------------------------------------------
(* EventsTrue and DeletionsTold *)

LEMMA InitEvents == RemovalAssumption /\ Init => EventsInv
<1> SUFFICES ASSUME RemovalAssumption, Init PROVE EventsInv
  OBVIOUS
<1>1. <<>> \in Seq(Agents) /\ messages = <<>> /\ DOMAIN messages = {} /\ messages \in Seq(Message)
  BY DEF Init
<1>2. NoBatch \in Batch  BY <1>1 DEF NoBatch, Batch, Operations
<1>3. Range(NoBatch.successful) = {}  BY <1>1 DEF NoBatch, Range
<1> QED  BY <1>1, <1>2, <1>3 DEF Init, EventsInv, TypeInv, PendingTrue, EventsTrue, DeletionsTold

\* A batch whose next agent was dealt with; "more" is what became of it.
LEMMA NextAgent ==
  ASSUME TypeInv, NEW o \in Operators, batch[o].todo # <<>>
  PROVE  /\ batch[o] \in Batch
         /\ Head(batch[o].todo) \in Agents
         /\ [batch[o] EXCEPT !.todo = Tail(@)] \in Batch
         /\ [batch[o] EXCEPT !.todo = Tail(@),
                             !.successful = Append(@, Head(batch[o].todo))] \in Batch
<1>1. batch[o] \in Batch  BY DEF TypeInv
<1>2. Head(batch[o].todo) \in Agents /\ Tail(batch[o].todo) \in Seq(Agents)
  BY <1>1, HeadTailProperties DEF Batch
<1>3. Append(batch[o].successful, Head(batch[o].todo)) \in Seq(Agents)
  BY <1>1, <1>2, AppendProperties DEF Batch
<1> QED  BY <1>1, <1>2, <1>3 DEF Batch

LEMMA NextEvent ==
  ASSUME TypeInv, NEW o \in Operators, Publishing(o)
  PROVE  /\ batch[o] \in Batch
         /\ Head(batch[o].successful) \in Agents
         /\ Head(batch[o].successful) \in Range(batch[o].successful)
         /\ [batch[o] EXCEPT !.successful = Tail(@)] \in Batch
         /\ Range(batch[o].successful) =
              {Head(batch[o].successful)} \cup Range(Tail(batch[o].successful))
<1>1. batch[o] \in Batch /\ batch[o].successful \in Seq(Agents) /\ batch[o].successful # <<>>
  BY DEF TypeInv, Publishing, Batch
<1>2. Head(batch[o].successful) \in Agents /\ Tail(batch[o].successful) \in Seq(Agents)
  BY <1>1, HeadTailProperties
<1>3. Range(batch[o].successful) =
        {Head(batch[o].successful)} \cup Range(Tail(batch[o].successful))
  BY <1>1, RangeOfTail
<1> QED  BY <1>1, <1>2, <1>3 DEF Batch

LEMMA OperatorsKeepEvents ==
  ASSUME EventsInv, RemovalAssumption,
         \/ \E o \in Operators : \/ \E op \in Operations, agents \in Batches : Submit(o, op, agents)
                                 \/ Operate(o)
         \/ KOperatorFault
  PROVE  EventsInv'
<1> USE DEF EventsInv
<1>1. ASSUME NEW o \in Operators, NEW op \in Operations, NEW agents \in Batches,
             Submit(o, op, agents)
      PROVE  EventsInv'
  <2>1. agents \in Seq(Agents)  BY SeqDef DEF Batches
  <2>2. /\ batch' = [batch EXCEPT ![o] = [op |-> op, todo |-> agents, successful |-> <<>>]]
        /\ UNCHANGED <<registered, confirmed, untold, messages>>
        /\ batch[o] = NoBatch
    BY <1>1 DEF Submit
  <2>3. batch' \in [Operators -> Batch]  BY <2>1, <2>2 DEF TypeInv, Batch
  <2>4. \A p \in Operators : Range(batch'[p].successful) = Range(batch[p].successful)
    BY <2>2 DEF NoBatch, Range, TypeInv
  <2> QED  BY <2>2, <2>3, <2>4 DEF TypeInv, PendingTrue, EventsTrue, DeletionsTold
<1>2. ASSUME NEW o \in Operators, Delete(o) PROVE EventsInv'
  <2> DEFINE a == Head(batch[o].todo)
             b == [batch[o] EXCEPT !.todo = Tail(@), !.successful = Append(@, a)]
  <2>1. /\ batch[o].todo # <<>> /\ registered' = registered \ {a}
        /\ confirmed' = confirmed \cup {a} /\ Settle(o, b) /\ UNCHANGED <<untold, messages>>
    BY <1>2 DEF Delete
  <2>2. a \in Agents /\ b \in Batch /\ batch[o] \in Batch  BY <2>1, NextAgent
  <2>3. b.successful = Append(batch[o].successful, a)  BY <2>2 DEF Batch
  <2> HIDE DEF a, b
  <2>4. /\ batch' \in [Operators -> Batch] /\ batch'[o].successful = b.successful
        /\ \A p \in Operators : p # o => batch'[p] = batch[p]
    BY <2>1, <2>2, Settled
  <2>5. Range(batch'[o].successful) = Range(batch[o].successful) \cup {a}
    BY <2>2, <2>3, <2>4, RangeOfAppend DEF Batch
  <2> QED  BY <2>1, <2>2, <2>4, <2>5 DEF TypeInv, PendingTrue, EventsTrue, DeletionsTold
<1>3. ASSUME NEW o \in Operators, SetState(o) \/ DeleteFails(o) PROVE EventsInv'
  <2> DEFINE b == [batch[o] EXCEPT !.todo = Tail(@)]
  <2>1. /\ batch[o].todo # <<>> /\ registered' \subseteq registered
        /\ Settle(o, b) /\ UNCHANGED <<confirmed, untold, messages>>
    BY <1>3 DEF SetState, DeleteFails
  <2>2. b \in Batch /\ batch[o] \in Batch  BY <2>1, NextAgent
  <2>3. b.successful = batch[o].successful  BY <2>2 DEF Batch
  <2> HIDE DEF b
  <2>4. /\ batch' \in [Operators -> Batch]
        /\ \A p \in Operators : batch'[p].successful = batch[p].successful
    BY <2>1, <2>2, <2>3, Settled
  <2> QED  BY <2>1, <2>4 DEF TypeInv, PendingTrue, EventsTrue, DeletionsTold
<1>4. ASSUME NEW o \in Operators, PublishEvent(o) \/ PublishFails(o) PROVE EventsInv'
  <2> DEFINE a == Head(batch[o].successful)
             b == [batch[o] EXCEPT !.successful = Tail(@)]
  <2>1. /\ Publishing(o) /\ Settle(o, b) /\ UNCHANGED <<registered, confirmed>>
        /\ \/ Send("agent.deleted", "other", a) /\ untold \subseteq untold'
           \/ UNCHANGED messages /\ untold' = untold \cup {a}
    BY <1>4 DEF PublishEvent, PublishFails
  <2>2. /\ a \in Agents /\ a \in Range(batch[o].successful) /\ b \in Batch /\ batch[o] \in Batch
        /\ Range(batch[o].successful) = {a} \cup Range(Tail(batch[o].successful))
    BY <2>1, NextEvent
  <2>3. b.successful = Tail(batch[o].successful)  BY <2>2 DEF Batch
  <2> HIDE DEF a, b
  <2>4. /\ batch' \in [Operators -> Batch] /\ batch'[o].successful = b.successful
        /\ \A p \in Operators : p # o => batch'[p] = batch[p]
    BY <2>1, <2>2, Settled
  <2>5. PendingTrue'
    BY <2>1, <2>2, <2>3, <2>4 DEF PendingTrue
  <2>6. a \notin registered  BY <2>2 DEF PendingTrue
  <2>7. CASE UNCHANGED messages /\ untold' = untold \cup {a}
    BY <2>1, <2>2, <2>3, <2>4, <2>5, <2>7 DEF TypeInv, EventsTrue, DeletionsTold
  <2>8. CASE Send("agent.deleted", "other", a) /\ untold \subseteq untold'
    <3>1. "agent.deleted" \in Keys /\ "other" \in Types  BY DEF Keys, Types
    <3>2. /\ messages' \in Seq(Message) /\ Len(messages') = Len(messages) + 1
          /\ \A j \in DOMAIN messages : j \in DOMAIN messages' /\ messages'[j] = messages[j]
          /\ messages'[Len(messages) + 1].key = "agent.deleted"
          /\ messages'[Len(messages) + 1].agent = a
      BY <2>2, <2>8, <3>1, Sent DEF TypeInv
    <3>3. DOMAIN messages' = DOMAIN messages \cup {Len(messages) + 1}
      BY <3>2 DEF TypeInv
    <3>4. EventsTrue'  BY <2>1, <2>6, <3>2, <3>3 DEF EventsTrue
    <3>5. DeletionsTold'
      BY <2>1, <2>2, <2>3, <2>4, <2>8, <3>2, <3>3 DEF DeletionsTold
    <3> QED  BY <2>1, <2>4, <2>5, <3>2, <3>4, <3>5 DEF TypeInv
  <2> QED  BY <2>1, <2>7, <2>8
<1>5. CASE KOperatorCrash
  <2>1. /\ batch' = [o \in Operators |-> NoBatch]
        /\ untold' = untold \cup UNION {Range(batch[o].successful) : o \in Operators}
        /\ UNCHANGED <<registered, confirmed, messages>>
    BY <1>5 DEF KOperatorCrash
  <2>2. NoBatch \in Batch /\ Range(NoBatch.successful) = {}
    BY DEF NoBatch, Batch, Operations, Range
  <2> QED  BY <2>1, <2>2 DEF TypeInv, PendingTrue, EventsTrue, DeletionsTold
<1>6. CASE SubmitRefused
  BY <1>6 DEF SubmitRefused, TypeInv, PendingTrue, EventsTrue, DeletionsTold
<1> QED  BY <1>1, <1>2, <1>3, <1>4, <1>5, <1>6 DEF Operate, KOperatorFault

LEMMA ListenerKeepsTruth ==
  ASSUME EventsInv, RemovalAssumption, ListenerStep, UNCHANGED k_vars
  PROVE  EventsInv'
<1>1. KeepsEvents  BY ListenerKeepsEvents DEF EventsInv
<1> QED  BY <1>1 DEF EventsInv, KeepsEvents, k_vars, TypeInv, PendingTrue, EventsTrue, DeletionsTold

LEMMA OthersKeepTruth ==
  ASSUME EventsInv, RemovalAssumption, NEW type \in Types, NEW a \in Agents, OtherPublish(type, a)
  PROVE  EventsInv'
<1>1. Send("agent.state", type, a) /\ UNCHANGED <<k_vars, rm_vars>> /\ "agent.state" \in Keys
  BY DEF OtherPublish, Keys
<1>2. /\ messages' \in Seq(Message) /\ Len(messages') = Len(messages) + 1
      /\ \A j \in DOMAIN messages : j \in DOMAIN messages' /\ messages'[j] = messages[j]
      /\ messages'[Len(messages) + 1].key = "agent.state"
  BY <1>1, Sent DEF EventsInv, TypeInv
<1>3. DOMAIN messages' = DOMAIN messages \cup {Len(messages) + 1}
  BY <1>2 DEF EventsInv, TypeInv
<1> QED
  BY <1>1, <1>2, <1>3 DEF EventsInv, TypeInv, PendingTrue, EventsTrue, DeletionsTold, k_vars, rm_vars

\* The four kinds of steps of Next.
KStep ==
  /\ \/ \E o \in Operators : \/ \E op \in Operations, agents \in Batches : Submit(o, op, agents)
                             \/ Operate(o)
     \/ KOperatorFault
  /\ UNCHANGED rm_vars
RMStep == ListenerStep /\ UNCHANGED k_vars
OtherStep == \E type \in Types, a \in Agents : OtherPublish(type, a)

LEMMA Steps == [Next]_vars => KStep \/ RMStep \/ OtherStep \/ UNCHANGED vars
BY DEF Next, KStep, RMStep, OtherStep, ListenerStep, ListenerFault

LEMMA NextEvents == EventsInv /\ RemovalAssumption /\ [Next]_vars => EventsInv'
<1> SUFFICES ASSUME EventsInv, RemovalAssumption, [Next]_vars PROVE EventsInv'
  OBVIOUS
<1>1. CASE KStep  BY <1>1, OperatorsKeepEvents DEF KStep
<1>2. CASE RMStep  BY <1>2, ListenerKeepsTruth DEF RMStep
<1>3. CASE OtherStep  BY <1>3, OthersKeepTruth DEF OtherStep
<1>4. CASE UNCHANGED vars
  BY <1>4 DEF vars, k_vars, rm_vars, EventsInv, TypeInv, PendingTrue, EventsTrue, DeletionsTold
<1> QED  BY <1>1, <1>2, <1>3, <1>4, Steps

LEMMA EventsHold == Spec => []EventsInv
BY InitEvents, NextEvents, RemovalAssumption, PTL DEF Spec

\* No event ever tells of a deletion that did not happen, however many batches
\* overlap, fail in the middle or are cut off by a crash.
THEOREM RemovalEventsTrue == Spec => []EventsTrue
BY EventsHold, PTL DEF EventsInv

\* A confirmed deletion is told, is about to be, or lost its event to a failure.
THEOREM RemovalsTold == Spec => []DeletionsTold
BY EventsHold, PTL DEF EventsInv

-----------------------------------------------------------------------------
(* Types: a batch never holds more agents than its request had *)

BatchFits == \A o \in Operators : Len(batch[o].todo) + Len(batch[o].successful) <= MaxBatch

Others ==
  /\ requests \in 0 .. MaxRequests
  /\ untold \subseteq Agents
  /\ declared \in BOOLEAN
  /\ listener \in {"stopped", "connected", "on", "deaf"}
  /\ resources \in [Agents -> SUBSET Range(Kinds)]
  /\ scaled \subseteq Agents
  /\ faults \in 0 .. MaxFaults

RemovalTypes == BatchFits /\ Others

LEMMA TypesSuffice == TypeInv /\ RemovalTypes => TypeOK
<1> SUFFICES ASSUME TypeInv, RemovalTypes PROVE TypeOK
  OBVIOUS
<1>1. ASSUME NEW o \in Operators
      PROVE  /\ batch[o].op \in Operations \cup {"none"}
             /\ batch[o].todo \in Batches \cup {<<>>}
             /\ batch[o].successful \in Batches \cup {<<>>}
  <2>1. /\ batch[o].op \in Operations \cup {"none"}
        /\ batch[o].todo \in Seq(Agents) /\ batch[o].successful \in Seq(Agents)
    BY DEF TypeInv, Batch
  <2>2. Len(batch[o].todo) \in 0 .. MaxBatch /\ Len(batch[o].successful) \in 0 .. MaxBatch
    <3>1. Len(batch[o].todo) \in Nat /\ Len(batch[o].successful) \in Nat /\ MaxBatch \in Nat
      BY <2>1, LenProperties, RemovalAssumption DEF RemovalAssumption
    <3>2. Len(batch[o].todo) + Len(batch[o].successful) <= MaxBatch
      BY DEF RemovalTypes, BatchFits
    <3> DEFINE x == Len(batch[o].todo)
               y == Len(batch[o].successful)
    <3> HIDE DEF x, y
    <3> SUFFICES x \in 0 .. MaxBatch /\ y \in 0 .. MaxBatch
      BY DEF x, y
    <3>3. x \in Nat /\ y \in Nat /\ MaxBatch \in Nat /\ x + y <= MaxBatch
      BY <3>1, <3>2 DEF x, y
    <3> QED  BY <3>3
  <2>3. ASSUME NEW s \in Seq(Agents), Len(s) \in 0 .. MaxBatch PROVE s \in Batches \cup {<<>>}
    <3>1. CASE Len(s) = 0  BY <3>1, EmptySeq
    <3>2. CASE Len(s) # 0
      <4>1. Len(s) \in 1 .. MaxBatch /\ s \in [1 .. Len(s) -> Agents]  BY <2>3, <3>2, LenProperties
      <4> QED  BY <4>1 DEF Batches
    <3> QED  BY <3>1, <3>2
  <2> QED  BY <2>1, <2>2, <2>3
<1> QED  BY <1>1 DEF TypeInv, RemovalTypes, Others, TypeOK

LEMMA InitTypes == RemovalAssumption /\ Init => RemovalTypes
<1> SUFFICES ASSUME RemovalAssumption, Init PROVE RemovalTypes
  OBVIOUS
<1>1. BatchFits  BY DEF Init, NoBatch, BatchFits, RemovalAssumption
<1>2. requests \in 0 .. MaxRequests /\ faults \in 0 .. MaxFaults
  BY DEF Init, RemovalAssumption
<1>3. /\ untold = {} /\ declared = FALSE /\ listener = "stopped" /\ scaled = {}
      /\ resources \in [Agents -> SUBSET Range(Kinds)]
  BY DEF Init
<1> QED  BY <1>1, <1>2, <1>3 DEF RemovalTypes, Others

\* Settling a batch with no more agents than it had.
LEMMA SettledFits ==
  ASSUME TypeInv, BatchFits, RemovalAssumption, NEW o \in Operators, NEW b \in Batch,
         Len(b.todo) + Len(b.successful) <= Len(batch[o].todo) + Len(batch[o].successful),
         Settle(o, b)
  PROVE  BatchFits'
<1>1. /\ batch \in [Operators -> Batch]
      /\ batch' = [batch EXCEPT ![o] = IF b.todo = <<>> /\ b.successful = <<>> THEN NoBatch ELSE b]
  BY DEF TypeInv, Settle
<1>2. \A p \in Operators : Len(batch[p].todo) \in Nat /\ Len(batch[p].successful) \in Nat
  BY <1>1 DEF Batch
<1>3. Len(b.todo) + Len(b.successful) <= MaxBatch
  <2>1. Len(b.todo) \in Nat /\ Len(b.successful) \in Nat  BY DEF Batch
  <2>2. Len(batch[o].todo) + Len(batch[o].successful) <= MaxBatch  BY DEF BatchFits
  <2>3. \A i, j, k, l, n \in Nat : i + j <= k + l /\ k + l <= n => i + j <= n
    OBVIOUS
  <2>4. MaxBatch \in Nat  BY DEF RemovalAssumption
  <2> QED  BY Zenon, <1>2, <2>1, <2>2, <2>3, <2>4
<1>4. Len(NoBatch.todo) + Len(NoBatch.successful) <= MaxBatch
  BY DEF NoBatch, RemovalAssumption
<1>5. batch'[o] = b \/ batch'[o] = NoBatch  BY <1>1
<1>6. \A p \in Operators : p # o => batch'[p] = batch[p]  BY <1>1
<1> QED  BY <1>3, <1>4, <1>5, <1>6 DEF BatchFits

LEMMA OperatorsFit ==
  ASSUME TypeInv, BatchFits, RemovalAssumption,
         \/ \E o \in Operators : \/ \E op \in Operations, agents \in Batches : Submit(o, op, agents)
                                 \/ Operate(o)
         \/ KOperatorFault
  PROVE  BatchFits'
<1>1. ASSUME NEW o \in Operators, NEW op \in Operations, NEW agents \in Batches,
             Submit(o, op, agents)
      PROVE  BatchFits'
  <2>1. agents \in Seq(Agents) /\ Len(agents) <= MaxBatch
    BY SeqDef DEF Batches, RemovalAssumption
  <2>2. batch' = [batch EXCEPT ![o] = [op |-> op, todo |-> agents, successful |-> <<>>]]
    BY <1>1 DEF Submit
  <2>3. Len(agents) + Len(<<>>) <= MaxBatch  BY <2>1
  <2> QED  BY <2>2, <2>3 DEF TypeInv, BatchFits
<1>2. ASSUME NEW o \in Operators, Delete(o) PROVE BatchFits'
  <2> DEFINE a == Head(batch[o].todo)
             b == [batch[o] EXCEPT !.todo = Tail(@), !.successful = Append(@, a)]
  <2>1. batch[o].todo # <<>> /\ Settle(o, b)  BY <1>2 DEF Delete
  <2>2. a \in Agents /\ b \in Batch /\ batch[o] \in Batch  BY <2>1, NextAgent
  <2>3. /\ b.todo = Tail(batch[o].todo) /\ b.successful = Append(batch[o].successful, a)
        /\ batch[o].todo \in Seq(Agents) /\ batch[o].successful \in Seq(Agents)
    BY <2>2 DEF Batch
  <2> HIDE DEF a, b
  <2>4. /\ Len(b.todo) = Len(batch[o].todo) - 1
        /\ Len(b.successful) = Len(batch[o].successful) + 1
    BY <2>1, <2>2, <2>3, HeadTailProperties, AppendProperties
  <2>5. Len(b.todo) + Len(b.successful) <= Len(batch[o].todo) + Len(batch[o].successful)
    <3>1. Len(batch[o].todo) \in Nat /\ Len(batch[o].successful) \in Nat
      BY <2>3, LenProperties
    <3>2. \A i, j \in Nat : (i - 1) + (j + 1) <= i + j /\ (i - 1) + j <= i + j /\ i + (j - 1) <= i + j
      OBVIOUS
    <3> QED  BY Zenon, <2>3, <2>4, <3>1, <3>2
  <2> QED  BY <2>1, <2>2, <2>5, SettledFits
<1>3. ASSUME NEW o \in Operators, SetState(o) \/ DeleteFails(o) PROVE BatchFits'
  <2> DEFINE b == [batch[o] EXCEPT !.todo = Tail(@)]
  <2>1. batch[o].todo # <<>> /\ Settle(o, b)  BY <1>3 DEF SetState, DeleteFails
  <2>2. b \in Batch /\ batch[o] \in Batch  BY <2>1, NextAgent
  <2>3. /\ b.todo = Tail(batch[o].todo) /\ b.successful = batch[o].successful
        /\ batch[o].todo \in Seq(Agents) /\ batch[o].successful \in Seq(Agents)
    BY <2>2 DEF Batch
  <2> HIDE DEF b
  <2>4. Len(b.todo) = Len(batch[o].todo) - 1  BY <2>1, <2>3, HeadTailProperties
  <2>5. Len(b.todo) + Len(b.successful) <= Len(batch[o].todo) + Len(batch[o].successful)
    <3>1. Len(batch[o].todo) \in Nat /\ Len(batch[o].successful) \in Nat
      BY <2>3, LenProperties
    <3>2. \A i, j \in Nat : (i - 1) + (j + 1) <= i + j /\ (i - 1) + j <= i + j /\ i + (j - 1) <= i + j
      OBVIOUS
    <3> QED  BY Zenon, <2>3, <2>4, <3>1, <3>2
  <2> QED  BY <2>1, <2>2, <2>5, SettledFits
<1>4. ASSUME NEW o \in Operators, PublishEvent(o) \/ PublishFails(o) PROVE BatchFits'
  <2> DEFINE b == [batch[o] EXCEPT !.successful = Tail(@)]
  <2>1. Publishing(o) /\ Settle(o, b)  BY <1>4 DEF PublishEvent, PublishFails
  <2>2. b \in Batch /\ batch[o] \in Batch  BY <2>1, NextEvent
  <2>3. /\ b.todo = batch[o].todo /\ b.successful = Tail(batch[o].successful)
        /\ batch[o].todo \in Seq(Agents) /\ batch[o].successful \in Seq(Agents)
        /\ batch[o].successful # <<>>
    BY <2>1, <2>2 DEF Batch, Publishing
  <2> HIDE DEF b
  <2>4. Len(b.successful) = Len(batch[o].successful) - 1  BY <2>3, HeadTailProperties
  <2>5. Len(b.todo) + Len(b.successful) <= Len(batch[o].todo) + Len(batch[o].successful)
    <3>1. Len(batch[o].todo) \in Nat /\ Len(batch[o].successful) \in Nat
      BY <2>3, LenProperties
    <3>2. \A i, j \in Nat : (i - 1) + (j + 1) <= i + j /\ (i - 1) + j <= i + j /\ i + (j - 1) <= i + j
      OBVIOUS
    <3> QED  BY Zenon, <2>3, <2>4, <3>1, <3>2
  <2> QED  BY <2>1, <2>2, <2>5, SettledFits
<1>5. CASE KOperatorCrash
  BY <1>5 DEF KOperatorCrash, NoBatch, BatchFits, RemovalAssumption
<1>6. CASE SubmitRefused
  BY <1>6 DEF SubmitRefused, BatchFits
<1> QED  BY <1>1, <1>2, <1>3, <1>4, <1>5, <1>6 DEF Operate, KOperatorFault

\* What the operators do to the other variables.
LEMMA OperatorsKeepOthers ==
  ASSUME TypeInv, Others, RemovalAssumption,
         \/ \E o \in Operators : \/ \E op \in Operations, agents \in Batches : Submit(o, op, agents)
                                 \/ Operate(o)
         \/ KOperatorFault
  PROVE  requests' \in 0 .. MaxRequests /\ untold' \subseteq Agents
<1> USE DEF Others
<1>1. \A o \in Operators : Range(batch[o].successful) \subseteq Agents
  <2>1. ASSUME NEW o \in Operators PROVE Range(batch[o].successful) \subseteq Agents
    <3>1. batch[o].successful \in Seq(Agents)  BY DEF TypeInv, Batch
    <3>2. \A i \in DOMAIN batch[o].successful : batch[o].successful[i] \in Agents
      BY <3>1, ElementOfSeq, LenProperties
    <3> QED  BY <3>2 DEF Range
  <2> QED  BY <2>1
<1>2. ASSUME NEW o \in Operators, NEW op \in Operations, NEW agents \in Batches,
             Submit(o, op, agents)
      PROVE  requests' \in 0 .. MaxRequests /\ UNCHANGED untold
  BY <1>2 DEF Submit, RemovalAssumption
<1>3. ASSUME NEW o \in Operators, Operate(o) \/ DeleteFails(o)
      PROVE  UNCHANGED <<requests, untold>>
  BY <1>3 DEF Operate, Delete, SetState, PublishEvent, DeleteFails
<1>4. ASSUME NEW o \in Operators, PublishFails(o)
      PROVE  UNCHANGED requests /\ untold' \subseteq Agents
  <2>1. Head(batch[o].successful) \in Agents  BY <1>4, NextEvent DEF PublishFails
  <2> QED  BY <1>4, <2>1 DEF PublishFails
<1>5. CASE KOperatorCrash  BY <1>1, <1>5 DEF KOperatorCrash
<1>6. CASE SubmitRefused  BY <1>6 DEF SubmitRefused, RemovalAssumption
<1> QED  BY <1>2, <1>3, <1>4, <1>5, <1>6 DEF Operate, KOperatorFault

\* What the listener does to them.
LEMMA ListenerKeepsTypes ==
  ASSUME TypeInv, Others, ListenerStep
  PROVE  /\ declared' \in BOOLEAN
         /\ listener' \in {"stopped", "connected", "on", "deaf"}
         /\ UNCHANGED resources /\ scaled' \subseteq Agents
<1> USE DEF Others
<1>1. CASE Connect \/ ConnectFails  BY <1>1 DEF Connect, ConnectFails
<1>2. CASE StartConsuming \/ ConsumeFails  BY <1>2 DEF StartConsuming, ConsumeFails
<1>3. CASE ListenerCrash  BY <1>3 DEF ListenerCrash
<1>4. ASSUME NEW i \in DOMAIN messages, Archive(i)
      PROVE  UNCHANGED <<declared, listener, resources>> /\ scaled' \subseteq Agents
  <2>1. messages[i].agent \in Agents  BY MessageType DEF Message
  <2> QED  BY <1>4, <2>1 DEF Archive, PatchScale
<1>5. ASSUME NEW i \in DOMAIN messages,
             Ignore(i) \/ Kill(i) \/ List(i) \/ Ack(i) \/ ArchiveFails(i) \/ KubernetesFails(i)
      PROVE  UNCHANGED rm_vars
  BY <1>5 DEF Ignore, Kill, List, Ack, ArchiveFails, KubernetesFails
<1> QED  BY <1>1, <1>2, <1>3, <1>4, <1>5 DEF ListenerStep, Process, rm_vars

LEMMA NextTypes == TypeInv /\ RemovalTypes /\ [Next]_vars => RemovalTypes'
<1> SUFFICES ASSUME TypeInv, RemovalTypes, [Next]_vars PROVE RemovalTypes'
  OBVIOUS
<1> USE RemovalAssumption DEF RemovalTypes
<1>1. faults' \in 0 .. MaxFaults
  BY DEF Next, vars, Others, RemovalAssumption
<1>2. CASE KStep
  BY <1>1, <1>2, OperatorsFit, OperatorsKeepOthers DEF KStep, Others, rm_vars
<1>3. CASE RMStep
  BY <1>1, <1>3, ListenerKeepsTypes DEF RMStep, Others, BatchFits, k_vars
<1>4. CASE OtherStep
  BY <1>1, <1>4 DEF OtherStep, OtherPublish, Others, BatchFits, k_vars, rm_vars
<1>5. CASE UNCHANGED vars
  BY <1>1, <1>5 DEF vars, Others, BatchFits, k_vars, rm_vars
<1> QED  BY <1>2, <1>3, <1>4, <1>5, Steps

\* Every variable keeps its type: what a batch still has to do and to tell never
\* exceeds its request (operations.py), and a message that is handled moves
\* through the kinds of resources to the last (event_listener.py).
THEOREM RemovalTypeCorrect == Spec => []TypeOK
<1>1. EventsInv => TypeInv
  BY DEF EventsInv
<1> QED
  BY <1>1, InitTypes, NextTypes, TypesSuffice, EventsHold, RemovalAssumption, PTL DEF Spec

-----------------------------------------------------------------------------
(* Recursions on trees: a function F[c, g] of a tree and a solution below it *)

LEMMA LeastNumber ==
  ASSUME NEW N \in SUBSET Nat, N # {}
  PROVE  \E n \in N : \A m \in N : ~ (m < n)
<1>1. \E n \in N : \A m \in N : ~ (<<m, n>> \in OpToRel(<, Nat))
  BY NatLessThanWellFounded, WFMin
<1> QED BY <1>1 DEF OpToRel

\* Some element of a set of trees has no smaller one in it.
LEMMA Shallowest ==
  ASSUME NEW T, NEW D \in [T -> Nat], NEW B \in SUBSET T, B # {}
  PROVE  \E c \in B : \A d \in B : ~ (D[d] < D[c])
<1>1. {D[c] : c \in B} \in SUBSET Nat /\ {D[c] : c \in B} # {}
  OBVIOUS
<1>2. PICK n \in {D[c] : c \in B} : \A m \in {D[c] : c \in B} : ~ (m < n)
  BY <1>1, LeastNumber
<1> QED BY <1>2

\* F[c, g] depends on g below c only.
Descends(F, T, V, D) ==
  \A c \in T, g \in [T -> V], h \in [T -> V] :
    (\A d \in T : D[d] < D[c] => g[d] = h[d]) => F[<<c, g>>] = F[<<c, h>>]

Solves(g, n, F, T, D) == \A c \in T : D[c] < n => g[c] = F[<<c, g>>]

Agree(F, T, V, D) ==
  \A g \in [T -> V], h \in [T -> V], n \in Nat, m \in Nat, c \in T :
    /\ Solves(g, n, F, T, D) /\ Solves(h, m, F, T, D)
    /\ D[c] < n /\ D[c] < m
    => g[c] = h[c]

LEMMA SolutionsAgree ==
  ASSUME NEW T, NEW V, NEW D \in [T -> Nat], NEW F \in [T \X [T -> V] -> V],
         Descends(F, T, V, D)
  PROVE  Agree(F, T, V, D)
<1> SUFFICES ASSUME NEW g \in [T -> V], NEW h \in [T -> V], NEW n \in Nat, NEW m \in Nat,
                    Solves(g, n, F, T, D), Solves(h, m, F, T, D),
                    NEW c \in T, D[c] < n, D[c] < m
             PROVE  g[c] = h[c]
  BY DEF Agree
<1> DEFINE Bad == {d \in T : D[d] < n /\ D[d] < m /\ g[d] # h[d]}
<1> SUFFICES ASSUME Bad # {} PROVE FALSE
  OBVIOUS
<1>1. PICK d \in Bad : \A e \in Bad : ~ (D[e] < D[d])
  <2>1. Bad \in SUBSET T
    OBVIOUS
  <2> HIDE DEF Bad
  <2> QED BY <2>1, Shallowest
<1>2. \A e \in T : D[e] < D[d] => g[e] = h[e]
  <2> SUFFICES ASSUME NEW e \in T, D[e] < D[d] PROVE g[e] = h[e]
    OBVIOUS
  <2>1. D[e] \in Nat /\ D[d] \in Nat
    OBVIOUS
  <2>2. D[e] < n /\ D[e] < m
    BY <2>1
  <2> QED BY <1>1, <2>2
<1>3. F[<<d, g>>] = F[<<d, h>>]
  BY <1>2 DEF Descends
<1> QED BY <1>3 DEF Solves

LEMMA SolutionsExist ==
  ASSUME NEW T, NEW V, NEW v \in V, NEW D \in [T -> Nat], NEW F \in [T \X [T -> V] -> V],
         Descends(F, T, V, D), NEW n \in Nat
  PROVE  \E g \in [T -> V] : Solves(g, n, F, T, D)
<1> DEFINE Bad == {m \in Nat : \A g \in [T -> V] : ~ Solves(g, m, F, T, D)}
<1> SUFFICES ASSUME Bad # {} PROVE FALSE
  OBVIOUS
<1>1. PICK m \in Bad : \A i \in Bad : ~ (i < m)
  <2>1. Bad \in SUBSET Nat
    OBVIOUS
  <2> HIDE DEF Bad
  <2> QED BY <2>1, LeastNumber
<1>2. m \in Nat
  OBVIOUS
<1>3. m # 0
  <2>1. [c \in T |-> v] \in [T -> V] /\ Solves([c \in T |-> v], 0, F, T, D)
    BY DEF Solves
  <2> QED BY <2>1
<1>4. PICK g \in [T -> V] : Solves(g, m - 1, F, T, D)
  <2>1. m - 1 \in Nat /\ m - 1 < m
    BY <1>2, <1>3
  <2>2. m - 1 \notin Bad
    <3> HIDE DEF Bad
    <3> QED BY <1>1, <2>1
  <2> QED BY <2>1, <2>2
<1> DEFINE h == [c \in T |-> F[<<c, g>>]]
<1>5. h \in [T -> V]
  OBVIOUS
<1>6. ASSUME NEW c \in T, D[c] < m PROVE h[c] = F[<<c, h>>]
  <2>1. \A d \in T : D[d] < D[c] => g[d] = h[d]
    BY <1>2, <1>4, <1>6 DEF Solves
  <2>2. F[<<c, g>>] = F[<<c, h>>]
    <3> HIDE DEF h
    <3> QED BY <1>5, <2>1 DEF Descends
  <2> QED BY <2>2
<1>7. Solves(h, m, F, T, D)
  BY <1>6 DEF Solves
<1> QED BY <1>5, <1>7

IsRecursion(F, T, V, D) ==
  /\ D \in [T -> Nat] /\ V # {} /\ F \in [T \X [T -> V] -> V]
  /\ Descends(F, T, V, D)

IsSolvable(F, T, V) == \E g \in [T -> V] : \A c \in T : g[c] = F[<<c, g>>]

\* A recursion that descends has a solution.
LEMMA Recursion ==
  ASSUME NEW T, NEW V, NEW D, NEW F, IsRecursion(F, T, V, D)
  PROVE  IsSolvable(F, T, V)
<1> USE DEF IsRecursion
<1> DEFINE Upto(n) == CHOOSE g \in [T -> V] : Solves(g, n, F, T, D)
           g == [c \in T |-> Upto(D[c] + 1)[c]]
<1>0. Agree(F, T, V, D)
  BY SolutionsAgree
<1>1. ASSUME NEW n \in Nat PROVE Upto(n) \in [T -> V] /\ Solves(Upto(n), n, F, T, D)
  <2>1. \E h \in [T -> V] : Solves(h, n, F, T, D)
    BY SolutionsExist
  <2> QED BY <2>1
<1> HIDE DEF Upto
<1>2. g \in [T -> V]
  <2>1. \A c \in T : Upto(D[c] + 1) \in [T -> V]
    BY <1>1
  <2> QED BY <2>1
<1>3. ASSUME NEW c \in T PROVE g[c] = F[<<c, g>>]
  <2> DEFINE h == Upto(D[c] + 1)
  <2>1. D[c] \in Nat /\ D[c] + 1 \in Nat /\ D[c] < D[c] + 1
    OBVIOUS
  <2>2. h \in [T -> V] /\ Solves(h, D[c] + 1, F, T, D)
    BY <1>1, <2>1
  <2>3. ASSUME NEW d \in T, D[d] < D[c] PROVE g[d] = h[d]
    <3>1. D[d] \in Nat /\ D[d] + 1 \in Nat /\ D[d] < D[d] + 1 /\ D[d] < D[c] + 1
      BY <2>1, <2>3
    <3>2. Upto(D[d] + 1) \in [T -> V] /\ Solves(Upto(D[d] + 1), D[d] + 1, F, T, D)
      BY <1>1, <3>1
    <3> DEFINE k == Upto(D[d] + 1)
               i == D[d] + 1
               j == D[c] + 1
    <3>3. /\ k \in [T -> V] /\ h \in [T -> V] /\ i \in Nat /\ j \in Nat
          /\ Solves(k, i, F, T, D) /\ Solves(h, j, F, T, D)
          /\ D[d] < i /\ D[d] < j
      BY <2>1, <2>2, <3>1, <3>2
    <3> HIDE DEF h, i, j, k
    <3>4. k[d] = h[d]
      BY <1>0, <3>3 DEF Agree
    <3> QED BY <3>4 DEF k
  <2>4. h[c] = F[<<c, h>>]
    BY <2>1, <2>2 DEF Solves
  <2>5. F[<<c, g>>] = F[<<c, h>>]
    <3> HIDE DEF g, h
    <3> QED BY <1>2, <2>2, <2>3 DEF Descends
  <2> QED BY <2>4, <2>5
<1> QED BY <1>2, <1>3 DEF IsSolvable

-----------------------------------------------------------------------------
(* Condition trees *)

LEMMA TreeShape ==
  ASSUME NEW c \in Trees
  PROVE  /\ Depth \in [Trees -> Nat]
         /\ c.type # "dict" => c.type \in Leaves /\ c.key \in Fields
         /\ c.type = "dict" =>
              /\ Len(c.keys) \in Nat /\ DOMAIN c.keys = 1 .. Len(c.keys)
              /\ \A i \in DOMAIN c.keys :
                   /\ c.keys[i].of \in Seq(Trees)
                   /\ Len(c.keys[i].of) \in Nat
                   /\ DOMAIN c.keys[i].of = 1 .. Len(c.keys[i].of)
                   /\ \A j \in DOMAIN c.keys[i].of :
                        /\ c.keys[i].of[j] \in Trees
                        /\ Depth[c.keys[i].of[j]] < Depth[c]
<1>1. Depth \in [Trees -> Nat]
  BY TreesAssumption
<1>2. c.type \in Leaves => c.type # "dict"
  BY DEF Leaves
<1>3. \/ c.type \in Leaves /\ c.key \in Fields
      \/ /\ c.type = "dict"
         /\ IsSequence(c.keys)
         /\ \A g \in Range(c.keys) :
              /\ IsSequence(g.of)
              /\ \A child \in Range(g.of) : child \in Trees /\ Depth[child] < Depth[c]
  BY TreesAssumption
<1>4. ASSUME c.type = "dict"
      PROVE  /\ Len(c.keys) \in Nat /\ DOMAIN c.keys = 1 .. Len(c.keys)
             /\ \A i \in DOMAIN c.keys :
                  /\ c.keys[i].of \in Seq(Trees)
                  /\ Len(c.keys[i].of) \in Nat
                  /\ DOMAIN c.keys[i].of = 1 .. Len(c.keys[i].of)
                  /\ \A j \in DOMAIN c.keys[i].of :
                       /\ c.keys[i].of[j] \in Trees
                       /\ Depth[c.keys[i].of[j]] < Depth[c]
  <2>1. c.keys \in Seq(Range(c.keys))
    BY <1>2, <1>3, <1>4 DEF IsSequence
  <2>2. ASSUME NEW i \in DOMAIN c.keys
        PROVE  /\ c.keys[i].of \in Seq(Trees)
               /\ Len(c.keys[i].of) \in Nat
               /\ DOMAIN c.keys[i].of = 1 .. Len(c.keys[i].of)
               /\ \A j \in DOMAIN c.keys[i].of :
                    /\ c.keys[i].of[j] \in Trees
                    /\ Depth[c.keys[i].of[j]] < Depth[c]
    <3> DEFINE of == c.keys[i].of
    <3>1. c.keys[i] \in Range(c.keys)
      BY DEF Range
    <3>2. of \in Seq(Range(of)) /\ \A child \in Range(of) : child \in Trees /\ Depth[child] < Depth[c]
      BY <1>2, <1>3, <1>4, <3>1 DEF IsSequence
    <3>3. \A j \in DOMAIN of : of[j] \in Range(of)
      BY DEF Range
    <3> HIDE DEF of
    <3>4. Len(of) \in Nat /\ DOMAIN of = 1 .. Len(of)
      BY <3>2
    <3>5. of \in Seq(Trees)
      <4>1. \A j \in 1 .. Len(of) : of[j] \in Trees
        BY <3>2, <3>3, <3>4
      <4> QED BY <3>2, <3>4, <4>1
    <3> QED BY <3>2, <3>3, <3>4, <3>5 DEF of
  <2> QED BY <2>1, <2>2
<1> QED BY <1>1, <1>2, <1>3, <1>4

VerdictSet == {"true", "false", "raises"}

LEMMA LeafVerdict ==
  ASSUME NEW c \in Trees, c.type # "dict", NEW ctx
  PROVE  Leaf(c, ctx) \in VerdictSet
BY TreeShape DEF Leaf, Leaves, TimeInState, MetricThreshold, DependencyCheck, StatesAndCounts,
     MetadataMatch, Verdict, VerdictSet

LEMMA GroupVerdict ==
  ASSUME NEW op, NEW verdicts
  PROVE  Group(op, verdicts) \in VerdictSet
BY DEF Group, Combine, Verdict, VerdictSet

\* One step of the recursion of Evaluate.
EvaluateStep(c, g, ctx) ==
  IF c.type # "dict" THEN Leaf(c, ctx)
  ELSE IF Len(c.keys) # 1 THEN "false"
  ELSE Group(c.keys[1].op, [i \in DOMAIN c.keys[1].of |-> g[c.keys[1].of[i]]])

LEMMA Evaluation ==
  ASSUME NEW ctx
  PROVE  /\ Evaluate(ctx) \in [Trees -> VerdictSet]
         /\ \A c \in Trees : Evaluate(ctx)[c] = EvaluateStep(c, Evaluate(ctx), ctx)
<1> DEFINE Fs == [Trees -> VerdictSet]
           F == [p \in Trees \X Fs |-> EvaluateStep(p[1], p[2], ctx)]
<1>1. F \in [Trees \X Fs -> VerdictSet]
  <2>1. ASSUME NEW c \in Trees, NEW g PROVE EvaluateStep(c, g, ctx) \in VerdictSet
    BY LeafVerdict, GroupVerdict DEF EvaluateStep, VerdictSet
  <2> QED BY <2>1
<1>2. \A c \in Trees, g \in Fs : F[<<c, g>>] = EvaluateStep(c, g, ctx)
  OBVIOUS
<1>3. ASSUME NEW c \in Trees, NEW g \in Fs, NEW h \in Fs,
             \A d \in Trees : Depth[d] < Depth[c] => g[d] = h[d]
      PROVE  F[<<c, g>>] = F[<<c, h>>]
  <2> HIDE DEF F
  <2>1. CASE c.type # "dict" \/ Len(c.keys) # 1
    BY <1>2, <2>1 DEF EvaluateStep
  <2>2. CASE c.type = "dict" /\ Len(c.keys) = 1
    <3>1. 1 \in DOMAIN c.keys
      BY <2>2, TreeShape
    <3>2. \A i \in DOMAIN c.keys[1].of : g[c.keys[1].of[i]] = h[c.keys[1].of[i]]
      BY <1>3, <2>2, <3>1, TreeShape
    <3>3. [i \in DOMAIN c.keys[1].of |-> g[c.keys[1].of[i]]]
            = [i \in DOMAIN c.keys[1].of |-> h[c.keys[1].of[i]]]
      BY <3>2
    <3>4. EvaluateStep(c, g, ctx) = EvaluateStep(c, h, ctx)
      BY Zenon, <3>3 DEF EvaluateStep
    <3> QED BY <1>2, <3>4
  <2> QED BY <2>1, <2>2
<1>4. \E g \in Fs : \A c \in Trees : g[c] = F[<<c, g>>]
  <2>1. Descends(F, Trees, VerdictSet, Depth)
    <3> HIDE DEF F
    <3> QED BY <1>3 DEF Descends
  <2>2. "true" \in VerdictSet /\ Depth \in [Trees -> Nat]
    BY TreesAssumption DEF VerdictSet
  <2> HIDE DEF F
  <2>3. IsRecursion(F, Trees, VerdictSet, Depth)
    BY <1>1, <2>1, <2>2 DEF IsRecursion
  <2> QED BY <2>3, Recursion DEF IsSolvable
<1> HIDE DEF F
<1>5. PICK g \in Fs : \A c \in Trees : g[c] = EvaluateStep(c, g, ctx)
  BY <1>2, <1>4
<1> DEFINE Solution(e) == e = [c \in Trees |-> EvaluateStep(c, e, ctx)]
<1>6. Evaluate(ctx) = CHOOSE e : Solution(e)
  BY DEF Evaluate, EvaluateStep
<1>7. Solution(g)
  BY <1>5
<1>8. Solution(CHOOSE e : Solution(e))
  <2> HIDE DEF Solution
  <2> QED BY <1>7
<1>9. Evaluate(ctx) = [c \in Trees |-> EvaluateStep(c, Evaluate(ctx), ctx)]
  BY <1>6, <1>8
<1> QED
  <2>1. \A c \in Trees : EvaluateStep(c, Evaluate(ctx), ctx) \in VerdictSet
    BY LeafVerdict, GroupVerdict DEF EvaluateStep, VerdictSet
  <2> DEFINE e == Evaluate(ctx)
  <2>2. e = [c \in Trees |-> EvaluateStep(c, e, ctx)]
    BY <1>9
  <2> HIDE DEF e
  <2>3. \A c \in Trees : EvaluateStep(c, e, ctx) \in VerdictSet
    BY <2>1 DEF e
  <2>4. e \in [Trees -> VerdictSet]
    BY <2>2, <2>3
  <2>5. \A c \in Trees : e[c] = EvaluateStep(c, e, ctx)
    BY <2>2
  <2> QED BY <2>4, <2>5 DEF e

WellFormedStep(c, g) ==
  IF c.type # "dict" THEN c.type # "dependency_check" /\ c.value.kind # "overflow"
  ELSE /\ Len(c.keys) = 1
       /\ LET k == c.keys[1]
          IN /\ IF k.op = "NOT" THEN Len(k.of) = 1 ELSE k.of # <<>>
             /\ \A i \in DOMAIN k.of : g[k.of[i]]

CautiousStep(c, g) ==
  IF c.type # "dict" THEN c.operator # "!="
  ELSE \A i \in DOMAIN c.keys :
         /\ c.keys[i].op # "NOT" /\ c.keys[i].of # <<>>
         /\ \A j \in DOMAIN c.keys[i].of : g[c.keys[i].of[j]]

TruthOf(g, is, b) ==
  IF g.op = "NOT" THEN \A i \in DOMAIN g.of : is[g.of[i]][~ b]
  ELSE IF (g.op = "AND") = b THEN \A i \in DOMAIN g.of : is[g.of[i]][b]
  ELSE \E i \in DOMAIN g.of : is[g.of[i]][b]

TruthStep(c, is, ctx) ==
  [b \in BOOLEAN |->
     IF c.type # "dict" THEN (Leaf(c, ctx) = "true") = b
     ELSE \A k \in DOMAIN c.keys : TruthOf(c.keys[k], is, b)]

LEMMA WellFormedness ==
  \A c \in Trees : WellFormed[c] = WellFormedStep(c, WellFormed)
<1> DEFINE Fs == [Trees -> BOOLEAN]
           F == [p \in Trees \X Fs |-> WellFormedStep(p[1], p[2])]
<1>1. F \in [Trees \X Fs -> BOOLEAN]
  BY Zenon DEF WellFormedStep
<1>2. \A c \in Trees, g \in Fs : F[<<c, g>>] = WellFormedStep(c, g)
  BY Zenon
<1>3. ASSUME NEW c \in Trees, NEW g \in Fs, NEW h \in Fs,
             \A d \in Trees : Depth[d] < Depth[c] => g[d] = h[d]
      PROVE  F[<<c, g>>] = F[<<c, h>>]
  <2> HIDE DEF F
  <2>1. CASE c.type # "dict" \/ Len(c.keys) # 1
    <3>1. WellFormedStep(c, g) = WellFormedStep(c, h)
      BY Zenon, <2>1 DEF WellFormedStep
    <3> QED BY Zenon, <1>2, <3>1
  <2>2. CASE c.type = "dict" /\ Len(c.keys) = 1
    <3>1. 1 \in DOMAIN c.keys
      BY <2>2, TreeShape
    <3>2. \A i \in DOMAIN c.keys[1].of : g[c.keys[1].of[i]] = h[c.keys[1].of[i]]
      BY <1>3, <2>2, <3>1, TreeShape
    <3>3. WellFormedStep(c, g) = WellFormedStep(c, h)
      BY Zenon, <3>2 DEF WellFormedStep
    <3> QED BY Zenon, <1>2, <3>3
  <2> QED BY <2>1, <2>2
<1>4. PICK g \in Fs : \A c \in Trees : g[c] = WellFormedStep(c, g)
  <2>1. Depth \in [Trees -> Nat]
    BY TreesAssumption
  <2> HIDE DEF F
  <2>2. Descends(F, Trees, BOOLEAN, Depth)
    BY <1>3 DEF Descends
  <2>3. IsRecursion(F, Trees, BOOLEAN, Depth)
    BY <1>1, <2>1, <2>2 DEF IsRecursion
  <2>4. IsSolvable(F, Trees, BOOLEAN)
    BY <2>3, Recursion
  <2> QED BY Zenon, <1>2, <2>4 DEF IsSolvable
<1> DEFINE Solution(e) == e = [c \in Trees |-> WellFormedStep(c, e)]
<1>5. WellFormed = CHOOSE e : Solution(e)
  BY Zenon DEF WellFormed, WellFormedStep
<1>6. Solution(g)
  BY <1>4
<1>7. Solution(CHOOSE e : Solution(e))
  <2> HIDE DEF Solution
  <2> QED BY <1>6
<1>8. WellFormed = [c \in Trees |-> WellFormedStep(c, WellFormed)]
  BY Zenon, <1>5, <1>7
<1> QED BY Zenon, <1>8

LEMMA Caution ==
  \A c \in Trees : Cautious[c] = CautiousStep(c, Cautious)
<1> DEFINE Fs == [Trees -> BOOLEAN]
           F == [p \in Trees \X Fs |-> CautiousStep(p[1], p[2])]
<1>1. F \in [Trees \X Fs -> BOOLEAN]
  BY Zenon DEF CautiousStep
<1>2. \A c \in Trees, g \in Fs : F[<<c, g>>] = CautiousStep(c, g)
  BY Zenon
<1>3. ASSUME NEW c \in Trees, NEW g \in Fs, NEW h \in Fs,
             \A d \in Trees : Depth[d] < Depth[c] => g[d] = h[d]
      PROVE  F[<<c, g>>] = F[<<c, h>>]
  <2> HIDE DEF F
  <2>1. CASE c.type # "dict"
    <3>1. CautiousStep(c, g) = CautiousStep(c, h)
      BY Zenon, <2>1 DEF CautiousStep
    <3> QED BY Zenon, <1>2, <3>1
  <2>2. CASE c.type = "dict"
    <3>2. \A i \in DOMAIN c.keys : \A j \in DOMAIN c.keys[i].of :
            g[c.keys[i].of[j]] = h[c.keys[i].of[j]]
      BY <1>3, <2>2, TreeShape
    <3>3. CautiousStep(c, g) <=> CautiousStep(c, h)
      BY <2>2, <3>2 DEF CautiousStep
    <3>4. CautiousStep(c, g) \in BOOLEAN /\ CautiousStep(c, h) \in BOOLEAN
      BY Zenon DEF CautiousStep
    <3> QED BY Zenon, <1>2, <3>3, <3>4
  <2> QED BY <2>1, <2>2
<1>4. PICK g \in Fs : \A c \in Trees : g[c] = CautiousStep(c, g)
  <2>1. Depth \in [Trees -> Nat]
    BY TreesAssumption
  <2> HIDE DEF F
  <2>2. Descends(F, Trees, BOOLEAN, Depth)
    BY <1>3 DEF Descends
  <2>3. IsRecursion(F, Trees, BOOLEAN, Depth)
    BY <1>1, <2>1, <2>2 DEF IsRecursion
  <2>4. IsSolvable(F, Trees, BOOLEAN)
    BY <2>3, Recursion
  <2> QED BY Zenon, <1>2, <2>4 DEF IsSolvable
<1> DEFINE Solution(e) == e = [c \in Trees |-> CautiousStep(c, e)]
<1>5. Cautious = CHOOSE e : Solution(e)
  BY Zenon DEF Cautious, CautiousStep
<1>6. Solution(g)
  BY <1>4
<1>7. Solution(CHOOSE e : Solution(e))
  <2> HIDE DEF Solution
  <2> QED BY <1>6
<1>8. Cautious = [c \in Trees |-> CautiousStep(c, Cautious)]
  BY Zenon, <1>5, <1>7
<1> QED BY Zenon, <1>8

Truths == [BOOLEAN -> BOOLEAN]

LEMMA Truthfulness ==
  ASSUME NEW ctx
  PROVE  /\ Truth(ctx) \in [Trees -> Truths]
         /\ \A c \in Trees : Truth(ctx)[c] = TruthStep(c, Truth(ctx), ctx)
<1> DEFINE Fs == [Trees -> Truths]
           F == [p \in Trees \X Fs |-> TruthStep(p[1], p[2], ctx)]
<1>0. ASSUME NEW c, NEW g PROVE TruthStep(c, g, ctx) \in Truths
  BY Zenon DEF TruthStep, TruthOf, Truths
<1>1. F \in [Trees \X Fs -> Truths]
  BY Zenon, <1>0
<1>2. \A c \in Trees, g \in Fs : F[<<c, g>>] = TruthStep(c, g, ctx)
  BY Zenon
<1>3. ASSUME NEW c \in Trees, NEW g \in Fs, NEW h \in Fs,
             \A d \in Trees : Depth[d] < Depth[c] => g[d] = h[d]
      PROVE  F[<<c, g>>] = F[<<c, h>>]
  <2> HIDE DEF F
  <2>1. CASE c.type # "dict"
    <3>1. TruthStep(c, g, ctx) = TruthStep(c, h, ctx)
      BY Zenon, <2>1 DEF TruthStep
    <3> QED BY Zenon, <1>2, <3>1
  <2>2. CASE c.type = "dict"
    <3>2. \A i \in DOMAIN c.keys : \A j \in DOMAIN c.keys[i].of :
            g[c.keys[i].of[j]] = h[c.keys[i].of[j]]
      BY <1>3, <2>2, TreeShape
    <3>3. ASSUME NEW b \in BOOLEAN
          PROVE  TruthStep(c, g, ctx)[b] <=> TruthStep(c, h, ctx)[b]
      <4>1. ASSUME NEW i \in DOMAIN c.keys
            PROVE  TruthOf(c.keys[i], g, b) <=> TruthOf(c.keys[i], h, b)
        BY Zenon, <3>2 DEF TruthOf
      <4> QED BY Zenon, <2>2, <4>1 DEF TruthStep
    <3>4. TruthStep(c, g, ctx) = TruthStep(c, h, ctx)
      BY <1>0, <3>3 DEF Truths
    <3> QED BY Zenon, <1>2, <3>4
  <2> QED BY <2>1, <2>2
<1>4. PICK g \in Fs : \A c \in Trees : g[c] = TruthStep(c, g, ctx)
  <2>1. Depth \in [Trees -> Nat] /\ [b \in BOOLEAN |-> TRUE] \in Truths
    BY TreesAssumption DEF Truths
  <2> HIDE DEF F
  <2>2. Descends(F, Trees, Truths, Depth)
    BY <1>3 DEF Descends
  <2>3. IsRecursion(F, Trees, Truths, Depth)
    BY <1>1, <2>1, <2>2 DEF IsRecursion
  <2>4. IsSolvable(F, Trees, Truths)
    BY <2>3, Recursion
  <2> QED BY Zenon, <1>2, <2>4 DEF IsSolvable
<1> DEFINE Solution(e) == e = [c \in Trees |-> TruthStep(c, e, ctx)]
<1>5. Truth(ctx) = CHOOSE e : Solution(e)
  BY Zenon DEF Truth, TruthStep, TruthOf
<1>6. Solution(g)
  BY <1>4
<1>7. Solution(CHOOSE e : Solution(e))
  <2> HIDE DEF Solution
  <2> QED BY <1>6
<1>8. Truth(ctx) = [c \in Trees |-> TruthStep(c, Truth(ctx), ctx)]
  BY Zenon, <1>5, <1>7
<1> QED BY Zenon, <1>0, <1>8

-----------------------------------------------------------------------------
(* What evaluations find *)

\* A group that is no NOT, of children none of which is true.
LEMMA GroupOfNoneTrue ==
  ASSUME NEW op, op # "NOT", NEW verdicts \in Seq({"false", "raises"}), verdicts # <<>>
  PROVE  Group(op, verdicts) # "true"
<1>1. 1 \in DOMAIN verdicts /\ \A i \in DOMAIN verdicts : verdicts[i] \in {"false", "raises"}
  OBVIOUS
<1>2. "true" \notin Range(verdicts)
  BY <1>1 DEF Range
<1>3. "raises" \in Range(verdicts) \/ "false" \in Range(verdicts)
  BY <1>1 DEF Range
<1> QED BY <1>2, <1>3 DEF Group, Combine, Verdict

\* The verdicts on the conditions of a list.
LEMMA VerdictsShape ==
  ASSUME NEW cs \in Seq(Trees), NEW ctx
  PROVE  /\ Verdicts(cs, ctx) \in Seq(VerdictSet)
         /\ Len(Verdicts(cs, ctx)) = Len(cs)
         /\ Len(cs) \in Nat /\ DOMAIN cs = 1 .. Len(cs)
         /\ \A i \in DOMAIN cs : Verdicts(cs, ctx)[i] = Evaluate(ctx)[cs[i]]
<1>1. Evaluate(ctx) \in [Trees -> VerdictSet]
  BY Evaluation
<1>2. \A i \in 1 .. Len(cs) : Evaluate(ctx)[cs[i]] \in VerdictSet
  BY <1>1
<1>3. Len(cs) \in Nat /\ DOMAIN cs = 1 .. Len(cs)
  OBVIOUS
<1>4. Verdicts(cs, ctx) = [i \in 1 .. Len(cs) |-> Evaluate(ctx)[cs[i]]]
  BY <1>3 DEF Verdicts
<1> QED BY <1>2, <1>3, <1>4

\* A list none of whose conditions is true, in a group that is no NOT.
LEMMA NoneTrue ==
  ASSUME NEW cs \in Seq(Trees), cs # <<>>, NEW ctx, NEW op, op # "NOT",
         \A i \in DOMAIN cs : Evaluate(ctx)[cs[i]] # "true"
  PROVE  Group(op, Verdicts(cs, ctx)) # "true"
<1> DEFINE vs == Verdicts(cs, ctx)
<1>1. vs \in Seq(VerdictSet) /\ Len(vs) = Len(cs) /\ Len(cs) \in Nat /\ DOMAIN cs = 1 .. Len(cs)
      /\ \A i \in DOMAIN cs : vs[i] # "true"
  BY VerdictsShape
<1> HIDE DEF vs
<1>2. vs \in Seq({"false", "raises"}) /\ vs # <<>>
  <2>1. \A i \in 1 .. Len(vs) : vs[i] \in {"false", "raises"}
    BY <1>1 DEF VerdictSet
  <2>2. Len(cs) # 0
    BY EmptySeq
  <2> QED BY <1>1, <2>1, <2>2
<1>3. Group(op, vs) # "true"
  BY <1>2, GroupOfNoneTrue
<1> QED BY <1>3 DEF vs

\* A context with a value, or None, at every key.
Complete(ctx) == Fields = DOMAIN ctx.metrics.at /\ Fields = DOMAIN ctx.metadata.at

LEMMA CautiousLeaf ==
  ASSUME NEW ctx, Complete(ctx), Unknown(ctx), NEW c \in Trees, c.type # "dict",
         c.operator # "!="
  PROVE  Leaf(c, ctx) # "true"
<1>1. c.type \in Leaves /\ c.key \in Fields
  BY TreeShape
<1>2. /\ IsMissing(ctx.since)
      /\ IsMissing(ctx.metrics.at[c.key])
      /\ IsMissing(ctx.metadata.at[c.key])
  BY <1>1 DEF Complete, Unknown
<1> QED
  BY <1>1, <1>2 DEF Leaf, Leaves, TimeInState, MetricThreshold, DependencyCheck, StatesAndCounts,
       MetadataMatch, MetadataHolds, Verdict

LEMMA CautiousTree ==
  ASSUME NEW ctx, Complete(ctx), Unknown(ctx), NEW c \in Trees, Cautious[c]
  PROVE  Evaluate(ctx)[c] # "true"
<1> DEFINE Bad == {d \in Trees : Cautious[d] /\ Evaluate(ctx)[d] = "true"}
<1> SUFFICES ASSUME Bad # {} PROVE FALSE
  OBVIOUS
<1>1. PICK d \in Bad : \A e \in Bad : ~ (Depth[e] < Depth[d])
  <2>1. Bad \in SUBSET Trees /\ Depth \in [Trees -> Nat]
    BY TreesAssumption
  <2> HIDE DEF Bad
  <2> QED BY <2>1, Shallowest
<1>2. d \in Trees /\ CautiousStep(d, Cautious) /\ EvaluateStep(d, Evaluate(ctx), ctx) = "true"
  BY Caution, Evaluation
<1>3. \A e \in Trees : Depth[e] < Depth[d] /\ Cautious[e] => Evaluate(ctx)[e] # "true"
  BY <1>1
<1> HIDE DEF Bad
<1>4. CASE d.type # "dict"
  BY <1>2, <1>4, CautiousLeaf DEF CautiousStep, EvaluateStep
<1>5. CASE d.type = "dict"
  <2> DEFINE g == d.keys[1]
  <2>1. Len(d.keys) = 1 /\ 1 \in DOMAIN d.keys
    BY <1>2, <1>5, TreeShape DEF EvaluateStep
  <2>2. /\ g.op # "NOT" /\ g.of # <<>>
        /\ g.of \in Seq(Trees)
        /\ \A j \in DOMAIN g.of : Evaluate(ctx)[g.of[j]] # "true"
    BY <1>2, <1>3, <1>5, <2>1, TreeShape DEF CautiousStep
  <2>3. Group(g.op, Verdicts(g.of, ctx)) = "true"
    BY <1>2, <1>5, <2>1 DEF EvaluateStep, Verdicts
  <2> HIDE DEF g
  <2> QED BY <2>2, <2>3, NoneTrue
<1> QED BY <1>4, <1>5

LEMMA CautiousConditions ==
  ASSUME NEW ctx, Complete(ctx), Unknown(ctx), NEW cs \in Seq(Trees), cs # <<>>,
         \A k \in DOMAIN cs : Cautious[cs[k]]
  PROVE  Conditions(cs, ctx) # "true"
<1>1. DOMAIN cs = 1 .. Len(cs) /\ \A k \in DOMAIN cs : cs[k] \in Trees
  OBVIOUS
<1>2. CASE Len(cs) = 1 /\ cs[1].type = "dict"
  <2> DEFINE c == cs[1]
             g == c.keys[1]
  <2>1. c \in Trees /\ c.type = "dict" /\ Cautious[c]
    BY <1>1, <1>2
  <2> HIDE DEF c
  <2>2. CautiousStep(c, Cautious)
    BY <2>1, Caution
  <2>3. CASE c.keys = <<>>
    BY <1>2, <2>3 DEF Conditions, c
  <2>4. CASE c.keys # <<>>
    <3>1. 1 \in DOMAIN c.keys
      BY <2>1, <2>4, TreeShape, EmptySeq
    <3>2. /\ g.op # "NOT" /\ g.of # <<>> /\ g.of \in Seq(Trees)
          /\ \A j \in DOMAIN g.of : g.of[j] \in Trees /\ Cautious[g.of[j]]
      BY <2>1, <2>2, <3>1, TreeShape DEF CautiousStep
    <3>3. Conditions(cs, ctx) = Group(g.op, Verdicts(g.of, ctx))
      BY <1>2, <2>4 DEF Conditions, c
    <3> HIDE DEF g
    <3>4. \A j \in DOMAIN g.of : Evaluate(ctx)[g.of[j]] # "true"
      BY <3>2, CautiousTree
    <3> QED BY <3>2, <3>3, <3>4, NoneTrue
  <2> QED BY <2>3, <2>4
<1>3. CASE ~ (Len(cs) = 1 /\ cs[1].type = "dict")
  <2>1. Conditions(cs, ctx) = Group("AND", Verdicts(cs, ctx))
    BY <1>3 DEF Conditions
  <2>2. \A k \in DOMAIN cs : Evaluate(ctx)[cs[k]] # "true"
    BY <1>1, CautiousTree
  <2> QED BY <2>1, <2>2, NoneTrue
<1> QED BY <1>2, <1>3

LEMMA LeafTruth ==
  ASSUME NEW c \in Trees, c.type # "dict", c.type # "dependency_check",
         c.value.kind # "overflow", NEW ctx
  PROVE  Leaf(c, ctx) \in {"true", "false"}
BY TreeShape DEF Leaf, Leaves, TimeInState, MetricThreshold, MetadataMatch, Verdict

\* What a group of children that are all true or false is, and the negation of it.
LEMMA GroupTruth ==
  ASSUME NEW ctx, NEW g, g.of \in Seq(Trees),
         IF g.op = "NOT" THEN Len(g.of) = 1 ELSE g.of # <<>>,
         \A i \in DOMAIN g.of :
           /\ Evaluate(ctx)[g.of[i]] = Verdict(Truth(ctx)[g.of[i]][TRUE])
           /\ Truth(ctx)[g.of[i]][FALSE] = ~ Truth(ctx)[g.of[i]][TRUE]
  PROVE  /\ Group(g.op, Verdicts(g.of, ctx)) = Verdict(TruthOf(g, Truth(ctx), TRUE))
         /\ TruthOf(g, Truth(ctx), FALSE) <=> ~ TruthOf(g, Truth(ctx), TRUE)
<1> DEFINE vs == Verdicts(g.of, ctx)
           is(i) == Truth(ctx)[g.of[i]][TRUE]
           isnt(i) == Truth(ctx)[g.of[i]][FALSE]
<1>1. /\ vs \in Seq(VerdictSet) /\ Len(vs) = Len(g.of) /\ Len(g.of) \in Nat
      /\ DOMAIN g.of = 1 .. Len(g.of) /\ DOMAIN vs = DOMAIN g.of
      /\ \A i \in DOMAIN g.of : vs[i] = Verdict(is(i))
  <2>1. /\ vs \in Seq(VerdictSet) /\ Len(vs) = Len(g.of) /\ Len(g.of) \in Nat
        /\ DOMAIN g.of = 1 .. Len(g.of)
        /\ \A i \in DOMAIN g.of : vs[i] = Evaluate(ctx)[g.of[i]]
    BY VerdictsShape
  <2> HIDE DEF vs
  <2>2. DOMAIN vs = 1 .. Len(vs)
    BY <2>1
  <2>3. \A i \in DOMAIN g.of : vs[i] = Verdict(is(i))
    BY Zenon, <2>1
  <2> HIDE DEF is
  <2> QED BY <2>1, <2>2, <2>3
<1>2. \A i \in DOMAIN g.of : isnt(i) <=> ~ is(i)
  BY Zenon
<1>3. TruthOf(g, Truth(ctx), TRUE) <=>
        IF g.op = "NOT" THEN \A i \in DOMAIN g.of : isnt(i)
        ELSE IF g.op = "AND" THEN \A i \in DOMAIN g.of : is(i)
        ELSE \E i \in DOMAIN g.of : is(i)
  BY Zenon DEF TruthOf
<1>4. TruthOf(g, Truth(ctx), FALSE) <=>
        IF g.op = "NOT" THEN \A i \in DOMAIN g.of : is(i)
        ELSE IF g.op = "AND" THEN \E i \in DOMAIN g.of : isnt(i)
        ELSE \A i \in DOMAIN g.of : isnt(i)
  BY Zenon DEF TruthOf
<1> HIDE DEF vs, is, isnt
<1>5. \A i \in DOMAIN vs : vs[i] = IF is(i) THEN "true" ELSE "false"
  BY <1>1 DEF Verdict
<1>6. CASE g.op = "NOT"
  <2>1. DOMAIN g.of = {1} /\ Len(vs) = 1
    <3>1. Len(g.of) = 1
      BY <1>6
    <3> QED BY <1>1, <3>1
  <2>2. Group(g.op, vs) = Verdict(~ is(1))
    BY <1>1, <1>5, <1>6, <2>1 DEF Group, Verdict
  <2>3. TruthOf(g, Truth(ctx), TRUE) <=> ~ is(1)
    BY <1>2, <1>3, <1>6, <2>1
  <2>4. TruthOf(g, Truth(ctx), FALSE) <=> is(1)
    BY <1>4, <1>6, <2>1
  <2> QED BY <2>2, <2>3, <2>4 DEF Verdict, vs
<1>7. CASE g.op # "NOT"
  <2>1. vs # <<>>
    BY <1>1, <1>7, EmptySeq
  <2>2. "raises" \notin Range(vs)
    BY <1>5 DEF Range
  <2>3. Group(g.op, vs)
          = Verdict(IF g.op = "AND" THEN "false" \notin Range(vs) ELSE "true" \in Range(vs))
    BY <1>7, <2>1, <2>2 DEF Group, Combine
  <2>4. "false" \notin Range(vs) <=> \A i \in DOMAIN g.of : is(i)
    BY <1>1, <1>5 DEF Range
  <2>5. "true" \in Range(vs) <=> \E i \in DOMAIN g.of : is(i)
    BY <1>1, <1>5 DEF Range
  <2>6. TruthOf(g, Truth(ctx), FALSE) <=> ~ TruthOf(g, Truth(ctx), TRUE)
    BY <1>2, <1>3, <1>4, <1>7
  <2> QED BY <1>3, <1>7, <2>3, <2>4, <2>5, <2>6 DEF Verdict, vs
<1> QED BY <1>6, <1>7

\* The value of a tree, and that of its negation.
IsRight(c, ctx) ==
  /\ Evaluate(ctx)[c] = Verdict(Truth(ctx)[c][TRUE])
  /\ Truth(ctx)[c][FALSE] = ~ Truth(ctx)[c][TRUE]

LEMMA TreeTruth ==
  ASSUME NEW ctx, NEW c \in Trees, WellFormed[c]
  PROVE  IsRight(c, ctx)
<1> DEFINE Bad == {d \in Trees : WellFormed[d] /\ ~ IsRight(d, ctx)}
<1> SUFFICES ASSUME Bad # {} PROVE FALSE
  OBVIOUS
<1>1. PICK d \in Bad : \A e \in Bad : ~ (Depth[e] < Depth[d])
  <2>1. Bad \in SUBSET Trees /\ Depth \in [Trees -> Nat]
    BY TreesAssumption
  <2> HIDE DEF Bad
  <2> QED BY <2>1, Shallowest
<1>2. d \in Trees /\ WellFormedStep(d, WellFormed) /\ ~ IsRight(d, ctx)
  BY WellFormedness
<1>3. \A e \in Trees : Depth[e] < Depth[d] /\ WellFormed[e] => IsRight(e, ctx)
  BY <1>1
<1> HIDE DEF Bad
<1>4. /\ Truth(ctx)[d] \in Truths
      /\ Truth(ctx)[d] = TruthStep(d, Truth(ctx), ctx)
      /\ Evaluate(ctx)[d] = EvaluateStep(d, Evaluate(ctx), ctx)
  BY <1>2, Evaluation, Truthfulness
<1>5. CASE d.type # "dict"
  <2>1. Leaf(d, ctx) \in {"true", "false"} /\ Evaluate(ctx)[d] = Leaf(d, ctx)
    BY <1>2, <1>4, <1>5, LeafTruth DEF WellFormedStep, EvaluateStep
  <2>2. /\ Truth(ctx)[d][TRUE] = (Leaf(d, ctx) = "true")
        /\ Truth(ctx)[d][FALSE] = (Leaf(d, ctx) # "true")
    BY Zenon, <1>4, <1>5 DEF TruthStep
  <2> QED BY <1>2, <2>1, <2>2 DEF IsRight, Verdict
<1>6. CASE d.type = "dict"
  <2> DEFINE g == d.keys[1]
  <2>1. Len(d.keys) = 1 /\ DOMAIN d.keys = {1}
    BY <1>2, <1>6, TreeShape DEF WellFormedStep
  <2>2. /\ g.of \in Seq(Trees)
        /\ IF g.op = "NOT" THEN Len(g.of) = 1 ELSE g.of # <<>>
        /\ \A i \in DOMAIN g.of : IsRight(g.of[i], ctx)
    BY <1>2, <1>3, <1>6, <2>1, TreeShape DEF WellFormedStep
  <2>3. Evaluate(ctx)[d] = Group(g.op, Verdicts(g.of, ctx))
    BY <1>4, <1>6, <2>1 DEF EvaluateStep, Verdicts
  <2>4. \A b \in BOOLEAN : Truth(ctx)[d][b] <=> TruthOf(g, Truth(ctx), b)
    <3>1. \A b \in BOOLEAN :
            Truth(ctx)[d][b] <=> \A k \in DOMAIN d.keys : TruthOf(d.keys[k], Truth(ctx), b)
      BY Zenon, <1>4, <1>6 DEF TruthStep
    <3>2. \A k \in DOMAIN d.keys : k = 1
      BY <2>1
    <3>3. 1 \in DOMAIN d.keys
      BY <2>1
    <3> QED BY Zenon, <3>1, <3>2, <3>3
  <2> HIDE DEF g
  <2>5. /\ Group(g.op, Verdicts(g.of, ctx)) = Verdict(TruthOf(g, Truth(ctx), TRUE))
        /\ TruthOf(g, Truth(ctx), FALSE) <=> ~ TruthOf(g, Truth(ctx), TRUE)
    BY <2>2, GroupTruth DEF IsRight
  <2>6. /\ Truth(ctx)[d][TRUE] <=> TruthOf(g, Truth(ctx), TRUE)
        /\ Truth(ctx)[d][FALSE] <=> TruthOf(g, Truth(ctx), FALSE)
    BY Zenon, <2>4
  <2>7. Truth(ctx)[d][FALSE] = ~ Truth(ctx)[d][TRUE]
    <3>1. Truth(ctx)[d][FALSE] \in BOOLEAN /\ Truth(ctx)[d][TRUE] \in BOOLEAN
      BY <1>4 DEF Truths
    <3> QED BY Zenon, <2>5, <2>6, <3>1
  <2>8. Evaluate(ctx)[d] = Verdict(Truth(ctx)[d][TRUE])
    BY <2>3, <2>5, <2>6 DEF Verdict
  <2> QED BY <1>2, <2>7, <2>8 DEF IsRight
<1> QED BY <1>5, <1>6

\* The conditions of a policy are true when all of them are.
LEMMA ConditionsTruth ==
  ASSUME NEW ctx, NEW cs \in Seq(Trees), \A k \in DOMAIN cs : WellFormed[cs[k]]
  PROVE  Conditions(cs, ctx) = Verdict(\A k \in DOMAIN cs : Truth(ctx)[cs[k]][TRUE])
<1>1. DOMAIN cs = 1 .. Len(cs) /\ Len(cs) \in Nat /\ \A k \in DOMAIN cs : cs[k] \in Trees
  OBVIOUS
<1>2. \A k \in DOMAIN cs : IsRight(cs[k], ctx)
  BY <1>1, TreeTruth
<1>3. CASE cs = <<>>
  BY <1>3 DEF Conditions, Verdict
<1>4. CASE Len(cs) = 1 /\ cs[1].type = "dict"
  <2> DEFINE c == cs[1]
  <2>1. c \in Trees /\ WellFormedStep(c, WellFormed) /\ DOMAIN cs = {1} /\ cs # <<>>
    BY <1>1, <1>4, WellFormedness, EmptySeq
  <2>2. Len(c.keys) = 1 /\ c.keys # <<>>
    BY <1>4, <2>1, TreeShape, EmptySeq DEF WellFormedStep
  <2>3. Conditions(cs, ctx) = Group(c.keys[1].op, Verdicts(c.keys[1].of, ctx))
    BY <1>4, <2>1, <2>2 DEF Conditions
  <2>4. Evaluate(ctx)[c] = Group(c.keys[1].op, Verdicts(c.keys[1].of, ctx))
    BY <1>4, <2>1, <2>2, Evaluation DEF EvaluateStep, Verdicts
  <2>5. Evaluate(ctx)[c] = Verdict(Truth(ctx)[c][TRUE])
    BY <1>2, <2>1 DEF IsRight
  <2>6. (\A k \in DOMAIN cs : Truth(ctx)[cs[k]][TRUE]) <=> Truth(ctx)[c][TRUE]
    BY Zenon, <2>1
  <2> QED BY <2>3, <2>4, <2>5, <2>6 DEF Verdict
<1>5. CASE cs # <<>> /\ ~ (Len(cs) = 1 /\ cs[1].type = "dict")
  <2> DEFINE g == [op |-> "AND", of |-> cs]
  <2>1. Conditions(cs, ctx) = Group(g.op, Verdicts(g.of, ctx))
    BY <1>5 DEF Conditions
  <2>2. TruthOf(g, Truth(ctx), TRUE) <=> \A k \in DOMAIN cs : Truth(ctx)[cs[k]][TRUE]
    BY Zenon DEF TruthOf
  <2>3. /\ g.op = "AND" /\ g.of \in Seq(Trees) /\ g.of # <<>>
        /\ \A i \in DOMAIN g.of : IsRight(g.of[i], ctx)
    BY <1>2, <1>5
  <2> HIDE DEF g
  <2>4. Group(g.op, Verdicts(g.of, ctx)) = Verdict(TruthOf(g, Truth(ctx), TRUE))
    BY <2>3, GroupTruth DEF IsRight
  <2> QED BY <2>1, <2>2, <2>4 DEF Verdict
<1> QED BY <1>3, <1>4, <1>5

-----------------------------------------------------------------------------
(* The matches *)

PolicyType == Policy(Seq(Trees))
Written    == [form : {"list"}, list : Seq(Trees)] \cup [form : {"dict"}, dict : Trees]
                \cup [form : {"other"}]
Contexts   == UNION {Range(agents) : agents \in AgentLists}
Pair       == [policy : PolicyType, agent : Contexts]

\* The order in which the loops find the matches is a strict total order.
LEMMA SoonerIsOrder ==
  ASSUME NEW a \in Nat \X Nat, NEW b \in Nat \X Nat, NEW c \in Nat \X Nat
  PROVE  /\ ~ Sooner(a, a)
         /\ Sooner(a, b) /\ Sooner(b, c) => Sooner(a, c)
         /\ a # b => Sooner(a, b) \/ Sooner(b, a)
<1>1. a[1] \in Nat /\ a[2] \in Nat /\ b[1] \in Nat /\ b[2] \in Nat /\ c[1] \in Nat /\ c[2] \in Nat
  OBVIOUS
<1>2. a[1] = b[1] /\ a[2] = b[2] => a = b
  OBVIOUS
<1> QED BY <1>1, <1>2 DEF Sooner

Before(m, found) == {l \in found : Sooner(l, m)}

\* So there is one match of each rank.
LEMMA OneOfEachRank ==
  ASSUME NEW found \in SUBSET (Nat \X Nat), IsFiniteSet(found)
  PROVE  /\ Cardinality(found) \in Nat
         /\ \A m \in found : Rank(m, found) \in 0 .. Cardinality(found) - 1
         /\ \A n \in 0 .. Cardinality(found) - 1 : \E m \in found : Rank(m, found) = n
         /\ \A l \in found, m \in found : Rank(l, found) = Rank(m, found) => l = m
<1> DEFINE N == Cardinality(found)
<1>1. N \in Nat
  BY FS_CardinalityType
<1>2. ASSUME NEW m \in found
      PROVE  /\ IsFiniteSet(Before(m, found)) /\ Cardinality(Before(m, found)) \in Nat
             /\ Rank(m, found) = Cardinality(Before(m, found))
             /\ Rank(m, found) \in 0 .. N - 1
  <2>1. Before(m, found) \in SUBSET found
    BY DEF Before
  <2>2. IsFiniteSet(Before(m, found))
    BY <2>1, FS_Subset
  <2>3. Cardinality(Before(m, found)) \in Nat
    BY <2>2, FS_CardinalityType
  <2>4. Cardinality(Before(m, found)) <= N
    BY <2>1, FS_Subset
  <2>5. Cardinality(Before(m, found)) # N
    <3>1. m \notin Before(m, found)
      BY SoonerIsOrder DEF Before
    <3> QED BY <2>1, <3>1, FS_Subset
  <2>6. Rank(m, found) = Cardinality(Before(m, found))
    BY DEF Rank, Before
  <2> QED BY <1>1, <2>2, <2>3, <2>4, <2>5, <2>6
<1>3. ASSUME NEW l \in found, NEW m \in found, Sooner(l, m)
      PROVE  Rank(l, found) < Rank(m, found)
  <2>1. Before(l, found) \in SUBSET Before(m, found)
    BY <1>3, SoonerIsOrder DEF Before
  <2>2. l \in Before(m, found) /\ l \notin Before(l, found)
    BY <1>3, SoonerIsOrder DEF Before
  <2>3. /\ Cardinality(Before(l, found)) <= Cardinality(Before(m, found))
        /\ Cardinality(Before(l, found)) # Cardinality(Before(m, found))
    BY <1>2, <2>1, <2>2, FS_Subset
  <2> QED BY <1>2, <2>3
<1>4. ASSUME NEW l \in found, NEW m \in found, Rank(l, found) = Rank(m, found)
      PROVE  l = m
  <2>1. ~ Sooner(l, m) /\ ~ Sooner(m, l)
    BY <1>2, <1>3, <1>4
  <2> QED BY <2>1, SoonerIsOrder
<1>5. ASSUME NEW n \in 0 .. N - 1
      PROVE  \E m \in found : Rank(m, found) = n
  <2> DEFINE f == [m \in found |-> Rank(m, found)]
  <2>1. f \in [found -> 0 .. N - 1]
    BY <1>2
  <2>2. f \in Injection(found, 0 .. N - 1)
    BY <1>4, <2>1 DEF Injection, IsInjective
  <2>3. IsFiniteSet(0 .. N - 1) /\ Cardinality(0 .. N - 1) = N
    BY <1>1, FS_Interval
  <2> HIDE DEF f
  <2>4. f \in Surjection(found, 0 .. N - 1)
    BY <2>2, <2>3, FS_Injection
  <2> QED BY <2>4 DEF f, Surjection
<1> QED BY <1>1, <1>2, <1>4, <1>5

\* The pairs that match.
Found(ps, agents) ==
  {[policy |-> ps[m[1]], agent |-> agents[m[2]]] : m \in Matching(ps, agents)}

\* The matches are those pairs, no more and no less.
LEMMA MatchesFound ==
  ASSUME NEW ps \in Seq(PolicyType), NEW agents \in Seq(Contexts)
  PROVE  /\ Matches(ps, agents) \in Seq(Pair)
         /\ Range(Matches(ps, agents)) = Found(ps, agents)
<1> DEFINE found == Matching(ps, agents)
           N == Cardinality(found)
           The(n) == CHOOSE m \in found : Rank(m, found) = n - 1
           Of(m) == [policy |-> ps[m[1]], agent |-> agents[m[2]]]
<1>1. /\ DOMAIN ps = 1 .. Len(ps) /\ Len(ps) \in Nat
      /\ DOMAIN agents = 1 .. Len(agents) /\ Len(agents) \in Nat
      /\ \A i \in DOMAIN ps : ps[i] \in PolicyType
      /\ \A i \in DOMAIN agents : agents[i] \in Contexts
  OBVIOUS
<1>2. found \in SUBSET ((1 .. Len(ps)) \X (1 .. Len(agents)))
  <2>1. Active(ps) \in SUBSET (1 .. Len(ps))
    BY <1>1 DEF Active
  <2>2. found \in SUBSET (Active(ps) \X (1 .. Len(agents)))
    BY <1>1 DEF Matching
  <2> HIDE DEF found
  <2> QED BY <2>1, <2>2
<1>3. IsFiniteSet(found) /\ found \in SUBSET (Nat \X Nat)
  <2>1. IsFiniteSet(1 .. Len(ps)) /\ IsFiniteSet(1 .. Len(agents))
    BY <1>1, FS_Interval
  <2>2. IsFiniteSet((1 .. Len(ps)) \X (1 .. Len(agents)))
    BY <2>1, FS_Product
  <2>3. 1 .. Len(ps) \in SUBSET Nat /\ 1 .. Len(agents) \in SUBSET Nat
    BY <1>1
  <2> HIDE DEF found
  <2>4. found \in SUBSET (Nat \X Nat)
    BY <1>2, <2>3
  <2> QED BY <1>2, <2>2, <2>4, FS_Subset
<1>4. ASSUME NEW m \in found PROVE Of(m) \in Pair
  <2>1. m[1] \in DOMAIN ps /\ m[2] \in DOMAIN agents
    <3> HIDE DEF found
    <3> QED BY <1>1, <1>2
  <2> QED BY <1>1, <2>1 DEF Pair
<1>5. Matches(ps, agents) = [n \in 1 .. N |-> Of(The(n))]
  BY DEF Matches
<1> HIDE DEF found, Of
<1>6. /\ N \in Nat
      /\ \A m \in found : Rank(m, found) \in 0 .. N - 1
      /\ \A n \in 0 .. N - 1 : \E m \in found : Rank(m, found) = n
      /\ \A l \in found, m \in found : Rank(l, found) = Rank(m, found) => l = m
  BY <1>3, OneOfEachRank
<1>7. ASSUME NEW n \in 1 .. N PROVE The(n) \in found /\ Rank(The(n), found) = n - 1
  <2>1. n - 1 \in 0 .. N - 1
    BY <1>6
  <2>2. \E m \in found : Rank(m, found) = n - 1
    BY <1>6, <2>1
  <2> QED BY <2>2
<1>8. ASSUME NEW m \in found PROVE \E n \in 1 .. N : The(n) = m
  <2> DEFINE n == Rank(m, found) + 1
  <2>1. n \in 1 .. N /\ Rank(m, found) = n - 1
    BY <1>6
  <2> HIDE DEF The, n
  <2>2. The(n) \in found /\ Rank(The(n), found) = n - 1
    BY <1>7, <2>1
  <2>3. The(n) = m
    BY <1>6, <2>1, <2>2
  <2> QED BY <2>1, <2>3
<1> HIDE DEF The, N
<1>9. Matches(ps, agents) \in Seq(Pair)
  <2>1. \A n \in 1 .. N : Of(The(n)) \in Pair
    BY <1>4, <1>7
  <2> QED BY <1>5, <1>6, <2>1
<1>10. Range(Matches(ps, agents)) = {Of(m) : m \in found}
  BY <1>5, <1>7, <1>8 DEF Range
<1> QED BY <1>9, <1>10 DEF Of, found, Found

-----------------------------------------------------------------------------
(* The engine *)

Entry      == [policy : PolicyType, outcomes : Nat]

\* The actions of a policy before the n-th whose handler does not raise.
Effective(policy, n) == {i \in 1 .. n - 1 : ~ HandlerRaises(policy.actions[i])}

RunType ==
  /\ run \in [phase : {"idle", "raised", "matched", "refused", "running", "posting",
                       "done", "cancelled"},
              agents : AgentLists \cup {<<>>}, pairs : Seq(Pair),
              at : Nat \ {0}, next : Nat \ {0}, outcomes : Nat]
  /\ audit \in Seq(Entry)

\* The outcomes of a policy whose actions were all tried.
OutcomesOf(policy) ==
  Cardinality({i \in DOMAIN policy.actions : ~ HandlerRaises(policy.actions[i])})

\* AuditFollowsActions, in these terms.
AuditRight ==
  /\ Len(audit) = run.at - 1
  /\ \A k \in DOMAIN audit :
       /\ audit[k].policy = run.pairs[k].policy
       /\ audit[k].outcomes = OutcomesOf(run.pairs[k].policy)

\* While a match is acted on, the actions before the next one are those that
\* ended or raised; an operator is awaited for an action that does not raise.
ExecutionInv ==
  /\ RunType
  /\ AuditRight
  /\ run.phase = "matched" => run.at = 1 /\ run.next = 1 /\ run.outcomes = 0
  /\ Busy =>
       /\ run.at <= Len(run.pairs)
       /\ run.next <= Len(Actions) + 1
       /\ run.outcomes = Cardinality(Effective(Match.policy, run.next))
  /\ run.phase = "posting" =>
       run.next <= Len(Actions) /\ ~ HandlerRaises(Actions[run.next])

\* The matches that are handed over.
LEMMA PairsShape ==
  ASSUME NEW pairs \in Seq(Pair)
  PROVE  /\ Len(pairs) \in Nat /\ DOMAIN pairs = 1 .. Len(pairs)
         /\ \A k \in DOMAIN pairs :
              /\ pairs[k].policy \in PolicyType
              /\ pairs[k].policy.actions \in Seq(STRING)
<1>1. Len(pairs) \in Nat /\ DOMAIN pairs = 1 .. Len(pairs) /\ \A k \in DOMAIN pairs : pairs[k] \in Pair
  OBVIOUS
<1>2. \A pair \in Pair : pair.policy \in PolicyType
  BY DEF Pair
<1>3. \A p \in PolicyType : p.actions \in Seq(STRING)
  BY DEF PolicyType, Policy
<1> QED
  BY <1>1, <1>2, <1>3

\* One action more is one outcome more, unless it raised.
LEMMA OneMoreOutcome ==
  ASSUME NEW policy, NEW n \in Nat \ {0}
  PROVE  Cardinality(Effective(policy, n + 1)) =
           IF HandlerRaises(policy.actions[n]) THEN Cardinality(Effective(policy, n))
           ELSE Cardinality(Effective(policy, n)) + 1
<1>1. IsFiniteSet(Effective(policy, n)) /\ n \notin Effective(policy, n)
  <2>1. IsFiniteSet(1 .. n - 1)
    BY FS_Interval
  <2>2. Effective(policy, n) \in SUBSET (1 .. n - 1)
    BY DEF Effective
  <2> QED
    BY <2>1, <2>2, FS_Subset
<1>2. CASE HandlerRaises(policy.actions[n])
  <2>1. Effective(policy, n + 1) = Effective(policy, n)
    BY <1>2 DEF Effective
  <2> QED
    BY <1>2, <2>1
<1>3. CASE ~ HandlerRaises(policy.actions[n])
  <2>1. Effective(policy, n + 1) = Effective(policy, n) \cup {n}
    BY <1>3 DEF Effective
  <2> QED
    BY <1>1, <1>3, <2>1, FS_AddElement
<1> QED
  BY <1>2, <1>3

LEMMA NoOutcomeYet == ASSUME NEW policy PROVE Cardinality(Effective(policy, 1)) = 0
<1>1. Effective(policy, 1) = {}
  BY DEF Effective
<1> QED
  BY <1>1, FS_EmptySet

LEMMA AuditIs == AuditRight <=> AuditFollowsActions
BY Zenon DEF AuditFollowsActions, AuditRight, OutcomesOf

LEMMA InitExecution == ExecutionInit => ExecutionInv
<1> SUFFICES ASSUME ExecutionInit PROVE ExecutionInv
  OBVIOUS
<1>1. run = NoRun /\ audit = <<>>
  BY DEF ExecutionInit
<1>2. AuditRight
  BY <1>1 DEF NoRun, AuditRight
<1> QED
  BY <1>1, <1>2 DEF NoRun, Busy, ExecutionInv, RunType

\* A new evaluation forgets the last one and its entries.
LEMMA EvaluationKeepsInv ==
  ASSUME NEW agents \in AgentLists,
         \/ EvaluationRaises(agents)
         \/ \E pairs \in Seq(Pair) : EvaluationReturns(agents, pairs)
  PROVE  ExecutionInv'
<1>1. PICK pairs \in Seq(Pair) :
        /\ \/ run' = [phase |-> "raised", agents |-> agents, pairs |-> pairs,
                     at |-> 1, next |-> 1, outcomes |-> 0]
           \/ run' = [phase |-> "matched", agents |-> agents, pairs |-> pairs,
                      at |-> 1, next |-> 1, outcomes |-> 0]
        /\ audit' = <<>>
  <2>1. CASE EvaluationRaises(agents)
    <3>1. <<>> \in Seq(Pair)
      OBVIOUS
    <3> QED
      BY <2>1, <3>1 DEF EvaluationRaises, NoRun
  <2>2. ASSUME NEW p \in Seq(Pair), EvaluationReturns(agents, p)
        PROVE  run' = [phase |-> "matched", agents |-> agents, pairs |-> p,
                       at |-> 1, next |-> 1, outcomes |-> 0] /\ audit' = <<>>
    BY <2>2 DEF EvaluationReturns, NoRun
  <2> QED
    BY <2>1, <2>2
<1>2. AuditRight'
  BY <1>1 DEF AuditRight
<1> QED
  BY <1>1, <1>2 DEF Busy, ExecutionInv, RunType

\* The matches are handed over as returned, or with an entry each.
LEMMA ExecuteKeepsInv ==
  ASSUME ExecutionInv, ExecuteReturned \/ Execute
  PROVE  ExecutionInv'
<1>1. /\ run.phase = "matched" /\ run.at = 1 /\ run.next = 1 /\ run.outcomes = 0
      /\ run.pairs \in Seq(Pair) /\ audit' = audit
  BY DEF ExecuteReturned, Execute, ExecutionInv, RunType
<1>2. PICK phase \in {"done", "refused", "running"} :
        /\ run' = [run EXCEPT !.phase = phase]
        /\ phase = "running" => run.pairs # <<>>
  BY DEF ExecuteReturned, Execute
<1>3. run.pairs # <<>> => 1 <= Len(run.pairs)
  BY <1>1, PairsShape
<1>4. RunType' /\ AuditRight'
  BY <1>1, <1>2 DEF ExecutionInv, RunType, AuditRight
<1>5. run'.phase = "running" =>
        /\ run'.at <= Len(run'.pairs)
        /\ run'.next <= Len(Actions') + 1
        /\ run'.outcomes = Cardinality(Effective(Match.policy, run.next)')
  <2> SUFFICES ASSUME run'.phase = "running"
               PROVE  /\ run'.at <= Len(run'.pairs)
                      /\ run'.next <= Len(Actions') + 1
                      /\ run'.outcomes = Cardinality(Effective(Match.policy, run.next)')
    OBVIOUS
  <2>1. /\ run'.pairs = run.pairs /\ run'.at = 1 /\ run'.next = 1 /\ run'.outcomes = 0
        /\ run.pairs # <<>>
    BY <1>1, <1>2 DEF ExecutionInv, RunType
  <2>2. run.pairs[1].policy.actions \in Seq(STRING)
    <3>1. 1 \in DOMAIN run.pairs
      BY <1>1, <1>3, <2>1, PairsShape
    <3> QED
      BY <1>1, <3>1, PairsShape
  <2>3. Actions' = run.pairs[1].policy.actions
    BY <2>1 DEF Actions, Match
  <2>4. Effective(Match.policy, run.next)' = Effective(run.pairs[1].policy, 1)
    BY <2>1 DEF Match, Effective
  <2> QED
    BY <1>3, <2>1, <2>2, <2>3, <2>4, NoOutcomeYet
<1> QED
  BY <1>1, <1>2, <1>4, <1>5 DEF ExecutionInv, RunType, Busy

\* The match that is acted on.
LEMMA MatchShape ==
  ASSUME ExecutionInv, Busy
  PROVE  /\ run.at \in DOMAIN run.pairs
         /\ Len(run.pairs) \in Nat /\ DOMAIN run.pairs = 1 .. Len(run.pairs)
         /\ Match.policy \in PolicyType
         /\ Actions \in Seq(STRING)
         /\ Len(Actions) \in Nat /\ DOMAIN Actions = 1 .. Len(Actions)
<1>1. run.pairs \in Seq(Pair) /\ run.at <= Len(run.pairs) /\ run.at \in Nat \ {0}
  BY DEF ExecutionInv, RunType, Busy
<1>2. run.at \in DOMAIN run.pairs /\ Len(run.pairs) \in Nat /\ DOMAIN run.pairs = 1 .. Len(run.pairs)
  BY <1>1, PairsShape
<1>3. Match.policy \in PolicyType /\ Actions \in Seq(STRING)
  BY <1>1, <1>2, PairsShape DEF Actions, Match
<1> QED
  BY <1>2, <1>3

\* An action that ended or raised is followed by the next.
LEMMA AfterKeepsInv ==
  ASSUME ExecutionInv, Busy, run.next <= Len(Actions),
         run' = After(HandlerRaises(Actions[run.next])), audit' = audit
  PROVE  ExecutionInv'
<1> DEFINE raised == HandlerRaises(Actions[run.next])
           outcomes == IF raised THEN run.outcomes ELSE run.outcomes + 1
<1>1. /\ run'.phase = "running" /\ run'.agents = run.agents /\ run'.pairs = run.pairs
      /\ run'.at = run.at /\ run'.next = run.next + 1
      /\ run'.outcomes = outcomes
  BY DEF After, ExecutionInv, RunType
<1>2. RunType'
  <2>1. run.outcomes \in Nat /\ run.next \in Nat \ {0}
    BY DEF ExecutionInv, RunType
  <2>2. run' = [phase |-> "running", agents |-> run.agents, pairs |-> run.pairs, at |-> run.at,
                next |-> run.next + 1, outcomes |-> outcomes]
    BY DEF After, ExecutionInv, RunType
  <2>3. outcomes \in Nat /\ run.next + 1 \in Nat \ {0}
    BY <2>1
  <2>4. run.agents \in AgentLists \cup {<<>>} /\ run.pairs \in Seq(Pair)
        /\ run.at \in Nat \ {0} /\ audit' \in Seq(Entry)
    BY DEF ExecutionInv, RunType
  <2> HIDE DEF outcomes
  <2> QED
    BY <2>2, <2>3, <2>4 DEF RunType
<1>3. AuditRight'
  BY <1>1 DEF ExecutionInv, AuditRight
<1>4. Match' = Match /\ Actions' = Actions
  BY <1>1 DEF Match, Actions
<1>5. run'.outcomes = Cardinality(Effective(Match.policy, run.next)')
  <2>1. Effective(Match.policy, run.next)' = Effective(Match.policy, run.next + 1)
    BY <1>1, <1>4 DEF Effective
  <2>2. Actions = Match.policy.actions
    BY DEF Actions
  <2>3. run.next \in Nat \ {0} /\ run.outcomes = Cardinality(Effective(Match.policy, run.next))
    BY DEF ExecutionInv, RunType
  <2> QED
    BY <1>1, <2>1, <2>2, <2>3, OneMoreOutcome
<1>6. run'.at <= Len(run'.pairs) /\ run'.next <= Len(Actions') + 1 /\ run'.pairs \in Seq(Pair)
  BY <1>1, <1>4, MatchShape DEF ExecutionInv, RunType, Busy
<1> QED
  BY <1>1, <1>2, <1>3, <1>5, <1>6 DEF ExecutionInv

\* What waits for an operator goes on as before, or not at all.
LEMMA PostKeepsInv ==
  ASSUME ExecutionInv, Post \/ Cancel
  PROVE  ExecutionInv'
<1>1. PICK phase \in {"posting", "cancelled"} :
        /\ run' = [run EXCEPT !.phase = phase] /\ audit' = audit
        /\ phase = "posting" => Post
  BY DEF Post, Cancel
<1>2. phase = "posting" => run.phase = "running" /\ run.next <= Len(Actions)
        /\ ~ HandlerRaises(Actions[run.next])
  BY <1>1 DEF Post, HasAction, Suspends, HandlerRaises
<1>3. RunType' /\ AuditRight'
  BY <1>1 DEF ExecutionInv, RunType, AuditRight
<1>4. /\ run'.phase = phase /\ run'.pairs = run.pairs /\ run'.at = run.at
      /\ run'.next = run.next /\ run'.outcomes = run.outcomes
  BY <1>1 DEF ExecutionInv, RunType
<1>5. Match' = Match /\ Actions' = Actions
      /\ Effective(Match.policy, run.next)' = Effective(Match.policy, run.next)
  BY <1>4 DEF Match, Actions, Effective
<1>6. HandlerRaises(Actions[run.next])' = HandlerRaises(Actions[run.next])
  BY <1>4, <1>5 DEF HandlerRaises
<1> QED
  BY <1>2, <1>3, <1>4, <1>5, <1>6 DEF ExecutionInv, Busy

\* The entry of a match that is done is right: all its actions were tried.
LEMMA AuditKeepsInv ==
  ASSUME ExecutionInv, Audit
  PROVE  ExecutionInv'
<1>1. /\ run.phase = "running" /\ run.next > Len(Actions)
      /\ audit' = Append(audit, [policy |-> Match.policy, outcomes |-> run.outcomes])
  BY DEF Audit, LogAuditEntry
<1>2. /\ run'.phase \in {"done", "running"}
      /\ run'.phase = "running" => run.at # Len(run.pairs)
      /\ run'.agents = run.agents /\ run'.pairs = run.pairs
      /\ run'.at = run.at + 1 /\ run'.next = 1 /\ run'.outcomes = 0
  BY DEF Audit, ExecutionInv, RunType
<1>3. /\ run.at \in DOMAIN run.pairs /\ run.pairs \in Seq(Pair)
      /\ Len(run.pairs) \in Nat /\ DOMAIN run.pairs = 1 .. Len(run.pairs)
      /\ Match.policy \in PolicyType
      /\ Len(Actions) \in Nat /\ DOMAIN Actions = 1 .. Len(Actions)
  BY <1>1, MatchShape DEF Busy, ExecutionInv, RunType
<1>4. RunType'
  <2>1. [policy |-> Match.policy, outcomes |-> run.outcomes] \in Entry
    BY <1>3 DEF Entry, ExecutionInv, RunType
  <2>2. audit' \in Seq(Entry)
    BY <1>1, <2>1 DEF ExecutionInv, RunType
  <2>3. run' = [phase |-> run'.phase, agents |-> run.agents, pairs |-> run.pairs,
                at |-> run.at + 1, next |-> 1, outcomes |-> 0]
    BY <1>2 DEF Audit, ExecutionInv, RunType
  <2> QED
    BY <1>2, <2>2, <2>3 DEF ExecutionInv, RunType
<1>5. AuditRight'
  <2>1. run.outcomes = OutcomesOf(Match.policy)
    <3>1. run.next - 1 = Len(Actions) /\ Actions = Match.policy.actions
      BY <1>1, <1>3 DEF ExecutionInv, RunType, Busy, Actions
    <3>2. Effective(Match.policy, run.next) = {i \in DOMAIN Actions : ~ HandlerRaises(Actions[i])}
      BY <1>3, <3>1 DEF Effective
    <3> QED
      BY <1>1, <3>1, <3>2 DEF ExecutionInv, Busy, OutcomesOf
  <2>2. Match = run.pairs[run.at]
    BY DEF Match
  <2>3. Len(audit) = run.at - 1 /\ audit \in Seq(Entry) /\ run.at \in Nat
    BY DEF ExecutionInv, RunType, AuditRight
  <2>4. /\ Len(audit') = run.at
        /\ audit'[run.at] = [policy |-> Match.policy, outcomes |-> run.outcomes]
        /\ \A k \in DOMAIN audit : audit'[k] = audit[k]
        /\ \A k \in DOMAIN audit' : k \in DOMAIN audit \/ k = run.at
    BY <1>1, <2>3
  <2>5. ASSUME NEW k \in DOMAIN audit'
        PROVE  /\ audit'[k].policy = run.pairs[k].policy
               /\ audit'[k].outcomes = OutcomesOf(run.pairs[k].policy)
    <3>1. CASE k \in DOMAIN audit
      BY <2>4, <3>1 DEF ExecutionInv, AuditRight
    <3>2. CASE k = run.at
      BY <2>1, <2>2, <2>4, <3>2
    <3> QED
      BY <2>4, <2>5, <3>1, <3>2
  <2> QED
    BY <1>2, <2>3, <2>4, <2>5 DEF AuditRight
<1>6. run'.phase = "running" =>
        /\ run'.at <= Len(run'.pairs)
        /\ run'.next <= Len(Actions') + 1
        /\ run'.outcomes = Cardinality(Effective(Match.policy, run.next)')
  <2> SUFFICES ASSUME run'.phase = "running"
               PROVE  /\ run'.at <= Len(run'.pairs)
                      /\ run'.next <= Len(Actions') + 1
                      /\ run'.outcomes = Cardinality(Effective(Match.policy, run.next)')
    OBVIOUS
  <2>1. run.at + 1 \in DOMAIN run.pairs /\ run.at + 1 <= Len(run.pairs)
    BY <1>2, <1>3
  <2>2. run.pairs[run.at + 1].policy.actions \in Seq(STRING)
    BY <1>3, <2>1, PairsShape
  <2>3. Actions' = run.pairs[run.at + 1].policy.actions
    BY <1>2 DEF Actions, Match
  <2>4. Effective(Match.policy, run.next)' = Effective(run.pairs[run.at + 1].policy, 1)
    BY <1>2 DEF Match, Effective
  <2> QED
    BY <1>2, <2>1, <2>2, <2>3, <2>4, NoOutcomeYet
<1> QED
  BY <1>2, <1>3, <1>4, <1>5, <1>6 DEF ExecutionInv, Busy

LEMMA ExecutingKeepsInv ==
  ASSUME ExecutionInv, Executing
  PROVE  ExecutionInv'
<1>1. CASE Handle
  <2>1. /\ Busy /\ run.next <= Len(Actions) /\ audit' = audit
        /\ run' = After(HandlerRaises(Actions[run.next]))
    BY <1>1 DEF Handle, HasAction, Busy
  <2> QED
    BY <2>1, AfterKeepsInv
<1>2. CASE PostEnds
  <2>1. /\ Busy /\ run.next <= Len(Actions) /\ audit' = audit
        /\ ~ HandlerRaises(Actions[run.next])
    BY <1>2 DEF PostEnds, Busy, ExecutionInv
  <2>2. run' = After(HandlerRaises(Actions[run.next]))
    BY <1>2, <2>1 DEF PostEnds, After
  <2> QED
    BY <2>1, <2>2, AfterKeepsInv
<1> QED
  BY <1>1, <1>2, ExecuteKeepsInv, PostKeepsInv, AuditKeepsInv DEF Executing

\* Executing never hands over matches, and leaves those there are.
LEMMA ExecutingKeepsPairs ==
  ASSUME ExecutionInv, Executing
  PROVE  run'.pairs = run.pairs /\ run'.phase # "matched"
<1>1. CASE ExecuteReturned \/ Execute \/ Post \/ Cancel
  BY <1>1 DEF ExecuteReturned, Execute, Post, Cancel, ExecutionInv, RunType
<1>2. CASE Handle \/ PostEnds
  <2>1. PICK raised \in BOOLEAN : run' = After(raised)
    BY <1>2 DEF Handle, PostEnds, HandlerRaises
  <2> QED
    BY <2>1 DEF After, ExecutionInv, RunType
<1>3. CASE Audit
  BY <1>3 DEF Audit, ExecutionInv, RunType
<1> QED
  BY <1>1, <1>2, <1>3 DEF Executing

-----------------------------------------------------------------------------
(* Loading and evaluating *)

\* What is loaded has lists of conditions, whatever form they were written in.
LEMMA LoadedShape ==
  ASSUME NEW f, f.policies \in Seq(Policy(Written)), IsPolicyFile(f)
  PROVE  LoadPolicyFile(f) \in Seq(PolicyType)
<1> DEFINE ps == f.policies
<1>1. /\ ps \in Seq(Policy(Written)) /\ Len(ps) \in Nat /\ DOMAIN ps = 1 .. Len(ps)
      /\ \A i \in DOMAIN ps : ps[i] \in Policy(Written) /\ IsConditions(ps[i].conditions)
  BY DEF IsPolicyFile
<1>2. LoadPolicyFile(f)
        = [i \in DOMAIN ps |-> [ps[i] EXCEPT !.conditions = EnsureConditionsList(ps[i].conditions)]]
  BY DEF LoadPolicyFile
<1> HIDE DEF ps
<1>3. ASSUME NEW p \in Policy(Written), IsConditions(p.conditions)
      PROVE  [p EXCEPT !.conditions = EnsureConditionsList(p.conditions)] \in PolicyType
  <2>1. EnsureConditionsList(p.conditions) \in Seq(Trees)
    <3>1. p.conditions \in Written
      BY DEF Policy
    <3>2. CASE p.conditions.form = "list"
      BY <3>1, <3>2 DEF Written, EnsureConditionsList
    <3>3. CASE p.conditions.form = "dict"
      BY <3>1, <3>3 DEF Written, EnsureConditionsList
    <3> QED
      BY <1>3, <3>2, <3>3 DEF IsConditions
  <2> DEFINE cs == EnsureConditionsList(p.conditions)
  <2> HIDE DEF cs
  <2>2. [p EXCEPT !.conditions = cs] \in PolicyType
    BY <2>1 DEF PolicyType, Policy, cs
  <2> QED
    BY <2>2 DEF cs
<1>4. \A i \in 1 .. Len(ps) :
        [ps[i] EXCEPT !.conditions = EnsureConditionsList(ps[i].conditions)] \in PolicyType
  BY <1>1, <1>3
<1> QED
  BY <1>1, <1>2, <1>4

LEMMA SerializedShape ==
  ASSUME NEW ps \in Seq(PolicyType)
  PROVE  Serialized(ps).policies \in Seq(Policy(Written))
<1> DEFINE written(p) == [p EXCEPT !.conditions = [form |-> "list", list |-> p.conditions]]
<1>1. ASSUME NEW p \in PolicyType PROVE written(p) \in Policy(Written)
  <2>1. [form |-> "list", list |-> p.conditions] \in Written
    BY DEF PolicyType, Policy, Written
  <2> QED
    BY <2>1 DEF PolicyType, Policy
<1>2. Serialized(ps).policies = [i \in 1 .. Len(ps) |-> written(ps[i])]
  BY DEF Serialized
<1> HIDE DEF written
<1>3. \A i \in 1 .. Len(ps) : written(ps[i]) \in Policy(Written)
  BY <1>1
<1> QED
  BY <1>2, <1>3

LEMMA FilesShape == \A f \in Files : f.policies \in Seq(Policy(Written))
BY FilesAssumption DEF Written

LEMMA AgentsShape ==
  ASSUME NEW agents \in AgentLists
  PROVE  agents \in Seq(Contexts) /\ \A j \in DOMAIN agents : Complete(agents[j])
<1>1. /\ agents \in Seq(Range(agents))
      /\ \A ctx \in Range(agents) : Complete(ctx)
  BY AgentsAssumption DEF IsSequence, Complete
<1>2. Range(agents) \in SUBSET Contexts
  BY DEF Contexts
<1>3. \A j \in DOMAIN agents : agents[j] \in Range(agents)
  BY DEF Range
<1> HIDE DEF Contexts
<1> QED
  BY <1>1, <1>2, <1>3

\* No match of a policy that asks only for what must be there is about an agent
\* of which nothing is known.
LEMMA MatchesAreKnown ==
  ASSUME NEW ps \in Seq(PolicyType), NEW agents \in AgentLists,
         NEW n \in DOMAIN Matches(ps, agents)
  PROVE  LET p == Matches(ps, agents)[n].policy
         IN p.conditions # <<>> /\ (\A k \in DOMAIN p.conditions : Cautious[p.conditions[k]])
              => ~ Unknown(Matches(ps, agents)[n].agent)
<1>1. Matches(ps, agents)[n] \in Range(Matches(ps, agents))
  BY DEF Range
<1>2. agents \in Seq(Contexts) /\ \A j \in DOMAIN agents : Complete(agents[j])
  BY AgentsShape
<1>3. PICK m \in Matching(ps, agents) :
        Matches(ps, agents)[n] = [policy |-> ps[m[1]], agent |-> agents[m[2]]]
  <2>1. Range(Matches(ps, agents)) = Found(ps, agents)
    BY <1>2, MatchesFound
  <2> QED
    BY Zenon, <1>1, <2>1 DEF Found
<1>4. /\ m[1] \in DOMAIN ps /\ m[2] \in DOMAIN agents
      /\ PolicyVerdict(ps[m[1]], agents[m[2]]) = "true"
  BY DEF Matching, Active
<1> DEFINE p == ps[m[1]]
           ctx == agents[m[2]]
<1>5. p.conditions \in Seq(Trees) /\ Complete(ctx) /\ Conditions(p.conditions, ctx) = "true"
  <2>1. p \in PolicyType /\ Complete(ctx) /\ PolicyVerdict(p, ctx) = "true"
    BY <1>2, <1>4
  <2> HIDE DEF p, ctx
  <2> QED
    BY <2>1 DEF PolicyType, Policy, PolicyVerdict
<1>6. /\ Matches(ps, agents)[n].policy = p
      /\ Matches(ps, agents)[n].agent = ctx
  BY <1>3
<1> HIDE DEF p, ctx
<1>7. ASSUME p.conditions # <<>>, \A k \in DOMAIN p.conditions : Cautious[p.conditions[k]]
      PROVE  ~ Unknown(ctx)
  BY <1>5, <1>7, CautiousConditions
<1> QED
  BY Zenon, <1>6, <1>7

\* The matches are those of the policies whose conditions are all true.
LEMMA MatchesAreTrue ==
  ASSUME NEW ps \in Seq(PolicyType), NEW agents \in AgentLists,
         NEW i \in DOMAIN ps, NEW j \in DOMAIN agents,
         \A k \in DOMAIN ps[i].conditions : WellFormed[ps[i].conditions[k]]
  PROVE  [policy |-> ps[i], agent |-> agents[j]] \in Range(Matches(ps, agents)) <=>
           /\ ps[i].enabled
           /\ MatchesTarget(ps[i].target, agents[j])
           /\ \A k \in DOMAIN ps[i].conditions : Truth(agents[j])[ps[i].conditions[k]][TRUE]
<1> DEFINE p == ps[i]
           ctx == agents[j]
           holds == \A k \in DOMAIN p.conditions : Truth(ctx)[p.conditions[k]][TRUE]
<1>1. p.conditions \in Seq(Trees)
  <2>1. p \in PolicyType
    OBVIOUS
  <2> HIDE DEF p
  <2> QED
    BY <2>1 DEF PolicyType, Policy
<1>2. Conditions(p.conditions, ctx) = Verdict(holds)
  <2> HIDE DEF p, ctx
  <2>1. \A k \in DOMAIN p.conditions : WellFormed[p.conditions[k]]
    BY DEF p
  <2> QED
    BY <1>1, <2>1, ConditionsTruth
<1>3. PolicyVerdict(p, ctx) = "true" <=> MatchesTarget(p.target, ctx) /\ holds
  <2> HIDE DEF p, ctx, holds
  <2> QED
    BY <1>2 DEF PolicyVerdict, Verdict
<1>4. Range(Matches(ps, agents)) = Found(ps, agents)
  <2>1. agents \in Seq(Contexts)
    BY AgentsShape
  <2> QED
    BY <2>1, MatchesFound
<1>5. ASSUME [policy |-> p, agent |-> ctx] \in Range(Matches(ps, agents))
      PROVE  p.enabled /\ PolicyVerdict(p, ctx) = "true"
  <2>1. PICK m \in Matching(ps, agents) :
          [policy |-> p, agent |-> ctx] = [policy |-> ps[m[1]], agent |-> agents[m[2]]]
    BY <1>4, <1>5 DEF Found
  <2>2. p = ps[m[1]] /\ ctx = agents[m[2]]
    BY <2>1
  <2>3. ps[m[1]].enabled /\ PolicyVerdict(ps[m[1]], agents[m[2]]) = "true"
    BY DEF Matching, Active
  <2> QED
    BY Zenon, <2>2, <2>3
<1>6. ASSUME p.enabled, PolicyVerdict(p, ctx) = "true"
      PROVE  [policy |-> p, agent |-> ctx] \in Range(Matches(ps, agents))
  <2>1. <<i, j>> \in Matching(ps, agents)
    BY <1>6 DEF Matching, Active
  <2> QED
    BY <1>4, <2>1 DEF Found
<1> QED
  BY <1>3, <1>5, <1>6

-----------------------------------------------------------------------------
(* The engine as a whole *)

EngineInv ==
  /\ policies \in Seq(PolicyType)
  /\ ExecutionInv
  /\ UnknownNeverMatches

\* A run that keeps its matches keeps them good.
LEMMA PairsStayKnown ==
  ASSUME UnknownNeverMatches, run'.pairs = run.pairs
  PROVE  UnknownNeverMatches'
BY DEF UnknownNeverMatches

LEMMA InitEngine == EngineInit => EngineInv
<1> SUFFICES ASSUME EngineInit PROVE EngineInv
  OBVIOUS
<1>1. policies \in Seq(PolicyType)
  <2>1. CASE policies = <<>>
    BY <2>1
  <2>2. ASSUME NEW f \in Files, IsPolicyFile(f), policies = LoadPolicyFile(f)
        PROVE  policies \in Seq(PolicyType)
    BY <2>2, FilesShape, LoadedShape
  <2> QED
    BY <2>1, <2>2 DEF EngineInit
<1>2. UnknownNeverMatches
  BY DEF EngineInit, ExecutionInit, NoRun, UnknownNeverMatches
<1> QED
  BY <1>1, <1>2, InitExecution DEF EngineInit, EngineInv

LEMMA LoadKeepsInv ==
  ASSUME EngineInv, NEW f \in Files \cup {Serialized(policies)}, Load(f)
  PROVE  EngineInv'
<1>1. f.policies \in Seq(Policy(Written))
  BY FilesShape, SerializedShape DEF EngineInv
<1>2. policies' \in Seq(PolicyType)
  BY <1>1, LoadedShape DEF Load, EngineInv
<1>3. ExecutionInv'
  BY DEF EngineInv, Load, executionVars, ExecutionInv, RunType, AuditRight, Busy, Match, Actions,
       Effective
<1>4. UnknownNeverMatches'
  BY PairsStayKnown DEF EngineInv, Load, executionVars
<1> QED
  BY <1>2, <1>3, <1>4 DEF EngineInv

LEMMA RunEvaluationKeepsInv ==
  ASSUME EngineInv, NEW agents \in AgentLists, RunEvaluation(agents)
  PROVE  EngineInv'
<1> DEFINE found == Matches(policies, agents)
<1>1. found \in Seq(Pair)
  BY AgentsShape, MatchesFound DEF EngineInv
<1>2. \/ EvaluationRaises(agents)
      \/ EvaluationReturns(agents, found)
  BY DEF RunEvaluation
<1>3. ExecutionInv'
  <2> HIDE DEF found
  <2> QED
    BY <1>1, <1>2, EvaluationKeepsInv
<1>4. UnknownNeverMatches'
  <2>1. CASE EvaluationRaises(agents)
    BY <2>1 DEF EvaluationRaises, NoRun, UnknownNeverMatches
  <2>2. CASE EvaluationReturns(agents, found)
    <3>1. run'.pairs = found
      BY <2>2 DEF EvaluationReturns, NoRun
    <3> QED
      BY <3>1, MatchesAreKnown DEF EngineInv, UnknownNeverMatches
  <2> QED
    BY <1>2, <2>1, <2>2
<1>5. policies' = policies
  BY DEF RunEvaluation
<1> QED
  BY <1>3, <1>4, <1>5 DEF EngineInv

LEMMA NextEngine ==
  ASSUME EngineInv, [EngineNext]_engineVars
  PROVE  EngineInv'
<1>1. CASE Executing /\ UNCHANGED policies
  <2>1. ExecutionInv'
    BY <1>1, ExecutingKeepsInv DEF EngineInv
  <2>2. run'.pairs = run.pairs
    BY <1>1, ExecutingKeepsPairs DEF EngineInv
  <2> QED
    BY <1>1, <2>1, <2>2, PairsStayKnown DEF EngineInv
<1>2. CASE UNCHANGED engineVars
  <2>1. policies' = policies /\ run' = run /\ audit' = audit
    BY <1>2 DEF engineVars, executionVars
  <2>2. ExecutionInv'
    BY <2>1 DEF EngineInv, ExecutionInv, RunType, AuditRight, Busy, Match, Actions, Effective
  <2> QED
    BY <2>1, <2>2, PairsStayKnown DEF EngineInv
<1> QED
  BY <1>1, <1>2, LoadKeepsInv, RunEvaluationKeepsInv DEF EngineNext

\* Whatever policies are loaded, reloaded and evaluated for whatever agents, no
\* action is ever taken on an agent of which nothing is known by a policy that
\* asks only for what must be there.
THEOREM UnknownIsSafe == EngineSpec => []UnknownNeverMatches
<1>1. EngineInv => UnknownNeverMatches
  BY DEF EngineInv
<1>2. EngineInv /\ [EngineNext]_engineVars => EngineInv'
  BY NextEngine
<1> QED
  BY <1>1, <1>2, InitEngine, PTL DEF EngineSpec

\* However actions fail and operators are slow, and whatever policies are loaded
\* meanwhile, the entries in the log are those of the matches done so far, each
\* with one outcome per action that did not raise.
THEOREM AuditIsExact == EngineSpec => []AuditFollowsActions
<1>1. EngineInv => AuditFollowsActions
  BY AuditIs DEF EngineInv, ExecutionInv
<1>2. EngineInv /\ [EngineNext]_engineVars => EngineInv'
  BY NextEngine
<1> QED
  BY <1>1, <1>2, InitEngine, PTL DEF EngineSpec

\* An evaluation that returns has found the pairs that the policies ask for, read
\* as logic reads them.
ExactStep ==
  run'.phase = "matched" /\ UNCHANGED policies =>
    \A i \in DOMAIN policies, j \in DOMAIN run'.agents :
      LET p == policies[i]
          agent == run'.agents[j]
      IN (\A k \in DOMAIN p.conditions : WellFormed[p.conditions[k]]) =>
           ([policy |-> p, agent |-> agent] \in Range(run'.pairs)
            <=> /\ p.enabled
                /\ MatchesTarget(p.target, agent)
                /\ \A k \in DOMAIN p.conditions : Truth(agent)[p.conditions[k]][TRUE])

LEMMA EvaluationIsExact ==
  ASSUME EngineInv, [EngineNext]_engineVars
  PROVE  [ExactStep]_engineVars
<1> SUFFICES ASSUME EngineNext, ~ UNCHANGED engineVars, run'.phase = "matched",
                    UNCHANGED policies
             PROVE  ExactStep
  BY DEF ExactStep
<1>1. ~ \E f \in Files \cup {Serialized(policies)} : Load(f)
  BY DEF Load, engineVars
<1>2. ~ Executing
  BY ExecutingKeepsPairs DEF EngineInv
<1>3. PICK agents \in AgentLists : RunEvaluation(agents)
  BY <1>1, <1>2 DEF EngineNext
<1>4. run'.agents = agents /\ run'.pairs = Matches(policies, agents)
  <2>1. ~ EvaluationRaises(agents)
    BY DEF EvaluationRaises, NoRun
  <2>2. EvaluationReturns(agents, Matches(policies, agents))
    BY <1>3, <2>1 DEF RunEvaluation
  <2> QED
    BY <2>2 DEF EvaluationReturns, NoRun
<1>5. policies \in Seq(PolicyType)
  BY DEF EngineInv
<1>6. ASSUME NEW i \in DOMAIN policies, NEW j \in DOMAIN agents,
             \A k \in DOMAIN policies[i].conditions : WellFormed[policies[i].conditions[k]]
      PROVE  [policy |-> policies[i], agent |-> agents[j]] \in Range(Matches(policies, agents)) <=>
               /\ policies[i].enabled
               /\ MatchesTarget(policies[i].target, agents[j])
               /\ \A k \in DOMAIN policies[i].conditions :
                    Truth(agents[j])[policies[i].conditions[k]][TRUE]
  BY <1>5, <1>6, MatchesAreTrue
<1>7. ASSUME NEW i \in DOMAIN policies, NEW j \in DOMAIN run'.agents,
             \A k \in DOMAIN policies[i].conditions : WellFormed[policies[i].conditions[k]]
      PROVE  [policy |-> policies[i], agent |-> run'.agents[j]] \in Range(run'.pairs) <=>
               /\ policies[i].enabled
               /\ MatchesTarget(policies[i].target, run'.agents[j])
               /\ \A k \in DOMAIN policies[i].conditions :
                    Truth(run'.agents[j])[policies[i].conditions[k]][TRUE]
  BY <1>4, <1>6, <1>7
<1> QED
  BY Zenon, <1>7 DEF ExactStep

THEOREM EvaluationsAreExact == EngineSpec => MatchesAreExact
<1>1. EngineInv /\ [EngineNext]_engineVars => EngineInv'
  BY NextEngine
<1>2. EngineInv /\ [EngineNext]_engineVars => [ExactStep]_engineVars
  BY EvaluationIsExact
<1>3. EngineSpec => [][ExactStep]_engineVars
  BY <1>1, <1>2, InitEngine, PTL DEF EngineSpec
<1> QED
  BY <1>3 DEF MatchesAreExact, ExactStep
=============================================================================
