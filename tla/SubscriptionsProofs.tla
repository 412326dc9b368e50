------------------------ MODULE SubscriptionsProofs ------------------------
(***************************************************************************)
(* What subscribers can rely on for any subscriptions, criteria, events,   *)
(* limit, number of attempts and faults.                                   *)
(***************************************************************************)
EXTENDS Subscriptions, SequenceTheorems, TLAPS

\* The part of the types that the proofs use.
TypeInv ==
  /\ DOMAIN rows \subseteq Ids
  /\ inbox \in Seq([no : Nat, what : Kinds])
  /\ event.no \in Nat /\ published \in Nat
  /\ DOMAIN webhooks \subseteq Nat \X Ids
  /\ told \in [Ids -> Nat] /\ leaving \in [Ids -> Nat]

\* Events wait in the order of their publication, all later than the one in hand
\* and than what any subscriber was told.
InboxInOrder ==
  /\ event.no <= published
  /\ \A s \in Ids : told[s] <= published
  /\ \A i \in DOMAIN inbox :
       /\ event.no < inbox[i].no /\ inbox[i].no <= published
       /\ \A s \in Ids : told[s] < inbox[i].no
       /\ \A j \in DOMAIN inbox : i < j => inbox[i].no < inbox[j].no

\* While an event is in hand nobody was told a later one, and the notifications
\* under way are all of this event.
InHandOnly ==
  /\ task \in {"fetching", "notifying"} => event.no > 0
  /\ event # NoEvent => \A s \in Ids : told[s] <= event.no
  /\ \A w \in DOMAIN webhooks : task = "notifying" /\ w[1] = event.no

\* A notification under way to one who left is of the event that was in hand.
LastWebhooks ==
  \A s \in Ids \ Active : \A w \in DOMAIN webhooks : w[2] = s => w[1] <= leaving[s]

OrderInv == TypeInv /\ InboxInOrder /\ InHandOnly /\ LastWebhooks /\ LeaversHearNoMore

-----------------------------------------------------------------------------
LEMMA InboxTypes ==
  ASSUME TypeInv
  PROVE  /\ DOMAIN inbox = 1 .. Len(inbox) /\ Len(inbox) \in Nat
         /\ \A i \in DOMAIN inbox : /\ i \in Nat /\ inbox[i].no \in Nat
                                    /\ inbox[i] \in [no : Nat, what : Kinds]
<1>1. inbox \in Seq([no : Nat, what : Kinds])  BY DEF TypeInv
<1>2. DOMAIN inbox = 1 .. Len(inbox) /\ Len(inbox) \in Nat  BY <1>1, LenProperties
<1>3. \A i \in 1 .. Len(inbox) : inbox[i] \in [no : Nat, what : Kinds]  BY <1>1, ElementOfSeq
<1> QED  BY <1>2, <1>3

LEMMA InitOrder == Init => OrderInv
<1> SUFFICES ASSUME Init PROVE OrderInv
  OBVIOUS
<1>1. /\ inbox = <<>> /\ event = NoEvent /\ webhooks = <<>> /\ task = "none"
      /\ published = 0 /\ rows \in [Ids -> Rows]
      /\ told = [s \in Ids |-> 0] /\ leaving = [s \in Ids |-> 0]
  BY DEF Init
<1>2. inbox \in Seq([no : Nat, what : Kinds]) /\ DOMAIN inbox = {} /\ DOMAIN webhooks = {}
  BY <1>1, EmptySeq
<1> QED
  BY <1>1, <1>2 DEF OrderInv, TypeInv, InboxInOrder, InHandOnly, LastWebhooks,
                    LeaversHearNoMore, NoEvent

\* A subscription that ends leaves nothing later than leaving behind.
LEMMA LeaveRecords ==
  ASSUME OrderInv, NEW s \in Ids, Leave(s)
  PROVE  /\ leaving' \in [Ids -> Nat]
         /\ \A r \in Ids : r # s => leaving'[r] = leaving[r]
         /\ told[s] <= leaving'[s]
         /\ \A w \in DOMAIN webhooks : w[1] <= leaving'[s]
<1> USE DEF OrderInv, TypeInv, InHandOnly
<1>1. CASE event = NoEvent
  <2>1. event.no = 0  BY <1>1 DEF NoEvent
  <2>2. ASSUME NEW w \in DOMAIN webhooks PROVE FALSE  BY <2>1, <2>2
  <2> QED  BY <1>1, <2>2 DEF Leave
<1>2. CASE event # NoEvent  BY <1>2 DEF Leave
<1> QED  BY <1>1, <1>2

LEMMA UpdateKeepsOrder ==
  ASSUME OrderInv, NEW s \in Ids, NEW row \in Rows, Update(s, row)
  PROVE  OrderInv' /\ UNCHANGED told
<1>1. /\ s \in DOMAIN rows /\ rows' = [rows EXCEPT ![s] = row]
      /\ UNCHANGED <<task, inbox, event, webhooks, told, published>>
  BY DEF Update, WriteRow, listener
<1>2. DOMAIN rows' = DOMAIN rows /\ rows'[s] = row
      /\ \A r \in DOMAIN rows : r # s => rows'[r] = rows[r]
  BY <1>1
<1>3. leaving' \in [Ids -> Nat] /\ \A r \in Ids : r # s => leaving'[r] = leaving[r]
  BY LeaveRecords DEF Update, WriteRow, OrderInv, TypeInv
<1>4. (TypeInv /\ InboxInOrder /\ InHandOnly)'
  BY <1>1, <1>2, <1>3 DEF OrderInv, TypeInv, InboxInOrder, InHandOnly
<1>5. ASSUME NEW r \in Ids \ Active'
      PROVE  told[r] <= leaving'[r] /\ \A w \in DOMAIN webhooks : w[2] = r => w[1] <= leaving'[r]
  <2>1. CASE r # s
    <3>1. r \in Ids \ Active  BY <1>2, <1>5, <2>1 DEF Active
    <3> QED  BY <1>3, <2>1, <3>1 DEF OrderInv, LastWebhooks, LeaversHearNoMore
  <2>2. CASE r = s /\ rows[s].is_active
    <3>1. ~ row.is_active  BY <1>1, <1>2, <1>5, <2>2 DEF Active
    <3>2. Leave(s)  BY <2>2, <3>1 DEF Update, WriteRow
    <3> QED  BY <2>2, <3>2, LeaveRecords
  <2>3. CASE r = s /\ ~ rows[s].is_active
    <3>1. s \in Ids \ Active /\ UNCHANGED leaving  BY <2>3 DEF Update, WriteRow, Active
    <3> QED  BY <2>3, <3>1 DEF OrderInv, LastWebhooks, LeaversHearNoMore
  <2> QED  BY <2>1, <2>2, <2>3
<1> QED  BY <1>1, <1>4, <1>5 DEF OrderInv, LastWebhooks, LeaversHearNoMore

LEMMA DeleteKeepsOrder ==
  ASSUME OrderInv, NEW s \in Ids, Delete(s)
  PROVE  OrderInv' /\ UNCHANGED told
<1>1. /\ s \in DOMAIN rows /\ rows' = [r \in DOMAIN rows \ {s} |-> rows[r]]
      /\ UNCHANGED <<task, inbox, event, webhooks, told, published>>
  BY DEF Delete, RemoveRow, listener, Restrict
<1>2. leaving' \in [Ids -> Nat] /\ \A r \in Ids : r # s => leaving'[r] = leaving[r]
  BY LeaveRecords DEF Delete, RemoveRow, OrderInv, TypeInv
<1>3. (TypeInv /\ InboxInOrder /\ InHandOnly)'
  BY <1>1, <1>2 DEF OrderInv, TypeInv, InboxInOrder, InHandOnly
<1>4. ASSUME NEW r \in Ids \ Active'
      PROVE  told[r] <= leaving'[r] /\ \A w \in DOMAIN webhooks : w[2] = r => w[1] <= leaving'[r]
  <2>1. CASE r # s
    <3>1. r \in Ids \ Active  BY <1>1, <1>4, <2>1 DEF Active
    <3> QED  BY <1>2, <2>1, <3>1 DEF OrderInv, LastWebhooks, LeaversHearNoMore
  <2>2. CASE r = s /\ rows[s].is_active
    BY <2>2, LeaveRecords DEF Delete, RemoveRow
  <2>3. CASE r = s /\ ~ rows[s].is_active
    <3>1. s \in Ids \ Active /\ UNCHANGED leaving  BY <2>3 DEF Delete, RemoveRow, Active
    <3> QED  BY <2>3, <3>1 DEF OrderInv, LastWebhooks, LeaversHearNoMore
  <2> QED  BY <2>1, <2>2, <2>3
<1> QED  BY <1>1, <1>3, <1>4 DEF OrderInv, LastWebhooks, LeaversHearNoMore

LEMMA PublishKeepsOrder ==
  ASSUME OrderInv, NEW k \in Kinds, Publish(k)
  PROVE  OrderInv' /\ UNCHANGED told
<1> DEFINE e == [no |-> published + 1, what |-> k]
<1>1. /\ published' = published + 1
      /\ inbox' = IF subscribed THEN Append(inbox, e) ELSE inbox
      /\ UNCHANGED <<rows, task, event, webhooks, told, leaving>>
  BY DEF Publish
<1>2. e \in [no : Nat, what : Kinds] /\ e.no = published + 1  BY DEF OrderInv, TypeInv
<1> HIDE DEF e
<1>3. /\ inbox' \in Seq([no : Nat, what : Kinds])
      /\ \A i \in DOMAIN inbox' : \/ i \in DOMAIN inbox /\ inbox'[i] = inbox[i]
                                  \/ /\ inbox'[i] = e
                                     /\ \A j \in DOMAIN inbox' : j <= i
  <2>1. CASE ~ subscribed  BY <1>1, <2>1 DEF OrderInv, TypeInv
  <2>2. CASE subscribed
    <3>1. inbox \in Seq([no : Nat, what : Kinds])  BY DEF OrderInv, TypeInv
    <3>2. inbox' = Append(inbox, e)  BY <1>1, <2>2
    <3> QED  BY <1>2, <3>1, <3>2, AppendProperties
  <2> QED  BY <2>1, <2>2
<1>4. TypeInv'  BY <1>1, <1>3 DEF OrderInv, TypeInv
<1>5. InboxInOrder'
  <2>1. /\ published' >= published /\ event' = event /\ told' = told
        /\ event.no \in Nat /\ published \in Nat /\ told \in [Ids -> Nat]
    BY <1>1 DEF OrderInv, TypeInv
  <2>2. ASSUME NEW i \in DOMAIN inbox'
        PROVE  /\ event.no < inbox'[i].no /\ inbox'[i].no <= published'
               /\ \A s \in Ids : told[s] < inbox'[i].no
    <3>1. CASE i \in DOMAIN inbox /\ inbox'[i] = inbox[i]
      <4>1. inbox[i].no \in Nat  BY <3>1, InboxTypes DEF OrderInv
      <4> QED  BY <1>1, <2>1, <3>1, <4>1 DEF OrderInv, InboxInOrder
    <3>2. CASE inbox'[i] = e
      BY <1>1, <1>2, <2>1, <3>2 DEF OrderInv, InboxInOrder
    <3> QED  BY <1>3, <3>1, <3>2
  <2>3. ASSUME NEW i \in DOMAIN inbox', NEW j \in DOMAIN inbox', i < j
        PROVE  inbox'[i].no < inbox'[j].no
    <3>0. i \in Nat /\ j \in Nat  BY <1>3
    <3>1. i \in DOMAIN inbox /\ inbox'[i] = inbox[i]  BY <1>3, <2>3, <3>0
    <3>2. CASE j \in DOMAIN inbox /\ inbox'[j] = inbox[j]
      BY <2>3, <3>1, <3>2 DEF OrderInv, InboxInOrder
    <3>3. CASE inbox'[j] = e
      <4>1. inbox[i].no \in Nat /\ published \in Nat
        BY <3>1, InboxTypes DEF OrderInv, TypeInv
      <4> QED  BY <1>2, <3>1, <3>3, <4>1 DEF OrderInv, InboxInOrder
    <3> QED  BY <1>3, <3>2, <3>3
  <2>4. event.no <= published' /\ \A s \in Ids : told[s] <= published'
    BY <1>1, <2>1 DEF OrderInv, InboxInOrder
  <2> QED  BY <2>1, <2>2, <2>3, <2>4 DEF InboxInOrder
<1>6. (InHandOnly /\ LastWebhooks /\ LeaversHearNoMore)'
  BY <1>1 DEF OrderInv, InHandOnly, LastWebhooks, LeaversHearNoMore, Active
<1> QED  BY <1>1, <1>4, <1>5, <1>6 DEF OrderInv

-----------------------------------------------------------------------------
(* The listener's steps *)

\* Steps that take nothing from the inbox and tell nobody anything.
LEMMA QuietSteps ==
  ASSUME OrderInv, UNCHANGED <<rows, published, leaving, told>>,
         inbox' = inbox \/ inbox' = <<>>,
         \/ UNCHANGED <<task, event>> /\ DOMAIN webhooks' \subseteq DOMAIN webhooks
         \/ /\ task \notin {"fetching", "notifying"} /\ task' \notin {"fetching", "notifying"}
            /\ UNCHANGED <<event, webhooks>>
         \/ /\ task' \notin {"fetching", "notifying"}
            /\ event' = NoEvent /\ DOMAIN webhooks' = {}
  PROVE  OrderInv'
<1>1. inbox' \in Seq([no : Nat, what : Kinds])
      /\ \A i \in DOMAIN inbox' : i \in DOMAIN inbox /\ inbox'[i] = inbox[i]
  <2>1. CASE inbox' = inbox  BY <2>1 DEF OrderInv, TypeInv
  <2>2. CASE inbox' = <<>>  BY <2>2, EmptySeq
  <2> QED  BY <2>1, <2>2
<1>2. DOMAIN webhooks' \subseteq DOMAIN webhooks /\ (event' = event \/ event' = NoEvent)
  OBVIOUS
<1>3. event'.no \in Nat /\ event'.no <= event.no
  BY <1>2 DEF NoEvent, OrderInv, TypeInv
<1>4. TypeInv'  BY <1>1, <1>2, <1>3 DEF OrderInv, TypeInv
<1>5. InboxInOrder'
  <2>1. \A i \in DOMAIN inbox : inbox[i].no \in Nat  BY InboxTypes DEF OrderInv
  <2> QED  BY <1>1, <1>3, <2>1 DEF OrderInv, TypeInv, InboxInOrder
<1>6. InHandOnly'  BY <1>2 DEF OrderInv, InHandOnly
<1>7. (LastWebhooks /\ LeaversHearNoMore)'
  BY <1>2 DEF OrderInv, LastWebhooks, LeaversHearNoMore, Active
<1> QED  BY <1>4, <1>5, <1>6, <1>7 DEF OrderInv

LEMMA ReceiveKeepsOrder ==
  ASSUME OrderInv, Receive, UNCHANGED <<rows, published, leaving>>
  PROVE  OrderInv' /\ UNCHANGED told
<1>1. /\ task = "loop" /\ inbox # <<>> /\ inbox' = Tail(inbox)
      /\ UNCHANGED <<webhooks, told, rows, published, leaving>>
      /\ \/ UNCHANGED <<task, event>>
         \/ task' = "fetching" /\ event' = Head(inbox)
  BY DEF Receive
<1>2. /\ inbox \in Seq([no : Nat, what : Kinds]) /\ 1 \in DOMAIN inbox
      /\ Head(inbox) = inbox[1] /\ inbox[1].no \in Nat
  <2>1. inbox \in Seq([no : Nat, what : Kinds])  BY DEF OrderInv, TypeInv
  <2>2. 1 \in DOMAIN inbox  BY <1>1, <2>1, EmptySeq, LenProperties
  <2> QED  BY <2>1, <2>2, InboxTypes DEF OrderInv
<1>3. /\ inbox' \in Seq([no : Nat, what : Kinds])
      /\ \A i \in DOMAIN inbox' : /\ i \in Nat /\ i + 1 \in DOMAIN inbox /\ 1 < i + 1
                                  /\ inbox'[i] = inbox[i + 1]
  BY <1>1, <1>2, HeadTailProperties
<1>4. DOMAIN webhooks = {}  BY <1>1 DEF OrderInv, InHandOnly
<1>5. TypeInv'  BY <1>1, <1>2, <1>3 DEF OrderInv, TypeInv
<1>6. InboxInOrder'
  <2>1. event'.no <= published  BY <1>1, <1>2 DEF OrderInv, InboxInOrder
  <2>2. ASSUME NEW i \in DOMAIN inbox'
        PROVE  /\ event'.no < inbox'[i].no /\ inbox'[i].no <= published
               /\ \A s \in Ids : told[s] < inbox'[i].no
    BY <1>1, <1>2, <1>3 DEF OrderInv, InboxInOrder
  <2>3. ASSUME NEW i \in DOMAIN inbox', NEW j \in DOMAIN inbox', i < j
        PROVE  inbox'[i].no < inbox'[j].no
    <3>1. i + 1 < j + 1  BY <1>3, <2>3
    <3> QED  BY <1>3, <3>1 DEF OrderInv, InboxInOrder
  <2> QED  BY <1>1, <2>1, <2>2, <2>3 DEF OrderInv, InboxInOrder
<1>7. InHandOnly'
  <2>1. inbox[1].no > 0 /\ \A s \in Ids : told[s] <= inbox[1].no
    BY <1>2 DEF OrderInv, TypeInv, InboxInOrder
  <2> QED  BY <1>1, <1>2, <1>4, <2>1 DEF OrderInv, InHandOnly
<1>8. (LastWebhooks /\ LeaversHearNoMore)'
  BY <1>1 DEF OrderInv, LastWebhooks, LeaversHearNoMore, Active
<1> QED  BY <1>1, <1>5, <1>6, <1>7, <1>8 DEF OrderInv

\* Telling subscribers of the event in hand.
LEMMA TellingKeepsOrder ==
  ASSUME OrderInv, UNCHANGED <<rows, published, leaving, inbox, event>>,
         task \in {"fetching", "notifying"}, task' = "notifying",
         NEW S \in SUBSET Ids,
         told' = [s \in Ids |-> IF s \in S THEN event.no ELSE told[s]],
         DOMAIN webhooks' \subseteq Nat \X Ids,
         \A w \in DOMAIN webhooks' : w[1] = event.no,
         \A s \in S \ Active : event.no <= leaving[s],
         \A w \in DOMAIN webhooks' : w \in DOMAIN webhooks \/ w[2] \in Active
  PROVE  OrderInv' /\ \A s \in Ids : told'[s] >= told[s]
<1>1. event # NoEvent /\ event.no \in Nat /\ told \in [Ids -> Nat]
  BY DEF OrderInv, TypeInv, InHandOnly, NoEvent
<1>2. \A s \in Ids : told'[s] >= told[s] /\ told'[s] <= event.no
                     /\ (told'[s] = told[s] \/ (told'[s] = event.no /\ s \in S))
  <2>1. \A s \in Ids : told[s] \in Nat /\ told[s] <= event.no
    BY <1>1 DEF OrderInv, InHandOnly
  <2>2. \A s \in Ids : told'[s] = IF s \in S THEN event.no ELSE told[s]  OBVIOUS
  <2>3. \A s \in Ids : s \in S => told'[s] = event.no  BY <2>2
  <2>4. \A s \in Ids : s \notin S => told'[s] = told[s]  BY <2>2
  <2> QED  BY <1>1, <2>1, <2>3, <2>4
<1>3. TypeInv'  BY <1>1 DEF OrderInv, TypeInv
<1>4. InboxInOrder'
  <2>1. \A i \in DOMAIN inbox : inbox[i].no \in Nat  BY InboxTypes DEF OrderInv
  <2> QED  BY <1>1, <1>2, <1>3, <2>1 DEF OrderInv, TypeInv, InboxInOrder
<1>5. InHandOnly'  BY <1>1, <1>2 DEF OrderInv, InHandOnly
<1>6. LastWebhooks'  BY DEF OrderInv, LastWebhooks, Active
<1>7. LeaversHearNoMore'  BY <1>2 DEF OrderInv, LeaversHearNoMore, Active
<1> QED  BY <1>2, <1>3, <1>4, <1>5, <1>6, <1>7 DEF OrderInv

LEMMA FetchKeepsOrder ==
  ASSUME OrderInv, Fetch, UNCHANGED <<rows, published, leaving>>
  PROVE  OrderInv' /\ \A s \in Ids : told'[s] >= told[s]
<1>1. /\ task = "fetching" /\ task' = "notifying" /\ UNCHANGED <<inbox, event>>
      /\ \E T \in Fetched : Notify(Matched(T))
  BY DEF Fetch
<1>2. PICK T \in Fetched : Notify(Matched(T))  BY <1>1
<1> DEFINE S == Matched(T)
<1>3. S \subseteq Active /\ S \subseteq Ids
  BY DEF Matched, Fetched, Active, OrderInv, TypeInv
<1>4. /\ DOMAIN webhooks' = DOMAIN webhooks \cup {<<event.no, s>> : s \in S}
      /\ told' = [s \in Ids |-> IF s \in S THEN event.no ELSE told[s]]
  BY <1>2 DEF Notify
<1> HIDE DEF S
<1>5. /\ DOMAIN webhooks' \subseteq Nat \X Ids
      /\ \A w \in DOMAIN webhooks' : w[1] = event.no
      /\ \A w \in DOMAIN webhooks' : w \in DOMAIN webhooks \/ w[2] \in Active
  BY <1>3, <1>4 DEF OrderInv, TypeInv, InHandOnly
<1> QED  BY <1>1, <1>3, <1>4, <1>5, TellingKeepsOrder

LEMMA SendAgainKeepsOrder ==
  ASSUME OrderInv, NEW w \in DOMAIN webhooks, SendAgain(w), UNCHANGED <<rows, published, leaving>>
  PROVE  OrderInv' /\ \A s \in Ids : told'[s] >= told[s]
<1>1. /\ DOMAIN webhooks' = DOMAIN webhooks /\ UNCHANGED <<task, inbox, event>>
      /\ told' = [told EXCEPT ![w[2]] = w[1]]
  BY DEF SendAgain
<1>2. /\ w \in Nat \X Ids /\ task = "notifying" /\ w[1] = event.no
      /\ told \in [Ids -> Nat]
  BY DEF OrderInv, TypeInv, InHandOnly
<1>3. told' = [s \in Ids |-> IF s \in {w[2]} THEN event.no ELSE told[s]]  BY <1>1, <1>2
<1>4. \A s \in {w[2]} \ Active : event.no <= leaving[s]
  BY <1>2 DEF OrderInv, LastWebhooks
<1>5. /\ DOMAIN webhooks' \subseteq Nat \X Ids
      /\ \A v \in DOMAIN webhooks' : v[1] = event.no
  BY <1>1 DEF OrderInv, TypeInv, InHandOnly
<1> QED  BY <1>1, <1>2, <1>3, <1>4, <1>5, TellingKeepsOrder

LEMMA ListenKeepsOrder ==
  ASSUME OrderInv, Listen \/ Fault, UNCHANGED Others
  PROVE  OrderInv' /\ \A s \in Ids : told'[s] >= told[s]
<1>0. UNCHANGED <<rows, published, leaving>> /\ told \in [Ids -> Nat]
  BY DEF Others, OrderInv, TypeInv
<1>1. CASE Receive  BY <1>0, <1>1, ReceiveKeepsOrder
<1>2. CASE Fetch  BY <1>0, <1>2, FetchKeepsOrder
<1>3. ASSUME NEW w \in DOMAIN webhooks, SendAgain(w) PROVE OrderInv' /\ \A s \in Ids : told'[s] >= told[s]
  BY <1>0, <1>3, SendAgainKeepsOrder
<1>4. ASSUME NEW w \in DOMAIN webhooks, Deliver(w) \/ SendFails(w)
      PROVE  OrderInv' /\ UNCHANGED told
  <2>1. DOMAIN webhooks' \subseteq DOMAIN webhooks /\ UNCHANGED <<task, event, inbox, told>>
    BY <1>4 DEF Deliver, SendFails, Without, Restrict
  <2> QED  BY <1>0, <2>1, QuietSteps
<1>5. CASE \/ StartListener \/ Subscribe \/ NoticeLoss \/ Resubscribe
           \/ SubscribeFails \/ ResubscribeFails
  <2>1. /\ \/ task \notin {"fetching", "notifying"} /\ task' \notin {"fetching", "notifying"}
           \/ UNCHANGED task
        /\ UNCHANGED <<event, inbox, webhooks, told>>
    BY <1>5 DEF StartListener, Subscribe, NoticeLoss, Resubscribe, SubscribeFails,
                ResubscribeFails, Ended
  <2> QED  BY <1>0, <2>1, QuietSteps
<1>6. CASE LoseConnection
  BY <1>0, <1>6, QuietSteps DEF LoseConnection
<1>7. CASE EventDone \/ FetchFails
  <2>1. /\ task' = "loop" /\ event' = NoEvent /\ UNCHANGED <<inbox, told>>
        /\ DOMAIN webhooks' = {}
    BY <1>7 DEF EventDone, FetchFails, OrderInv, InHandOnly
  <2> QED  BY <1>0, <2>1, QuietSteps
<1> QED
  BY <1>0, <1>1, <1>2, <1>3, <1>4, <1>5, <1>6, <1>7 DEF Listen, Fault

LEMMA StopKeepsOrder ==
  ASSUME OrderInv, Stop
  PROVE  OrderInv' /\ UNCHANGED told
<1>1. UNCHANGED <<rows, published, leaving, told>>
  BY DEF Stop, listener
<1>2. CASE task \in Ended
  BY <1>1, <1>2, QuietSteps DEF Stop, listener
<1>3. CASE task \notin Ended
  BY <1>1, <1>3, QuietSteps DEF Stop
<1> QED  BY <1>2, <1>3

LEMMA NextOrder == OrderInv /\ [Next]_vars => OrderInv' /\ \A s \in Ids : told'[s] >= told[s]
<1> SUFFICES ASSUME OrderInv, [Next]_vars
             PROVE  OrderInv' /\ \A s \in Ids : told'[s] >= told[s]
  OBVIOUS
<1>0. told \in [Ids -> Nat]  BY DEF OrderInv, TypeInv
<1>1. ASSUME NEW s \in Ids, Delete(s) PROVE OrderInv' /\ UNCHANGED told
  BY <1>1, DeleteKeepsOrder
<1>2. ASSUME NEW s \in Ids, NEW row \in Rows, Update(s, row) PROVE OrderInv' /\ UNCHANGED told
  BY <1>2, UpdateKeepsOrder
<1>3. ASSUME NEW k \in Kinds, Publish(k) PROVE OrderInv' /\ UNCHANGED told
  BY <1>3, PublishKeepsOrder
<1>4. CASE (Listen \/ Fault) /\ UNCHANGED Others  BY <1>4, ListenKeepsOrder
<1>5. CASE Stop  BY <1>0, <1>5, StopKeepsOrder
<1>6. CASE UNCHANGED vars
  BY <1>6 DEF vars, OrderInv, TypeInv, InboxInOrder, InHandOnly, LastWebhooks,
              LeaversHearNoMore, Active
<1> QED  BY <1>0, <1>1, <1>2, <1>3, <1>4, <1>5, <1>6 DEF Next

LEMMA OrderHolds == Spec => []OrderInv
BY InitOrder, NextOrder, PTL DEF Spec

\* However long notifications are retried, and whatever is lost or changed
\* meanwhile, no subscriber is sent an event after a later one.
THEOREM EventsToldInOrder == Spec => ToldInOrder
<1>1. OrderInv /\ [Next]_vars => [\A s \in Ids : told'[s] >= told[s]]_vars
  BY NextOrder
<1> QED  BY <1>1, OrderHolds, PTL DEF Spec, ToldInOrder

\* Whoever was deactivated or deleted is told nothing after the event in hand.
THEOREM NothingAfterLeaving == Spec => []LeaversHearNoMore
BY OrderHolds, PTL DEF OrderInv

-----------------------------------------------------------------------------
(* Types: every start that is scheduled is the first or follows a fault *)

TypesInv == TypeOK /\ starts <= faults + 1

LEMMA InitTypes == Init => TypesInv
<1> SUFFICES ASSUME Init PROVE TypesInv
  OBVIOUS
<1>1. DOMAIN webhooks = {} /\ inbox \in Seq(Events)
  BY EmptySeq DEF Init
<1>2. DOMAIN rows = Ids /\ \A s \in Ids : rows[s] \in Rows
  BY DEF Init
<1>3. /\ starts \in 0 .. MaxFaults + 1 /\ starts <= faults + 1
      /\ published \in 0 .. MaxEvents /\ faults \in 0 .. MaxFaults
  BY SubscriptionsAssumption DEF Init
<1>4. told \in [Ids -> 0 .. MaxEvents] /\ leaving \in [Ids -> 0 .. MaxEvents]
  BY SubscriptionsAssumption DEF Init
<1>5. service = "up" /\ task = "none" /\ subscribed = FALSE /\ event = NoEvent
  BY DEF Init
<1> QED
  BY <1>1, <1>2, <1>3, <1>4, <1>5 DEF TypesInv, TypeOK, Ended

LEMMA LeaveTypes ==
  ASSUME TypeOK, NEW s \in Ids, Leave(s) \/ UNCHANGED leaving
  PROVE  leaving' \in [Ids -> 0 .. MaxEvents]
<1>1. (IF event = NoEvent THEN told[s] ELSE event.no) \in 0 .. MaxEvents
  BY DEF TypeOK, Events
<1> QED
  BY <1>1 DEF TypeOK, Leave

\* The steps of the listener that change no notification.
LEMMA ListenerTypes ==
  ASSUME TypesInv,
         \/ StartListener \/ Subscribe \/ NoticeLoss \/ Resubscribe \/ EventDone
         \/ LoseConnection \/ ResubscribeFails \/ FetchFails
  PROVE  /\ starts' \in 0 .. starts
         /\ task' \in Ended \cup {"subscribing", "loop", "lost", "fetching", "notifying"}
         /\ subscribed' \in BOOLEAN /\ inbox' \in Seq(Events) /\ event' \in Events \cup {NoEvent}
         /\ UNCHANGED <<webhooks, told>>
<1> USE DEF TypesInv, TypeOK
<1>1. starts \in Nat /\ starts \in 0 .. starts
  OBVIOUS
<1>2. CASE StartListener
  BY <1>1, <1>2 DEF StartListener
<1>3. CASE Subscribe \/ NoticeLoss \/ Resubscribe \/ EventDone
  BY <1>1, <1>3 DEF Subscribe, NoticeLoss, Resubscribe, EventDone
<1>4. CASE LoseConnection
  BY <1>1, <1>4, EmptySeq DEF LoseConnection
<1>5. CASE ResubscribeFails \/ FetchFails
  BY <1>1, <1>5 DEF ResubscribeFails, FetchFails
<1> QED
  BY <1>2, <1>3, <1>4, <1>5

LEMMA ReceiveTypes ==
  ASSUME TypesInv, Receive
  PROVE  /\ task' \in Ended \cup {"subscribing", "loop", "lost", "fetching", "notifying"}
         /\ inbox' \in Seq(Events) /\ event' \in Events \cup {NoEvent}
         /\ UNCHANGED <<starts, subscribed, webhooks, told>>
<1>1. inbox \in Seq(Events) /\ inbox # <<>>
  BY DEF TypesInv, TypeOK, Receive
<1>2. Head(inbox) \in Events /\ Tail(inbox) \in Seq(Events)
  BY <1>1, HeadTailProperties
<1> QED
  BY <1>2 DEF Receive, TypesInv, TypeOK

Webhook == [attempts : 0 .. MaxAttempts - 1, status : {"sending", "waiting"}]

\* The notifications and what the subscribers were told.
TellingTypes ==
  /\ DOMAIN webhooks \subseteq (1 .. MaxEvents) \X Ids
  /\ \A w \in DOMAIN webhooks : webhooks[w] \in Webhook
  /\ told \in [Ids -> 0 .. MaxEvents]

LEMMA FetchTypes ==
  ASSUME TypesInv, OrderInv, Fetch
  PROVE  TellingTypes'
<1>1. event \in Events
  <2>1. event.no > 0
    BY DEF Fetch, OrderInv, InHandOnly
  <2> QED
    BY <2>1 DEF NoEvent, TypesInv, TypeOK
<1>2. event.no \in 1 .. MaxEvents
  BY <1>1 DEF Events
<1>3. PICK S \in Fetched : Notify(Matched(S))
  BY DEF Fetch
<1> DEFINE M == Matched(S)
<1>4. M \subseteq Ids
  BY DEF Matched, Fetched, Active, TypesInv, TypeOK
<1> HIDE DEF M
<1>5. /\ webhooks' = [w \in DOMAIN webhooks \cup {<<event.no, s>> : s \in M} |->
             IF w \in DOMAIN webhooks THEN webhooks[w] ELSE [attempts |-> 0, status |-> "sending"]]
      /\ told' = [s \in Ids |-> IF s \in M THEN event.no ELSE told[s]]
  BY <1>3 DEF Notify, M
<1>6. [attempts |-> 0, status |-> "sending"] \in Webhook
  BY SubscriptionsAssumption DEF Webhook
<1>7. DOMAIN webhooks' \subseteq (1 .. MaxEvents) \X Ids
  BY <1>2, <1>4, <1>5 DEF TypesInv, TypeOK
<1>8. \A w \in DOMAIN webhooks' : webhooks'[w] \in Webhook
  BY <1>5, <1>6 DEF TypesInv, TypeOK, Webhook
<1>9. told' \in [Ids -> 0 .. MaxEvents]
  BY <1>2, <1>5 DEF TypesInv, TypeOK
<1> QED
  BY <1>7, <1>8, <1>9 DEF TellingTypes

LEMMA SendingTypes ==
  ASSUME TypesInv, NEW w \in DOMAIN webhooks, Deliver(w) \/ SendFails(w) \/ SendAgain(w)
  PROVE  TellingTypes'
<1>1. webhooks[w] \in Webhook /\ w \in (1 .. MaxEvents) \X Ids
  BY DEF TypesInv, TypeOK, Webhook
<1>2. CASE Without(w) /\ UNCHANGED told
  <2>1. webhooks' = [v \in DOMAIN webhooks \ {w} |-> webhooks[v]]
    BY <1>2 DEF Without, Restrict
  <2> QED
    BY <1>2, <2>1 DEF TypesInv, TypeOK, TellingTypes, Webhook
<1>3. CASE /\ webhooks[w].attempts + 1 < MaxAttempts
           /\ webhooks' = [webhooks EXCEPT ![w] = [attempts |-> @.attempts + 1, status |-> "waiting"]]
           /\ UNCHANGED told
  <2>1. [attempts |-> webhooks[w].attempts + 1, status |-> "waiting"] \in Webhook
    BY <1>1, <1>3, SubscriptionsAssumption DEF Webhook
  <2> QED
    BY <1>3, <2>1 DEF TypesInv, TypeOK, TellingTypes, Webhook
<1>4. CASE SendAgain(w)
  <2>1. [webhooks[w] EXCEPT !.status = "sending"] \in Webhook
    BY <1>1 DEF Webhook
  <2>2. w[1] \in 0 .. MaxEvents /\ w[2] \in Ids
    BY <1>1
  <2> QED
    BY <1>4, <2>1, <2>2 DEF SendAgain, TypesInv, TypeOK, TellingTypes, Webhook
<1> QED
  BY <1>2, <1>3, <1>4 DEF Deliver, SendFails

LEMMA NextTypes == TypesInv /\ OrderInv /\ [Next]_vars => TypesInv'
<1> SUFFICES ASSUME TypesInv, OrderInv, [Next]_vars PROVE TypesInv'
  OBVIOUS
<1> USE SubscriptionsAssumption
<1>1. CASE \E s \in Ids : Delete(s) \/ \E row \in Rows : Update(s, row)
  <2>1. PICK s \in Ids : Delete(s) \/ \E row \in Rows : Update(s, row)
    BY <1>1
  <2>2. leaving' \in [Ids -> 0 .. MaxEvents]
    BY <2>1, LeaveTypes DEF Delete, Update, WriteRow, RemoveRow, TypesInv
  <2>3. UNCHANGED <<service, listener, published, faults>>
    BY <2>1 DEF Delete, Update
  <2>4. DOMAIN rows' \subseteq Ids /\ \A r \in DOMAIN rows' : rows'[r] \in Rows
    <3>1. CASE Delete(s)
      BY <3>1 DEF Delete, RemoveRow, Restrict, TypesInv, TypeOK
    <3>2. CASE \E row \in Rows : Update(s, row)
      BY <3>2 DEF Update, WriteRow, TypesInv, TypeOK
    <3> QED
      BY <2>1, <3>1, <3>2
  <2> QED
    BY <2>2, <2>3, <2>4 DEF listener, TypesInv, TypeOK
<1>2. CASE \E k \in Kinds : Publish(k)
  <2>1. PICK k \in Kinds : Publish(k)
    BY <1>2
  <2>2. published' \in 1 .. MaxEvents /\ [no |-> published', what |-> k] \in Events
    BY <2>1 DEF Publish, TypesInv, TypeOK, Events
  <2>3. inbox' \in Seq(Events)
    BY <2>1, <2>2, AppendProperties DEF Publish, TypesInv, TypeOK
  <2> QED
    BY <2>1, <2>2, <2>3 DEF Publish, TypesInv, TypeOK
<1>3. CASE Listen /\ UNCHANGED <<Others, faults>>
  <2>1. UNCHANGED <<rows, service, published, leaving, faults>>
    BY <1>3 DEF Others
  <2>2. CASE StartListener \/ Subscribe \/ NoticeLoss \/ Resubscribe \/ EventDone
    BY <2>1, <2>2, ListenerTypes DEF TypesInv, TypeOK
  <2>3. CASE Receive
    BY <2>1, <2>3, ReceiveTypes DEF TypesInv, TypeOK
  <2>4. CASE Fetch
    <3>1. UNCHANGED <<starts, subscribed, inbox, event>> /\ task' = "notifying"
      BY <2>4 DEF Fetch
    <3> QED
      BY <2>1, <2>4, <3>1, FetchTypes DEF TypesInv, TypeOK, TellingTypes, Webhook
  <2>5. CASE \E w \in DOMAIN webhooks : Deliver(w) \/ SendFails(w) \/ SendAgain(w)
    <3>1. UNCHANGED <<starts, task, subscribed, inbox, event>>
      BY <2>5 DEF Deliver, SendFails, SendAgain
    <3>2. TellingTypes'
      BY <2>5, SendingTypes
    <3> QED
      BY <2>1, <3>1, <3>2 DEF TypesInv, TypeOK, TellingTypes, Webhook
  <2> QED
    BY <1>3, <2>2, <2>3, <2>4, <2>5 DEF Listen
<1>4. CASE faults < MaxFaults /\ faults' = faults + 1 /\ Fault /\ UNCHANGED Others
  <2>1. UNCHANGED <<rows, service, published, leaving>> /\ faults' \in 0 .. MaxFaults
    BY <1>4 DEF Others, TypesInv, TypeOK
  <2>2. CASE SubscribeFails
    BY <1>4, <2>1, <2>2 DEF SubscribeFails, TypesInv, TypeOK, Ended
  <2>3. CASE LoseConnection \/ ResubscribeFails \/ FetchFails
    BY <1>4, <2>1, <2>3, ListenerTypes DEF TypesInv, TypeOK
  <2> QED
    BY <1>4, <2>2, <2>3 DEF Fault
<1>5. CASE Stop
  <2>1. CASE task \in Ended
    BY <1>5, <2>1 DEF Stop, listener, TypesInv, TypeOK
  <2>2. CASE task \notin Ended
    <3>1. DOMAIN webhooks' = {} /\ inbox' \in Seq(Events)
      BY <1>5, <2>2, EmptySeq DEF Stop
    <3> QED
      BY <1>5, <2>2, <3>1 DEF Stop, TypesInv, TypeOK, Ended
  <2> QED
    BY <2>1, <2>2
<1>6. CASE UNCHANGED vars
  BY <1>6 DEF vars, TypesInv, TypeOK
<1> QED
  BY <1>1, <1>2, <1>3, <1>4, <1>5, <1>6 DEF Next

\* Every variable keeps its type: a scheduled start is the first or follows a
\* failure (main.py, _listener_done_callback), and no notification is tried more
\* than MaxAttempts times.
THEOREM SubscriptionsTypeCorrect == Spec => []TypeOK
<1>1. TypesInv => TypeOK
  BY DEF TypesInv
<1> QED
  BY <1>1, InitTypes, NextTypes, OrderHolds, PTL DEF Spec
=============================================================================
