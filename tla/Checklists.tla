---------------------------- MODULE Checklists ----------------------------
(***************************************************************************)
(* Checklist templates, promotion reviews and the provenance of both in    *)
(* the F operator (f_operator_service/app/api/endpoints/checklist.py and   *)
(* promotion.py, app/services/provenance_service.py).                      *)
(*                                                                         *)
(* A request reads, then commits its change, then commits a provenance     *)
(* record in a second transaction; it suspends between these, and requests *)
(* interleave there.  The flush and the commit of a change are one step:   *)
(* the database makes a writer of the same key wait for the first one.     *)
(* The users and agents the rows refer to are taken to exist, and the      *)
(* caller to have the permission: without it a request changes nothing.    *)
(***************************************************************************)
EXTENDS Integers, Sequences, FiniteSetsExt, Functions

CONSTANTS
  Requests,     \* each is sent once
  Orders,       \* places a request may ask for; 0 asks for the default
  MaxCreated,   \* bound: criteria a template is created with
  Statuses,     \* of a template
  ItemStatuses  \* of an item of a review

ASSUME OrdersAssumption == Orders \subseteq Nat /\ 0 \in Orders
ASSUME CreatedAssumption == MaxCreated \in Nat

VARIABLES
  templates,  \* the rows, in the order of their insertion
  reviews,    \* the statuses of the items of each promotion review
  provenance, \* requests that have a provenance record
  call        \* where each request is

vars == <<templates, reviews, provenance, call>>

NoCriteria == [k \in {} |-> 0]

\* "seen" is what the request read: the criteria, and a status.
New == [phase |-> "new", op |-> "none", row |-> 0, key |-> 0, order |-> 0, status |-> "none",
        seen |-> NoCriteria, before |-> "none", answer |-> "none"]

\* UniqueConstraint('template_id', 'order')
Distinct(criteria) == IsInjective(criteria)

\* A template: its criteria by key, and how many keys it has given out.
Template(version, status, criteria, made) ==
  [version |-> version, status |-> status, criteria |-> criteria, made |-> made]

\* The tables hold a template with what earlier requests left of its criteria.
Init ==
  /\ \E keys \in SUBSET (1 .. MaxCreated) : \E criteria \in [keys -> Orders] :
       /\ Distinct(criteria)
       /\ templates = << Template(1, "DRAFT", criteria, MaxCreated) >>
  /\ reviews = << >>
  /\ provenance = {}
  /\ call = [r \in Requests |-> New]

-----------------------------------------------------------------------------
(* How a request goes on.                                                  *)

Answer(r, answer) ==
  call' = [call EXCEPT ![r] = [@ EXCEPT !.phase = "answered", !.answer = answer]]

\* The change is committed; the provenance record is next.
Committed(r) == call' = [call EXCEPT ![r].phase = "changed"]

Becomes(r, request) == call' = [call EXCEPT ![r] = request]

Has(r, op) == call[r].phase = "read" /\ call[r].op = op

\* What a request found gone, or no longer unique, is a 500 after a rollback.
Write(r, fits, rows) ==
  IF fits THEN templates' = rows /\ Committed(r)
          ELSE Answer(r, "error") /\ UNCHANGED templates

Criteria(r) == templates[call[r].row].criteria

Rewrite(r, criteria) ==
  Write(r, Distinct(criteria), [templates EXCEPT ![call[r].row].criteria = criteria])

-----------------------------------------------------------------------------
(* The requests for templates and criteria.                                *)

\* create_checklist_template: a criterion without an order takes its index.
Create(r, given) ==
  LET orders == [k \in DOMAIN given |-> IF given[k] # 0 THEN given[k] ELSE k - 1]
  IN /\ call[r].phase = "new"
     /\ IF Distinct(orders)
        THEN /\ templates' = Append(templates, Template(1, "DRAFT", orders, Len(given)))
             /\ Becomes(r, [New EXCEPT !.phase = "changed", !.op = "create"])
        ELSE /\ Becomes(r, [New EXCEPT !.phase = "answered", !.op = "create", !.answer = "error"])
             /\ UNCHANGED templates
     /\ UNCHANGED <<reviews, provenance>>

\* The read of every other request for template t, which is never deleted.
ReadTemplate(r, op, t, order, status) ==
  /\ call[r].phase = "new"
  /\ Becomes(r, [New EXCEPT !.phase = "read", !.op = op, !.row = t, !.order = order,
                            !.status = status, !.seen = templates[t].criteria,
                            !.before = templates[t].status])
  /\ UNCHANGED <<templates, reviews, provenance>>

\* update_template_criteria and delete_template_criteria read one criterion.
ReadCriterion(r, op, t, k, order) ==
  /\ call[r].phase = "new"
  /\ k \in DOMAIN templates[t].criteria
  /\ Becomes(r, [New EXCEPT !.phase = "read", !.op = op, !.row = t, !.key = k,
                            !.order = order, !.seen = templates[t].criteria])
  /\ UNCHANGED <<templates, reviews, provenance>>

\* A template, criterion or item that does not exist.
NotFound(r) ==
  /\ call[r].phase = "new"
  /\ Answer(r, "not found")
  /\ UNCHANGED <<templates, reviews, provenance>>

\* order or max_order + 1, where max_order is "scalar() or -1": a highest
\* order of 0 counts as none.  (Mutant: the number of criteria.)
NextOrder_Count(seen) == Cardinality(DOMAIN seen)
NextOrder(seen) ==
  LET highest == Max(Range(seen) \cup {0})
  IN IF highest = 0 THEN 0 ELSE highest + 1

\* add_template_criteria
Add(r) ==
  /\ Has(r, "add")
  /\ LET t == call[r].row
         order == IF call[r].order # 0 THEN call[r].order ELSE NextOrder(call[r].seen)
         key == templates[t].made + 1
         criteria == [k \in DOMAIN Criteria(r) \cup {key} |->
                        IF k = key THEN order ELSE Criteria(r)[k]]
     IN Write(r, Distinct(criteria),
              [templates EXCEPT ![t].criteria = criteria, ![t].made = key])
  /\ UNCHANGED <<reviews, provenance>>

\* update_template_criteria: an order equal to the one that was read is not
\* written, whatever it has become since.
Edit(r) ==
  /\ Has(r, "edit")
  /\ LET k == call[r].key
     IN IF k \notin DOMAIN Criteria(r)
        THEN Answer(r, "error") /\ UNCHANGED templates
        ELSE IF call[r].order = call[r].seen[k]
        THEN Committed(r) /\ UNCHANGED templates
        ELSE Rewrite(r, [Criteria(r) EXCEPT ![k] = call[r].order])
  /\ UNCHANGED <<reviews, provenance>>

\* delete_template_criteria: a row that is gone already is no error.
Delete(r) ==
  /\ Has(r, "delete")
  /\ Rewrite(r, RestrictDomain(Criteria(r), LAMBDA k : k # call[r].key))
  /\ UNCHANGED <<reviews, provenance>>

\* update_checklist_template: any status over any other.  archived_at stays
\* empty, since the status in the body never equals the one of the model.
Patch(r) ==
  /\ Has(r, "patch")
  /\ Committed(r)
  /\ templates' = IF call[r].status = call[r].before THEN templates
                  ELSE [templates EXCEPT ![call[r].row].status = call[r].status]
  /\ UNCHANGED <<reviews, provenance>>

\* create_template_version copies the criteria as they were read.  (Mutant:
\* it moves them.)
Version_Moves(r) ==
  /\ Has(r, "version")
  /\ Committed(r)
  /\ LET old == templates[call[r].row]
     IN templates' = Append([templates EXCEPT ![call[r].row].criteria = NoCriteria],
                            Template(old.version + 1, "DRAFT", call[r].seen, old.made))
  /\ UNCHANGED <<reviews, provenance>>
Version(r) ==
  /\ Has(r, "version")
  /\ Committed(r)
  /\ LET old == templates[call[r].row]
     IN templates' = Append(templates, Template(old.version + 1, "DRAFT", call[r].seen, old.made))
  /\ UNCHANGED <<reviews, provenance>>

-----------------------------------------------------------------------------
(* The requests for promotion reviews.                                     *)

\* initiate_promotion_review: two items, neither of which has a criteria_id.
Initiate(r) ==
  /\ call[r].phase = "new"
  /\ reviews' = Append(reviews, <<"PENDING", "PENDING">>)
  /\ Becomes(r, [New EXCEPT !.phase = "changed", !.op = "initiate"])
  /\ UNCHANGED <<templates, provenance>>

\* update_checklist_item_status: any status over any other, and no record.
ReadItem(r, v, k, status) ==
  /\ call[r].phase = "new"
  /\ Becomes(r, [New EXCEPT !.phase = "read", !.op = "decide", !.row = v, !.key = k,
                            !.status = status, !.before = reviews[v][k]])
  /\ UNCHANGED <<templates, reviews, provenance>>

Decide(r) ==
  /\ Has(r, "decide")
  /\ reviews' = IF call[r].status = call[r].before THEN reviews
                ELSE [reviews EXCEPT ![call[r].row][call[r].key] = call[r].status]
  /\ Answer(r, "done")
  /\ UNCHANGED <<templates, provenance>>

\* submit_evidence looks its item up by criteria_id, which no item has.
SubmitEvidence(r) == NotFound(r)

-----------------------------------------------------------------------------
(* Provenance, failures and restarts.                                      *)

\* The parameters of an initiated review hold UUIDs, which JSON refuses.
Storable(op) == op # "initiate"

Record(r) ==
  /\ call[r].phase = "changed"
  /\ Storable(call[r].op)
  /\ provenance' = provenance \cup {r}
  /\ Answer(r, "done")
  /\ UNCHANGED <<templates, reviews>>

\* create_provenance_record reports nothing, but its rollback expires the row
\* that is to be returned: only a deletion, which returns none, still answers.
\* (Mutant: the failure is as harmless as it looks.)
AnswerUnrecorded_Done(op) == "done"
AnswerUnrecorded(op) == IF op = "delete" THEN "done" ELSE "error"

\* The commit of the record fails, or what follows it.
RecordFails(r, kept) ==
  /\ call[r].phase = "changed"
  /\ kept => Storable(call[r].op)
  /\ provenance' = IF kept THEN provenance \cup {r} ELSE provenance
  /\ Answer(r, AnswerUnrecorded(call[r].op))
  /\ UNCHANGED <<templates, reviews>>

\* The commit of the change fails.
CommitFails(r) ==
  /\ call[r].phase = "read"
  /\ Answer(r, "error")
  /\ UNCHANGED <<templates, reviews, provenance>>

\* The process ends: what is under way has no answer.
Crash ==
  /\ \E r \in Requests : call[r].phase \in {"read", "changed"}
  /\ call' = [r \in Requests |->
       IF call[r].phase \in {"read", "changed"} THEN [call[r] EXCEPT !.phase = "lost"] ELSE call[r]]
  /\ UNCHANGED <<templates, reviews, provenance>>

Begin(r) ==
  \/ \E n \in 0 .. MaxCreated : \E given \in [1 .. n -> Orders] : Create(r, given)
  \/ \E t \in DOMAIN templates :
       \/ \E order \in Orders : ReadTemplate(r, "add", t, order, "none")
       \/ \E status \in Statuses : ReadTemplate(r, "patch", t, 0, status)
       \/ ReadTemplate(r, "version", t, 0, "none")
       \/ \E k \in 1 .. templates[t].made :
            \/ \E order \in Orders : ReadCriterion(r, "edit", t, k, order)
            \/ ReadCriterion(r, "delete", t, k, 0)
  \/ Initiate(r)
  \/ \E v \in DOMAIN reviews, status \in ItemStatuses :
       \E k \in DOMAIN reviews[v] : ReadItem(r, v, k, status)
  \/ SubmitEvidence(r)

Continue(r) ==
  \/ Add(r) \/ Edit(r) \/ Delete(r) \/ Patch(r) \/ Version(r) \/ Decide(r)
  \/ Record(r) \/ CommitFails(r) \/ \E kept \in BOOLEAN : RecordFails(r, kept)

Next == Crash \/ \E r \in Requests : Begin(r) \/ Continue(r)

Spec == Init /\ [][Next]_vars

-----------------------------------------------------------------------------
(* Properties.                                                             *)

\* A change the service reports as done has its provenance record, except a
\* deletion, however the second commit, the rollback after it and a restart
\* fall; and nothing has a record that was not committed first.
AnsweredIsRecorded ==
  \A r \in Requests :
    /\ call[r].answer = "done" /\ call[r].op \notin {"delete", "decide"} => r \in provenance
    /\ r \in provenance => call[r].phase = "answered" /\ call[r].op # "decide"

\* A criterion added without an order comes after every criterion its request
\* saw and nobody has moved or deleted since, whatever else was added.
AppendsComeLast ==
  [][\A r \in Requests :
       Has(r, "add") /\ call[r].order = 0 /\ call'[r].phase = "changed" =>
         LET now == Criteria(r)
             added == templates'[call[r].row].criteria[templates'[call[r].row].made]
         IN \A k \in DOMAIN call[r].seen :
              k \in DOMAIN now /\ now[k] = call[r].seen[k] => added > now[k]]_vars

\* The criteria of a template change only by a request that names it and is
\* about its criteria: in particular a new version leaves the old one whole.
CriteriaChangeByName ==
  [][\A t \in DOMAIN templates :
       templates'[t].criteria # templates[t].criteria =>
         \E r \in Requests : /\ call[r].phase = "read" /\ call'[r].phase = "changed"
                             /\ call[r].op \in {"add", "edit", "delete"} /\ call[r].row = t]_vars
=============================================================================
