------------------------- MODULE ChecklistsProofs -------------------------
(***************************************************************************)
(* For any requests, orders, statuses and number of criteria: what is      *)
(* reported as done is recorded, criteria change only by a request that    *)
(* names their template, and an appended criterion comes last.             *)
(*                                                                         *)
(* The first is about requests alone (RecordsInv); the other two about the *)
(* rows, and about what a request read of them before others wrote (Typed).*)
(***************************************************************************)
EXTENDS Checklists, WellFoundedInduction, TLAPS

\* One request: before its answer it has neither an answer nor a record, and
\* what waits for its record is no decision about an item, which writes none.
Fine(request, recorded) ==
  /\ {"phase", "op", "answer"} \subseteq DOMAIN request
  /\ request.phase # "answered" => request.answer = "none" /\ ~ recorded
  /\ request.phase = "changed" => request.op # "decide"
  /\ request.answer = "done" /\ request.op \notin {"delete", "decide"} => recorded
  /\ recorded => request.op # "decide"

RecordsInv ==
  /\ DOMAIN call = Requests
  /\ \A r \in Requests : Fine(call[r], r \in provenance)

-----------------------------------------------------------------------------
(* Steps of one request *)

\* A request that is replaced by a fine one leaves the others fine.
LEMMA OneRequest ==
  ASSUME RecordsInv, NEW r \in Requests, NEW request,
         call' = [call EXCEPT ![r] = request],
         provenance' \in {provenance, provenance \cup {r}},
         Fine(request, r \in provenance')
  PROVE  RecordsInv'
<1>1. DOMAIN call' = Requests  BY DEF RecordsInv
<1>2. ASSUME NEW q \in Requests  PROVE Fine(call'[q], q \in provenance')
  <2>1. CASE q = r
    <3>1. call'[q] = request  BY <2>1 DEF RecordsInv
    <3> QED  BY <2>1, <3>1
  <2>2. CASE q # r
    <3>1. call'[q] = call[q]  BY <2>2 DEF RecordsInv
    <3>2. (q \in provenance') <=> (q \in provenance)  BY <2>2
    <3>3. Fine(call[q], q \in provenance)  BY DEF RecordsInv
    <3>4. CASE q \in provenance  BY <3>1, <3>2, <3>3, <3>4 DEF Fine
    <3>5. CASE q \notin provenance  BY <3>1, <3>2, <3>3, <3>5 DEF Fine
    <3> QED  BY <3>4, <3>5
  <2> QED  BY <2>1, <2>2
<1> QED  BY <1>1, <1>2 DEF RecordsInv

\* A request that only begins.
LEMMA Begins ==
  ASSUME RecordsInv, NEW r \in Requests, call[r].phase = "new",
         NEW request, Becomes(r, request), UNCHANGED provenance,
         {"phase", "op", "answer"} \subseteq DOMAIN request,
         \/ request.phase \in {"read", "changed"} /\ request.answer = "none"
         \/ request.phase = "answered" /\ request.answer # "done",
         request.phase = "changed" => request.op # "decide"
  PROVE  RecordsInv'
<1>1. r \notin provenance  BY DEF RecordsInv, Fine
<1>2. Fine(request, r \in provenance')  BY <1>1 DEF Fine
<1> QED  BY <1>2, OneRequest DEF Becomes

\* An answer that claims nothing.
LEMMA AnswersNothing ==
  ASSUME RecordsInv, NEW r \in Requests, NEW answer, answer # "done",
         call[r].phase \in {"new", "read"}, Answer(r, answer), UNCHANGED provenance
  PROVE  RecordsInv'
<1> DEFINE request == [call[r] EXCEPT !.phase = "answered", !.answer = answer]
<1>1. Fine(call[r], r \in provenance)  BY DEF RecordsInv
<1>2. r \notin provenance  BY <1>1 DEF Fine
<1>3. /\ DOMAIN request = DOMAIN call[r]
      /\ request.phase = "answered"
      /\ request.answer = answer
      /\ request.op = call[r].op
  BY <1>1 DEF Fine
<1>4. call' = [call EXCEPT ![r] = request]  BY DEF Answer
<1> HIDE DEF request
<1>5. Fine(request, r \in provenance')  BY <1>1, <1>2, <1>3 DEF Fine
<1> QED  BY <1>4, <1>5, OneRequest

\* A change other than a decision is committed.
LEMMA Commits ==
  ASSUME RecordsInv, NEW r \in Requests, call[r].phase = "read", call[r].op # "decide",
         Committed(r), UNCHANGED provenance
  PROVE  RecordsInv'
<1> DEFINE request == [call[r] EXCEPT !.phase = "changed"]
<1>1. Fine(call[r], r \in provenance)  BY DEF RecordsInv
<1>2. /\ DOMAIN request = DOMAIN call[r]
      /\ request.phase = "changed"
      /\ request.answer = call[r].answer
      /\ request.op = call[r].op
  BY <1>1 DEF Fine
<1>3. call' = [call EXCEPT ![r] = request]  BY DEF Committed
<1> HIDE DEF request
<1>4. Fine(request, r \in provenance')  BY <1>1, <1>2 DEF Fine
<1> QED  BY <1>3, <1>4, OneRequest

\* A final answer, with what it needs.
LEMMA Concludes ==
  ASSUME RecordsInv, NEW r \in Requests, NEW answer,
         call[r].phase \in {"read", "changed"}, Answer(r, answer),
         provenance' \in {provenance, provenance \cup {r}},
         answer = "done" /\ call[r].op \notin {"delete", "decide"} => r \in provenance',
         call[r].op = "decide" => provenance' = provenance
  PROVE  RecordsInv'
<1> DEFINE request == [call[r] EXCEPT !.phase = "answered", !.answer = answer]
<1>1. Fine(call[r], r \in provenance)  BY DEF RecordsInv
<1>2. /\ DOMAIN request = DOMAIN call[r]
      /\ request.phase = "answered"
      /\ request.answer = answer
      /\ request.op = call[r].op
  BY <1>1 DEF Fine
<1>3. call' = [call EXCEPT ![r] = request]  BY DEF Answer
<1> HIDE DEF request
<1>4. Fine(request, r \in provenance')  BY <1>1, <1>2 DEF Fine
<1> QED  BY <1>3, <1>4, OneRequest

-----------------------------------------------------------------------------

LEMMA RecordsInit == Init => RecordsInv
BY DEF Init, RecordsInv, Fine, New

LEMMA BeginKeeps ==
  ASSUME RecordsInv, NEW r \in Requests, Begin(r)
  PROVE  RecordsInv'
<1>1. ASSUME NEW given, Create(r, given)  PROVE RecordsInv'
  <2>1. CASE Becomes(r, [New EXCEPT !.phase = "changed", !.op = "create"])
    BY <1>1, <2>1, Begins DEF Create, New
  <2>2. CASE Becomes(r, [New EXCEPT !.phase = "answered", !.op = "create", !.answer = "error"])
    BY <1>1, <2>2, Begins DEF Create, New
  <2> QED  BY <1>1, <2>1, <2>2 DEF Create
<1>2. ASSUME NEW op, NEW t, NEW order, NEW status, ReadTemplate(r, op, t, order, status)
      PROVE  RecordsInv'
  <2> DEFINE request == [New EXCEPT !.phase = "read", !.op = op, !.row = t, !.order = order,
                                    !.status = status, !.seen = templates[t].criteria,
                                    !.before = templates[t].status]
  <2>1. /\ {"phase", "op", "answer"} \subseteq DOMAIN request
        /\ request.phase = "read"
        /\ request.answer = "none"
    BY DEF New
  <2>2. Becomes(r, request) /\ call[r].phase = "new" /\ UNCHANGED provenance
    BY <1>2 DEF ReadTemplate
  <2> HIDE DEF request
  <2> QED  BY <2>1, <2>2, Begins
<1>3. ASSUME NEW op, NEW t, NEW k, NEW order, ReadCriterion(r, op, t, k, order)
      PROVE  RecordsInv'
  <2> DEFINE request == [New EXCEPT !.phase = "read", !.op = op, !.row = t, !.key = k,
                                    !.order = order, !.seen = templates[t].criteria]
  <2>1. /\ {"phase", "op", "answer"} \subseteq DOMAIN request
        /\ request.phase = "read"
        /\ request.answer = "none"
    BY DEF New
  <2>2. Becomes(r, request) /\ call[r].phase = "new" /\ UNCHANGED provenance
    BY <1>3 DEF ReadCriterion
  <2> HIDE DEF request
  <2> QED  BY <2>1, <2>2, Begins
<1>4. ASSUME Initiate(r)  PROVE RecordsInv'
  BY <1>4, Begins DEF Initiate, New
<1>5. ASSUME NEW v, NEW k, NEW status, ReadItem(r, v, k, status)  PROVE RecordsInv'
  <2> DEFINE request == [New EXCEPT !.phase = "read", !.op = "decide", !.row = v, !.key = k,
                                    !.status = status, !.before = reviews[v][k]]
  <2>1. /\ {"phase", "op", "answer"} \subseteq DOMAIN request
        /\ request.phase = "read"
        /\ request.answer = "none"
    BY DEF New
  <2>2. Becomes(r, request) /\ call[r].phase = "new" /\ UNCHANGED provenance
    BY <1>5 DEF ReadItem
  <2> HIDE DEF request
  <2> QED  BY <2>1, <2>2, Begins
<1>6. ASSUME SubmitEvidence(r)  PROVE RecordsInv'
  BY <1>6, AnswersNothing DEF SubmitEvidence, NotFound
<1> QED  BY <1>1, <1>2, <1>3, <1>4, <1>5, <1>6 DEF Begin

LEMMA ContinueKeeps ==
  ASSUME RecordsInv, NEW r \in Requests, Continue(r)
  PROVE  RecordsInv'
<1>1. ASSUME Add(r)  PROVE RecordsInv'
  <2>1. CASE Committed(r)  BY <1>1, <2>1, Commits DEF Add, Has
  <2>2. CASE Answer(r, "error")  BY <1>1, <2>2, AnswersNothing DEF Add, Has
  <2> QED  BY <1>1, <2>1, <2>2 DEF Add, Write
<1>2. ASSUME Edit(r)  PROVE RecordsInv'
  <2>1. CASE Committed(r)  BY <1>2, <2>1, Commits DEF Edit, Has
  <2>2. CASE Answer(r, "error")  BY <1>2, <2>2, AnswersNothing DEF Edit, Has
  <2> QED  BY <1>2, <2>1, <2>2 DEF Edit, Rewrite, Write
<1>3. ASSUME Delete(r)  PROVE RecordsInv'
  <2>1. CASE Committed(r)  BY <1>3, <2>1, Commits DEF Delete, Has
  <2>2. CASE Answer(r, "error")  BY <1>3, <2>2, AnswersNothing DEF Delete, Has
  <2> QED  BY <1>3, <2>1, <2>2 DEF Delete, Rewrite, Write
<1>4. ASSUME Patch(r)  PROVE RecordsInv'
  BY <1>4, Commits DEF Patch, Has
<1>5. ASSUME Version(r)  PROVE RecordsInv'
  BY <1>5, Commits DEF Version, Has
<1>6. ASSUME Decide(r)  PROVE RecordsInv'
  BY <1>6, Concludes DEF Decide, Has
<1>7. ASSUME Record(r)  PROVE RecordsInv'
  <2>1. call[r].op # "decide"  BY <1>7 DEF Record, RecordsInv, Fine
  <2> QED  BY <1>7, <2>1, Concludes DEF Record
<1>8. ASSUME CommitFails(r)  PROVE RecordsInv'
  BY <1>8, AnswersNothing DEF CommitFails
<1>9. ASSUME NEW kept \in BOOLEAN, RecordFails(r, kept)  PROVE RecordsInv'
  <2>1. call[r].op # "decide"  BY <1>9 DEF RecordFails, RecordsInv, Fine
  <2>2. AnswerUnrecorded(call[r].op) = "done" => call[r].op = "delete"
    BY DEF AnswerUnrecorded
  <2> QED  BY <1>9, <2>1, <2>2, Concludes DEF RecordFails
<1> QED  BY <1>1, <1>2, <1>3, <1>4, <1>5, <1>6, <1>7, <1>8, <1>9 DEF Continue

\* A restart loses requests that have neither an answer nor a record.
LEMMA CrashKeeps ==
  ASSUME RecordsInv, Crash
  PROVE  RecordsInv'
<1>1. DOMAIN call' = Requests /\ provenance' = provenance  BY DEF Crash
<1>2. ASSUME NEW r \in Requests  PROVE Fine(call'[r], r \in provenance')
  <2>1. Fine(call[r], r \in provenance)  BY DEF RecordsInv
  <2>2. CASE call[r].phase \in {"read", "changed"}
    <3>1. call'[r] = [call[r] EXCEPT !.phase = "lost"]  BY <2>2 DEF Crash
    <3> QED  BY <1>1, <2>1, <2>2, <3>1 DEF Fine
  <2>3. CASE call[r].phase \notin {"read", "changed"}
    <3>1. call'[r] = call[r]  BY <2>3 DEF Crash
    <3> QED  BY <1>1, <2>1, <3>1
  <2> QED  BY <2>2, <2>3
<1> QED  BY <1>1, <1>2 DEF RecordsInv

-----------------------------------------------------------------------------

\* The invariant of the requests holds of every behavior.
THEOREM RecordsInvariant == Spec => []RecordsInv
<1>1. RecordsInv /\ [Next]_vars => RecordsInv'
  <2> SUFFICES ASSUME RecordsInv, [Next]_vars PROVE RecordsInv'  OBVIOUS
  <2>1. CASE Crash  BY <2>1, CrashKeeps
  <2>2. ASSUME NEW r \in Requests, Begin(r) \/ Continue(r)  PROVE RecordsInv'
    BY <2>2, BeginKeeps, ContinueKeeps
  <2>3. CASE UNCHANGED vars  BY <2>3 DEF vars, RecordsInv, Fine
  <2> QED  BY <2>1, <2>2, <2>3 DEF Next
<1> QED  BY RecordsInit, <1>1, PTL DEF Spec

\* Every change that is reported as done, but a deletion, has its provenance
\* record (app/services/provenance_service.py:16-30 and the handlers of
\* checklist.py): no order of failures, restarts and requests avoids it.
THEOREM DoneIsRecorded == Spec => []AnsweredIsRecorded
<1>1. RecordsInv => AnsweredIsRecorded  BY DEF RecordsInv, Fine, AnsweredIsRecorded
<1> QED  BY RecordsInvariant, <1>1, PTL

-----------------------------------------------------------------------------
(* Templates.  What a request read of a template may be stale when it      *)
(* writes, but rows are never removed and keys never given out twice.      *)

AnyStatus == Statuses \cup ItemStatuses \cup {"none", "DRAFT", "PENDING"}
CriteriaSet == UNION {[K -> Nat] : K \in SUBSET Nat}

\* Rows hold criteria only under keys they have given out.
Rows == {x \in [version : Nat, status : AnyStatus, criteria : CriteriaSet, made : Nat] :
           DOMAIN x.criteria \subseteq 1 .. x.made}

RequestSet ==
  [phase : {"new", "read", "changed", "answered", "lost"},
   op : {"none", "create", "add", "edit", "delete", "patch", "version", "initiate", "decide"},
   row : Nat, key : Nat, order : Nat, status : AnyStatus, seen : CriteriaSet,
   before : AnyStatus, answer : {"none", "done", "error", "not found"}]

\* A request that is about to write a template saw keys of that template.
ReadFine(r) ==
  call[r].phase = "read" /\ call[r].op # "decide" =>
    /\ call[r].row \in DOMAIN templates
    /\ DOMAIN call[r].seen \subseteq 1 .. templates[call[r].row].made

Typed ==
  /\ templates \in Seq(Rows)
  /\ reviews \in Seq(Seq(AnyStatus))
  /\ call \in [Requests -> RequestSet]
  /\ \A r \in Requests : ReadFine(r)

\* No row is removed, and none takes keys back.
Grows ==
  /\ templates' \in Seq(Rows)
  /\ \A t \in DOMAIN templates :
       t \in DOMAIN templates' /\ templates[t].made <= templates'[t].made

LEMMA AppendGrows ==
  ASSUME templates \in Seq(Rows), NEW row \in Rows, templates' = Append(templates, row)
  PROVE  /\ Grows
         /\ \A t \in DOMAIN templates : templates'[t] = templates[t]
<1>1. templates' \in Seq(Rows)
  OBVIOUS
<1>2. \A t \in DOMAIN templates : t \in DOMAIN templates' /\ templates'[t] = templates[t]
  OBVIOUS
<1>3. \A t \in DOMAIN templates : templates[t].made \in Nat
  BY DEF Rows
<1> QED BY <1>1, <1>2, <1>3 DEF Grows

LEMMA ChangeGrows ==
  ASSUME templates \in Seq(Rows), NEW t \in DOMAIN templates, NEW row \in Rows,
         templates' = [templates EXCEPT ![t] = row], templates[t].made <= row.made
  PROVE  Grows
<1>1. templates' \in Seq(Rows)
  OBVIOUS
<1>2. \A u \in DOMAIN templates : templates[u].made \in Nat
  BY DEF Rows
<1> QED BY <1>1, <1>2 DEF Grows

LEMMA SameGrows == templates \in Seq(Rows) /\ UNCHANGED templates => Grows
<1> SUFFICES ASSUME templates \in Seq(Rows), UNCHANGED templates PROVE Grows
  OBVIOUS
<1>1. \A u \in DOMAIN templates : templates[u].made \in Nat
  BY DEF Rows
<1> QED BY <1>1 DEF Grows

\* What one request does to itself, while templates grow.
LEMMA OneTyped ==
  ASSUME Typed, NEW r \in Requests, NEW request \in RequestSet,
         call' = [call EXCEPT ![r] = request], Grows, reviews' \in Seq(Seq(AnyStatus)),
         request.phase = "read" /\ request.op # "decide" =>
           /\ request.row \in DOMAIN templates
           /\ DOMAIN request.seen \subseteq 1 .. templates[request.row].made
  PROVE  Typed'
<1>1. call' \in [Requests -> RequestSet] /\ call'[r] = request
  BY DEF Typed
<1>2. ASSUME NEW q \in Requests PROVE ReadFine(q)'
  <2> SUFFICES ASSUME call'[q].phase = "read", call'[q].op # "decide"
               PROVE  /\ call'[q].row \in DOMAIN templates'
                      /\ DOMAIN call'[q].seen \subseteq 1 .. templates'[call'[q].row].made
    BY DEF ReadFine
  <2>1. /\ call'[q].row \in DOMAIN templates
        /\ DOMAIN call'[q].seen \subseteq 1 .. templates[call'[q].row].made
    <3>1. CASE q = r
      BY <1>1, <3>1
    <3>2. CASE q # r
      BY <3>2 DEF Typed, ReadFine
    <3> QED BY <3>1, <3>2
  <2> DEFINE t == call'[q].row
  <2>2. /\ t \in DOMAIN templates'
        /\ templates[t].made \in Nat /\ templates'[t].made \in Nat
        /\ templates[t].made <= templates'[t].made
    BY <2>1 DEF Grows, Typed, Rows
  <2> QED BY <2>1, <2>2
<1> QED BY <1>1, <1>2 DEF Typed, Grows

\* The criteria of a row change only in a step that commits the request r, if
\* it names the row and is about criteria.
ByName(r) ==
  \A t \in DOMAIN templates :
    templates'[t].criteria # templates[t].criteria =>
      /\ call[r].phase = "read" /\ call'[r].phase = "changed"
      /\ call[r].op \in {"add", "edit", "delete"} /\ call[r].row = t

\* The request becomes one that is through with its read.
Ends(r) ==
  \E request \in RequestSet :
    /\ call' = [call EXCEPT ![r] = request] /\ call'[r] = request
    /\ request.phase \in {"changed", "answered"}

\* Which it does when it is committed or answered.
LEMMA Ending ==
  ASSUME Typed, NEW r \in Requests,
         Committed(r) \/ \E answer \in {"done", "error", "not found"} : Answer(r, answer)
  PROVE  Ends(r) /\ (Committed(r) => call'[r].phase = "changed")
<1>1. call \in [Requests -> RequestSet] /\ call[r] \in RequestSet
  BY DEF Typed
<1>2. ASSUME Committed(r) PROVE Ends(r) /\ call'[r].phase = "changed"
  <2> DEFINE request == [call[r] EXCEPT !.phase = "changed"]
  <2>1. request \in RequestSet /\ request.phase = "changed"
    BY <1>1 DEF RequestSet
  <2>2. call' = [call EXCEPT ![r] = request]
    BY <1>2 DEF Committed
  <2> HIDE DEF request
  <2>3. call'[r] = request
    BY <1>1, <2>2
  <2> QED BY <2>1, <2>2, <2>3 DEF Ends
<1>3. ASSUME NEW answer \in {"done", "error", "not found"}, Answer(r, answer)
      PROVE  Ends(r)
  <2> DEFINE request == [call[r] EXCEPT !.phase = "answered", !.answer = answer]
  <2>1. request \in RequestSet /\ request.phase = "answered"
    BY <1>1 DEF RequestSet
  <2>2. call' = [call EXCEPT ![r] = request]
    BY <1>3 DEF Answer
  <2> HIDE DEF request
  <2>3. call'[r] = request
    BY <1>1, <2>2
  <2> QED BY <2>1, <2>2, <2>3 DEF Ends
<1> QED BY <1>2, <1>3

\* A request that leaves the templates alone is committed or answered.
LEMMA LeavesTemplates ==
  ASSUME Typed, NEW r \in Requests, UNCHANGED templates, reviews' \in Seq(Seq(AnyStatus)),
         Committed(r) \/ \E answer \in {"done", "error", "not found"} : Answer(r, answer)
  PROVE  Typed' /\ ByName(r)
<1>1. Grows
  BY SameGrows DEF Typed
<1>2. PICK request \in RequestSet :
        call' = [call EXCEPT ![r] = request] /\ request.phase \in {"changed", "answered"}
  BY Ending DEF Ends
<1>3. Typed'
  BY <1>1, <1>2, OneTyped
<1> QED BY <1>3 DEF ByName

\* The criteria of one row are replaced, or the request fails.
LEMMA Writes ==
  ASSUME Typed, NEW r \in Requests,
         call[r].phase = "read", call[r].op \in {"add", "edit", "delete"},
         NEW criteria \in CriteriaSet, NEW made \in Nat, NEW fits \in BOOLEAN,
         templates[call[r].row].made <= made, DOMAIN criteria \subseteq 1 .. made,
         Write(r, fits, [templates EXCEPT ![call[r].row] =
                           [templates[call[r].row] EXCEPT !.criteria = criteria, !.made = made]]),
         UNCHANGED reviews
  PROVE  Typed' /\ ByName(r)
<1> DEFINE t == call[r].row
           row == [templates[t] EXCEPT !.criteria = criteria, !.made = made]
<1>1. CASE fits
  <2>1. t \in DOMAIN templates /\ templates[t] \in Rows
    BY DEF Typed, ReadFine
  <2>2. row \in Rows /\ row.made = made
    BY <2>1 DEF Rows
  <2>3. templates' = [templates EXCEPT ![t] = row] /\ Committed(r)
    BY <1>1 DEF Write
  <2> HIDE DEF row
  <2>4. Grows
    BY <2>1, <2>2, <2>3, ChangeGrows DEF Typed
  <2>5. PICK request \in RequestSet :
          call' = [call EXCEPT ![r] = request] /\ request.phase \in {"changed", "answered"}
    BY <2>3, Ending DEF Ends
  <2>6. Typed'
    BY <2>4, <2>5, OneTyped DEF Typed
  <2>7. call'[r].phase = "changed"
    BY <2>3, Ending
  <2>8. ByName(r)
    BY <2>1, <2>3, <2>7 DEF ByName, Typed
  <2> QED BY <2>6, <2>8
<1>2. CASE ~ fits
  BY <1>2, LeavesTemplates DEF Write, Typed
<1> QED BY <1>1, <1>2

-----------------------------------------------------------------------------
(* The requests for templates and criteria. *)

\* A new key is none of the old ones.
LEMMA OneMore ==
  ASSUME NEW n \in Nat, NEW f \in CriteriaSet, DOMAIN f \subseteq 1 .. n, NEW order \in Nat
  PROVE  LET g == [k \in DOMAIN f \cup {n + 1} |-> IF k = n + 1 THEN order ELSE f[k]] IN
         /\ g \in CriteriaSet /\ DOMAIN g = DOMAIN f \cup {n + 1}
         /\ g[n + 1] = order /\ \A k \in DOMAIN f : g[k] = f[k] /\ k # n + 1
<1> DEFINE g == [k \in DOMAIN f \cup {n + 1} |-> IF k = n + 1 THEN order ELSE f[k]]
<1>2. \A k \in DOMAIN f : k # n + 1 /\ k \in Nat /\ f[k] \in Nat
  BY DEF CriteriaSet
<1>3. g \in [DOMAIN f \cup {n + 1} -> Nat] /\ (DOMAIN f \cup {n + 1}) \in SUBSET Nat
  BY <1>2
<1>4. g \in CriteriaSet
  BY <1>3 DEF CriteriaSet
<1>5. /\ DOMAIN g = DOMAIN f \cup {n + 1}
      /\ g[n + 1] = order /\ \A k \in DOMAIN f : g[k] = f[k]
  BY <1>2
<1> QED BY <1>2, <1>4, <1>5

\* Finitely many orders have a highest one: a least number m such that those of
\* some keys up to m have none would leave none for m - 1 either.
LEMMA HighestExists ==
  ASSUME NEW n \in Nat, NEW K \in SUBSET (1 .. n), NEW f \in [K -> Nat], K # {}
  PROVE  \E k \in K : \A i \in K : f[k] >= f[i]
<1> DEFINE Highest(L, k) == \A i \in L : f[k] >= f[i]
           Bad == {m \in Nat : \E L \in SUBSET K :
                     L \subseteq 1 .. m /\ L # {} /\ \A k \in L : ~ Highest(L, k)}
<1> SUFFICES ASSUME Bad # {} PROVE FALSE
  <2>1. n \notin Bad
    OBVIOUS
  <2> QED BY <2>1
<1>1. PICK m \in Bad : \A i \in Bad : ~ (i < m)
  <2>1. \E m \in Bad : \A i \in Bad : ~ (<<i, m>> \in OpToRel(<, Nat))
    <3>1. Bad \subseteq Nat
      OBVIOUS
    <3> HIDE DEF Bad
    <3> QED BY <3>1, NatLessThanWellFounded, WFMin
  <2> QED BY <2>1 DEF OpToRel
<1>2. PICK L \in SUBSET K : L \subseteq 1 .. m /\ L # {} /\ \A k \in L : ~ Highest(L, k)
  OBVIOUS
<1>3. m \in Nat /\ m - 1 \in Nat
  <2>1. m \in Nat
    OBVIOUS
  <2>2. ASSUME m = 0 PROVE FALSE
    <3>1. 1 .. m = {}
      BY <2>2
    <3> QED BY <1>2, <3>1
  <2> HIDE DEF Bad
  <2> QED BY <2>1, <2>2
<1>4. m - 1 \notin Bad
  <2> HIDE DEF Bad
  <2>1. m - 1 < m
    BY <1>3
  <2> QED BY <1>1, <2>1
<1>5. CASE m \notin L
  <2>1. L \subseteq 1 .. (m - 1)
    BY <1>2, <1>3, <1>5
  <2> QED BY <1>2, <1>3, <1>4, <2>1
<1>6. CASE m \in L
  <2> DEFINE M == L \ {m}
  <2>1. M \subseteq 1 .. (m - 1)
    BY <1>2, <1>3
  <2>2. \A i \in L : f[i] \in Nat
    BY <1>2
  <2>3. CASE M = {}
    <3>1. Highest(L, m)
      BY <1>6, <2>2, <2>3
    <3> QED BY <1>2, <1>6, <3>1
  <2>4. CASE M # {}
    <3>1. PICK k \in M : Highest(M, k)
      BY <1>3, <1>4, <2>1, <2>4
    <3>2. Highest(L, k) \/ Highest(L, m)
      BY <1>6, <2>2, <3>1
    <3> QED BY <1>2, <1>6, <3>1, <3>2
  <2> QED BY <2>3, <2>4
<1> QED BY <1>5, <1>6

\* max_order + 1 is above every order that was read, and 0 is not below any.
LEMMA NextOrderIsLast ==
  ASSUME NEW n \in Nat, NEW seen \in CriteriaSet, DOMAIN seen \subseteq 1 .. n
  PROVE  /\ NextOrder(seen) \in Nat
         /\ \A k \in DOMAIN seen : NextOrder(seen) > seen[k] \/ NextOrder(seen) = seen[k]
         /\ \A k \in DOMAIN seen : NextOrder(seen) = seen[k] => seen[k] = 0
<1> DEFINE Values == Range(seen) \cup {0}
<1>1. /\ \A k \in DOMAIN seen : seen[k] \in Nat
      /\ seen \in [DOMAIN seen -> Nat]
  BY DEF CriteriaSet
<1>2. \E x \in Values : \A y \in Values : x >= y
  <2>1. CASE DOMAIN seen = {}
    BY <2>1 DEF Range
  <2>2. CASE DOMAIN seen # {}
    <3>1. PICK k \in DOMAIN seen : \A i \in DOMAIN seen : seen[k] >= seen[i]
      BY <1>1, <2>2, HighestExists
    <3>2. seen[k] \in Values /\ \A y \in Values : seen[k] >= y
      BY <1>1, <3>1 DEF Range
    <3> QED BY <3>2
  <2> QED BY <2>1, <2>2
<1>3. Max(Values) \in Values /\ \A y \in Values : Max(Values) >= y
  BY <1>2 DEF Max
<1>4. Max(Values) \in Nat /\ \A k \in DOMAIN seen : Max(Values) >= seen[k]
  BY <1>1, <1>3 DEF Range
<1> QED BY <1>1, <1>4 DEF NextOrder

\* What a request about a template has in hand.
LEMMA InHand ==
  ASSUME Typed, NEW r \in Requests, call[r].phase = "read", call[r].op # "decide"
  PROVE  /\ call[r] \in RequestSet
         /\ call[r].row \in DOMAIN templates
         /\ templates[call[r].row] \in Rows
         /\ templates[call[r].row].made \in Nat
         /\ Criteria(r) \in CriteriaSet
         /\ DOMAIN Criteria(r) \subseteq 1 .. templates[call[r].row].made
         /\ call[r].seen \in CriteriaSet
         /\ DOMAIN call[r].seen \subseteq 1 .. templates[call[r].row].made
<1>1. call[r] \in RequestSet /\ call[r].row \in DOMAIN templates
  BY DEF Typed, ReadFine
<1>2. templates[call[r].row] \in Rows
  BY <1>1 DEF Typed
<1> QED BY <1>1, <1>2 DEF Typed, ReadFine, RequestSet, Rows, Criteria

\* One row with other criteria, its keys as they were.
LEMMA RewriteKeeps ==
  ASSUME Typed, NEW r \in Requests, call[r].phase = "read",
         call[r].op \in {"add", "edit", "delete"},
         NEW criteria \in CriteriaSet, DOMAIN criteria \subseteq DOMAIN Criteria(r),
         Rewrite(r, criteria), UNCHANGED reviews
  PROVE  Typed' /\ ByName(r)
<1> DEFINE t == call[r].row
<1>1. /\ t \in DOMAIN templates /\ templates[t] \in Rows /\ templates[t].made \in Nat
      /\ DOMAIN criteria \subseteq 1 .. templates[t].made
  BY InHand
<1>2. [templates[t] EXCEPT !.criteria = criteria, !.made = templates[t].made]
        = [templates[t] EXCEPT !.criteria = criteria]
  BY <1>1 DEF Rows
<1>3. Distinct(criteria) \in BOOLEAN
  BY DEF Distinct, IsInjective
<1>4. Write(r, Distinct(criteria),
            [templates EXCEPT ![t] = [templates[t] EXCEPT !.criteria = criteria,
                                                          !.made = templates[t].made]])
  BY <1>2 DEF Rewrite
<1>5. templates[t].made <= templates[t].made
  BY <1>1
<1> DEFINE made == templates[t].made
           fits == Distinct(criteria)
<1> HIDE DEF made, fits
<1>6. made = templates[t].made /\ fits = Distinct(criteria)
  BY DEF made, fits
<1>7. Write(r, fits, [templates EXCEPT ![t] = [templates[t] EXCEPT !.criteria = criteria,
                                                                  !.made = made]])
  BY <1>4, <1>6
<1> QED BY <1>1, <1>3, <1>5, <1>6, <1>7, Writes

LEMMA EditKeeps ==
  ASSUME Typed, NEW r \in Requests, Edit(r)
  PROVE  Typed' /\ ByName(r)
<1> DEFINE k == call[r].key
           criteria == [Criteria(r) EXCEPT ![k] = call[r].order]
<1>1. call[r].phase = "read" /\ call[r].op = "edit" /\ UNCHANGED reviews
  BY DEF Edit, Has
<1>2. CASE k \notin DOMAIN Criteria(r) \/ call[r].order = call[r].seen[k]
  BY <1>1, <1>2, LeavesTemplates DEF Edit, Typed
<1>3. CASE ~ (k \notin DOMAIN Criteria(r) \/ call[r].order = call[r].seen[k])
  <2>1. Rewrite(r, criteria)
    BY <1>3 DEF Edit
  <2>2. /\ Criteria(r) \in [DOMAIN Criteria(r) -> Nat] /\ DOMAIN Criteria(r) \in SUBSET Nat
        /\ call[r].order \in Nat
    <3>1. Criteria(r) \in CriteriaSet /\ call[r] \in RequestSet
      BY <1>1, InHand
    <3>2. call[r].order \in Nat
      BY <3>1 DEF RequestSet
    <3>3. PICK K \in SUBSET Nat : Criteria(r) \in [K -> Nat]
      BY <3>1 DEF CriteriaSet
    <3> QED BY <3>2, <3>3
  <2>3. criteria \in [DOMAIN Criteria(r) -> Nat] /\ DOMAIN criteria = DOMAIN Criteria(r)
    BY <2>2
  <2>4. criteria \in CriteriaSet
    BY <2>2, <2>3 DEF CriteriaSet
  <2> QED BY <1>1, <2>1, <2>3, <2>4, RewriteKeeps
<1> QED BY <1>2, <1>3

LEMMA DeleteKeeps ==
  ASSUME Typed, NEW r \in Requests, Delete(r)
  PROVE  Typed' /\ ByName(r)
<1> DEFINE criteria == RestrictDomain(Criteria(r), LAMBDA k : k # call[r].key)
<1>1. call[r].phase = "read" /\ call[r].op = "delete" /\ UNCHANGED reviews
  BY DEF Delete, Has
<1>2. criteria = [k \in {x \in DOMAIN Criteria(r) : x # call[r].key} |-> Criteria(r)[k]]
  BY DEF RestrictDomain, Restrict
<1>3. criteria \in CriteriaSet /\ DOMAIN criteria \subseteq DOMAIN Criteria(r)
  <2> DEFINE K == {x \in DOMAIN Criteria(r) : x # call[r].key}
  <2>1. \A k \in DOMAIN Criteria(r) : k \in Nat /\ Criteria(r)[k] \in Nat
    BY <1>1, InHand DEF CriteriaSet
  <2> HIDE DEF criteria
  <2>2. criteria \in [K -> Nat] /\ K \in SUBSET Nat
    BY <1>2, <2>1
  <2> QED BY <2>2 DEF CriteriaSet
<1>4. Rewrite(r, criteria)
  BY DEF Delete
<1> HIDE DEF criteria
<1> QED BY <1>1, <1>3, <1>4, RewriteKeeps

\* Besides, an appended criterion has the next order, and no other of the row's
\* criteria has its order.
LEMMA AddKeeps ==
  ASSUME Typed, NEW r \in Requests, Add(r)
  PROVE  /\ Typed' /\ ByName(r)
         /\ call[r].order = 0 /\ call'[r].phase = "changed" =>
              LET now == Criteria(r)
                  made == templates'[call[r].row].made
                  criteria == templates'[call[r].row].criteria
              IN /\ criteria[made] = NextOrder(call[r].seen)
                 /\ \A k \in DOMAIN now : now[k] # criteria[made]
<1> DEFINE t == call[r].row
           order == IF call[r].order # 0 THEN call[r].order ELSE NextOrder(call[r].seen)
           key == templates[t].made + 1
           criteria == [k \in DOMAIN Criteria(r) \cup {key} |->
                          IF k = key THEN order ELSE Criteria(r)[k]]
           row == [templates[t] EXCEPT !.criteria = criteria, !.made = key]
<1>1. call[r].phase = "read" /\ call[r].op = "add" /\ UNCHANGED reviews
  BY DEF Add, Has
<1>2. t \in DOMAIN templates /\ templates[t] \in Rows /\ templates[t].made \in Nat
  BY <1>1, InHand
<1>3. order \in Nat
  BY <1>1, <1>2, InHand, NextOrderIsLast DEF RequestSet
<1>4. /\ criteria \in CriteriaSet /\ DOMAIN criteria = DOMAIN Criteria(r) \cup {key}
      /\ criteria[key] = order /\ \A k \in DOMAIN Criteria(r) : criteria[k] = Criteria(r)[k] /\ k # key
  <2> HIDE DEF order
  <2> QED BY <1>1, <1>2, <1>3, InHand, OneMore
<1>5. Write(r, Distinct(criteria), [templates EXCEPT ![t].criteria = criteria, ![t].made = key])
  BY DEF Add
<1> HIDE DEF criteria, order
<1>6. [templates EXCEPT ![t].criteria = criteria, ![t].made = key] = [templates EXCEPT ![t] = row]
  BY <1>2 DEF Typed
<1>7. Distinct(criteria) \in BOOLEAN
  BY DEF Distinct, IsInjective
<1>8. key \in Nat /\ templates[t].made <= key /\ DOMAIN criteria \subseteq 1 .. key
  BY <1>1, <1>2, <1>4, InHand
<1>9. Typed' /\ ByName(r)
  BY <1>1, <1>4, <1>5, <1>6, <1>7, <1>8, Writes
<1>10. ASSUME call[r].order = 0, call'[r].phase = "changed"
       PROVE  /\ templates'[t].made = key
              /\ templates'[t].criteria = criteria
              /\ Distinct(criteria)
  <2>1. Distinct(criteria)
    <3> SUFFICES ASSUME ~ Distinct(criteria) PROVE FALSE
      OBVIOUS
    <3>1. Answer(r, "error")
      BY <1>5 DEF Write
    <3>2. call'[r].phase = "answered"
      BY <1>1, <3>1, InHand DEF Answer, Typed, RequestSet
    <3> QED BY <1>10, <3>2
  <2>2. templates' = [templates EXCEPT ![t] = row]
    BY <1>5, <1>6, <2>1 DEF Write
  <2>3. row.made = key /\ row.criteria = criteria
    BY <1>2 DEF Rows
  <2> QED BY <1>2, <2>1, <2>2, <2>3
<1>11. ASSUME call[r].order = 0, call'[r].phase = "changed"
       PROVE  /\ criteria[key] = NextOrder(call[r].seen)
              /\ \A k \in DOMAIN Criteria(r) : Criteria(r)[k] # criteria[key]
  <2>1. order = NextOrder(call[r].seen)
    BY <1>11 DEF order
  <2> QED BY <1>4, <1>10, <1>11, <2>1 DEF Distinct, IsInjective
<1> QED BY <1>9, <1>10, <1>11

\* Any status over any other: criteria and keys stay.
LEMMA PatchKeeps ==
  ASSUME Typed, NEW r \in Requests, Patch(r)
  PROVE  Typed' /\ ByName(r)
<1> DEFINE t == call[r].row
           row == [templates[t] EXCEPT !.status = call[r].status]
<1>1. call[r].phase = "read" /\ call[r].op = "patch" /\ UNCHANGED reviews /\ Committed(r)
  BY DEF Patch, Has
<1>2. CASE call[r].status = call[r].before
  BY <1>1, <1>2, LeavesTemplates DEF Patch, Typed
<1>3. CASE call[r].status # call[r].before
  <2>1. templates' = [templates EXCEPT ![t] = row]
    BY <1>3 DEF Patch
  <2>2. t \in DOMAIN templates /\ templates[t] \in Rows /\ templates[t].made \in Nat
    BY <1>1, InHand
  <2>3. call[r].status \in AnyStatus
    BY <1>1, InHand DEF RequestSet
  <2>4. row \in Rows /\ row.made = templates[t].made /\ row.criteria = templates[t].criteria
    BY <2>2, <2>3 DEF Rows
  <2> HIDE DEF row
  <2>5. templates[t].made <= row.made
    BY <2>2, <2>4
  <2>6. Grows
    BY <2>1, <2>2, <2>4, <2>5, ChangeGrows DEF Typed
  <2>7. PICK request \in RequestSet :
          call' = [call EXCEPT ![r] = request] /\ request.phase \in {"changed", "answered"}
    BY <1>1, Ending DEF Ends
  <2>8. Typed'
    BY <1>1, <2>6, <2>7, OneTyped DEF Typed
  <2>9. \A u \in DOMAIN templates : templates'[u].criteria = templates[u].criteria
    BY <2>1, <2>2, <2>4
  <2> QED BY <2>8, <2>9 DEF ByName
<1> QED BY <1>2, <1>3

\* A row is appended; the others stay.
LEMMA Appends ==
  ASSUME Typed, NEW r \in Requests, NEW row \in Rows, NEW request \in RequestSet,
         templates' = Append(templates, row), call' = [call EXCEPT ![r] = request],
         request.phase \in {"changed", "answered"}, UNCHANGED reviews
  PROVE  Typed' /\ ByName(r)
<1>1. Grows /\ \A t \in DOMAIN templates : templates'[t] = templates[t]
  BY AppendGrows DEF Typed
<1>2. Typed'
  BY <1>1, OneTyped DEF Typed
<1> QED BY <1>1, <1>2 DEF ByName

\* The new version has the criteria that were read, under keys of the old one.
LEMMA VersionKeeps ==
  ASSUME Typed, NEW r \in Requests, Version(r)
  PROVE  Typed' /\ ByName(r)
<1> DEFINE old == templates[call[r].row]
           row == Template(old.version + 1, "DRAFT", call[r].seen, old.made)
<1>1. call[r].phase = "read" /\ call[r].op = "version" /\ UNCHANGED reviews /\ Committed(r)
  BY DEF Version, Has
<1>2. templates' = Append(templates, row)
  BY DEF Version
<1>3. /\ old \in Rows /\ call[r].seen \in CriteriaSet
      /\ DOMAIN call[r].seen \subseteq 1 .. old.made
  BY <1>1, InHand
<1>4. old.version + 1 \in Nat /\ old.made \in Nat /\ "DRAFT" \in AnyStatus
  BY <1>3 DEF Rows, AnyStatus
<1>5. row \in Rows
  BY <1>3, <1>4 DEF Template, Rows
<1> HIDE DEF row
<1>6. PICK request \in RequestSet :
        call' = [call EXCEPT ![r] = request] /\ request.phase \in {"changed", "answered"}
  BY <1>1, Ending DEF Ends
<1> QED BY <1>1, <1>2, <1>5, <1>6, Appends

\* A request just begun, or refused at once.
LEMMA NewRequest ==
  New \in RequestSet /\ NoCriteria \in CriteriaSet /\ DOMAIN NoCriteria = {}
<1>1. NoCriteria \in [{} -> Nat] /\ DOMAIN NoCriteria = {}
  BY DEF NoCriteria
<1>2. NoCriteria \in CriteriaSet
  BY <1>1 DEF CriteriaSet
<1> HIDE DEF NoCriteria
<1> QED BY <1>1, <1>2 DEF New, RequestSet, AnyStatus

LEMMA CreateKeeps ==
  ASSUME Typed, NEW r \in Requests, NEW n \in 0 .. MaxCreated, NEW given \in [1 .. n -> Orders],
         Create(r, given)
  PROVE  Typed' /\ ByName(r)
<1> DEFINE orders == [k \in DOMAIN given |-> IF given[k] # 0 THEN given[k] ELSE k - 1]
           row == Template(1, "DRAFT", orders, Len(given))
<1>1. n \in Nat /\ Len(given) = n
  BY CreatedAssumption
<1>2. ASSUME NEW k \in 1 .. n PROVE given[k] \in Nat /\ k - 1 \in Nat
  <2>1. given[k] \in Orders
    OBVIOUS
  <2>2. given[k] \in Nat
    BY <2>1, OrdersAssumption
  <2>3. k - 1 \in Nat
    <3> HIDE DEF orders
    <3> QED BY <1>1
  <2> QED BY <2>2, <2>3
<1>3. orders \in [1 .. n -> Nat] /\ DOMAIN orders = 1 .. n
  BY <1>2
<1>4. orders \in CriteriaSet
  BY <1>1, <1>3 DEF CriteriaSet
<1>5. CASE Distinct(orders)
  <2> HIDE DEF orders
  <2>1. row \in Rows
    BY <1>1, <1>3, <1>4 DEF Rows, Template, AnyStatus
  <2> DEFINE request == [New EXCEPT !.phase = "changed", !.op = "create"]
  <2>2. request \in RequestSet /\ request.phase = "changed"
    BY NewRequest DEF RequestSet
  <2>3. /\ templates' = Append(templates, row) /\ call' = [call EXCEPT ![r] = request]
        /\ UNCHANGED reviews
    BY <1>5 DEF Create, Becomes, orders
  <2> HIDE DEF row, request
  <2> QED BY <2>1, <2>2, <2>3, Appends
<1>6. CASE ~ Distinct(orders)
  <2> DEFINE request == [New EXCEPT !.phase = "answered", !.op = "create", !.answer = "error"]
  <2>1. request \in RequestSet /\ request.phase = "answered"
    BY NewRequest DEF RequestSet
  <2>2. UNCHANGED <<templates, reviews>> /\ call' = [call EXCEPT ![r] = request]
    BY <1>6 DEF Create, Becomes
  <2>3. Grows
    BY <2>2, SameGrows DEF Typed
  <2> HIDE DEF request
  <2>4. Typed'
    BY <2>1, <2>2, <2>3, OneTyped DEF Typed
  <2> QED BY <2>2, <2>4 DEF ByName
<1> QED BY <1>5, <1>6

-----------------------------------------------------------------------------
(* Reads, reviews, records and restarts: templates stay as they are. *)

\* A step in which one request becomes another, and no row changes.
LEMMA Reads ==
  ASSUME Typed, NEW r \in Requests, NEW request \in RequestSet, Becomes(r, request),
         UNCHANGED templates, reviews' \in Seq(Seq(AnyStatus)),
         request.phase = "read" /\ request.op # "decide" =>
           /\ request.row \in DOMAIN templates
           /\ DOMAIN request.seen \subseteq 1 .. templates[request.row].made
  PROVE  Typed' /\ ByName(r)
<1>1. Grows
  BY SameGrows DEF Typed
<1>2. Typed'
  BY <1>1, OneTyped DEF Becomes
<1> QED BY <1>2 DEF ByName

LEMMA ReadTemplateKeeps ==
  ASSUME Typed, NEW r \in Requests, NEW op \in {"add", "patch", "version"},
         NEW t \in DOMAIN templates, NEW order \in Nat, NEW status \in AnyStatus,
         ReadTemplate(r, op, t, order, status)
  PROVE  Typed' /\ ByName(r)
<1> DEFINE request == [New EXCEPT !.phase = "read", !.op = op, !.row = t, !.order = order,
                                  !.status = status, !.seen = templates[t].criteria,
                                  !.before = templates[t].status]
<1>1. t \in Nat /\ templates[t] \in Rows
  BY DEF Typed
<1>2. /\ templates[t].criteria \in CriteriaSet /\ templates[t].status \in AnyStatus
      /\ DOMAIN templates[t].criteria \subseteq 1 .. templates[t].made
  BY <1>1 DEF Rows
<1>3. /\ request \in RequestSet /\ request.row = t
      /\ request.seen = templates[t].criteria
  BY <1>1, <1>2, NewRequest DEF RequestSet
<1>4. Becomes(r, request) /\ UNCHANGED <<templates, reviews>>
  BY DEF ReadTemplate
<1> HIDE DEF request
<1> QED BY <1>2, <1>3, <1>4, Reads DEF Typed

LEMMA ReadCriterionKeeps ==
  ASSUME Typed, NEW r \in Requests, NEW op \in {"edit", "delete"},
         NEW t \in DOMAIN templates, NEW k \in Nat, NEW order \in Nat,
         ReadCriterion(r, op, t, k, order)
  PROVE  Typed' /\ ByName(r)
<1> DEFINE request == [New EXCEPT !.phase = "read", !.op = op, !.row = t, !.key = k,
                                  !.order = order, !.seen = templates[t].criteria]
<1>1. t \in Nat /\ templates[t] \in Rows
  BY DEF Typed
<1>2. /\ templates[t].criteria \in CriteriaSet
      /\ DOMAIN templates[t].criteria \subseteq 1 .. templates[t].made
  BY <1>1 DEF Rows
<1>3. /\ request \in RequestSet /\ request.row = t
      /\ request.seen = templates[t].criteria
  BY <1>1, <1>2, NewRequest DEF RequestSet
<1>4. Becomes(r, request) /\ UNCHANGED <<templates, reviews>>
  BY DEF ReadCriterion
<1> HIDE DEF request
<1> QED BY <1>2, <1>3, <1>4, Reads DEF Typed

LEMMA InitiateKeeps ==
  ASSUME Typed, NEW r \in Requests, Initiate(r)
  PROVE  Typed' /\ ByName(r)
<1> DEFINE request == [New EXCEPT !.phase = "changed", !.op = "initiate"]
<1>1. <<"PENDING", "PENDING">> \in Seq(AnyStatus)
  BY DEF AnyStatus
<1>2. reviews' \in Seq(Seq(AnyStatus))
  BY <1>1 DEF Initiate, Typed
<1>3. request \in RequestSet /\ request.phase = "changed"
  BY NewRequest DEF RequestSet
<1>4. Becomes(r, request) /\ UNCHANGED templates
  BY DEF Initiate
<1> HIDE DEF request
<1> QED BY <1>2, <1>3, <1>4, Reads

LEMMA ReadItemKeeps ==
  ASSUME Typed, NEW r \in Requests, NEW v \in DOMAIN reviews, NEW k \in DOMAIN reviews[v],
         NEW status \in ItemStatuses, ReadItem(r, v, k, status)
  PROVE  Typed' /\ ByName(r)
<1> DEFINE request == [New EXCEPT !.phase = "read", !.op = "decide", !.row = v, !.key = k,
                                  !.status = status, !.before = reviews[v][k]]
<1>1. reviews[v] \in Seq(AnyStatus) /\ v \in Nat
  BY DEF Typed
<1>2. reviews[v][k] \in AnyStatus /\ k \in Nat /\ status \in AnyStatus
  BY <1>1 DEF AnyStatus
<1>3. request \in RequestSet /\ request.op = "decide"
  BY <1>1, <1>2, NewRequest DEF RequestSet
<1>4. Becomes(r, request) /\ UNCHANGED <<templates, reviews>>
  BY DEF ReadItem
<1> HIDE DEF request
<1> QED BY <1>3, <1>4, Reads DEF Typed

LEMMA ReplaceOne ==
  ASSUME NEW S, NEW s \in Seq(S), NEW k, NEW x \in S
  PROVE  [s EXCEPT ![k] = x] \in Seq(S)
<1>1. CASE k \in DOMAIN s
  BY <1>1
<1>2. CASE k \notin DOMAIN s
  <2>1. [s EXCEPT ![k] = x] = s
    BY <1>2
  <2> QED BY <2>1
<1> QED BY <1>1, <1>2

LEMMA ReplaceInner ==
  ASSUME NEW S, NEW s \in Seq(Seq(S)), NEW v, NEW k, NEW x \in S
  PROVE  [s EXCEPT ![v][k] = x] \in Seq(Seq(S))
<1> DEFINE inner == [s[v] EXCEPT ![k] = x]
<1>1. ASSUME v \in DOMAIN s PROVE [s EXCEPT ![v] = inner] \in Seq(Seq(S))
  <2>1. s[v] \in Seq(S)
    BY <1>1
  <2>2. inner \in Seq(S)
    BY <2>1, ReplaceOne
  <2> HIDE DEF inner
  <2> QED BY <2>2, ReplaceOne
<1>2. ASSUME v \notin DOMAIN s PROVE [s EXCEPT ![v] = inner] \in Seq(Seq(S))
  <2> HIDE DEF inner
  <2>1. [s EXCEPT ![v] = inner] = s
    BY <1>2
  <2> QED BY <2>1
<1>3. [s EXCEPT ![v] = inner] \in Seq(Seq(S))
  BY <1>1, <1>2
<1> QED BY <1>3

\* A decision takes one of the statuses of an item, if the item is there.
LEMMA DecideKeeps ==
  ASSUME Typed, NEW r \in Requests, Decide(r)
  PROVE  Typed' /\ ByName(r)
<1>1. call[r].status \in AnyStatus /\ reviews \in Seq(Seq(AnyStatus))
  BY DEF Typed, RequestSet
<1>2. [reviews EXCEPT ![call[r].row][call[r].key] = call[r].status] \in Seq(Seq(AnyStatus))
  BY <1>1, ReplaceInner
<1>3. reviews' \in Seq(Seq(AnyStatus)) /\ UNCHANGED templates /\ Answer(r, "done")
  BY <1>1, <1>2 DEF Decide
<1> QED BY <1>3, LeavesTemplates

LEMMA BeginTyped ==
  ASSUME Typed, NEW r \in Requests, Begin(r)
  PROVE  Typed' /\ ByName(r)
<1>1. \A order \in Orders : order \in Nat
  BY OrdersAssumption
<1>2. \A status \in Statuses : status \in AnyStatus
  BY DEF AnyStatus
<1>3. "none" \in AnyStatus
  BY DEF AnyStatus
<1>4. ASSUME NEW t \in DOMAIN templates, NEW order \in Orders,
             ReadTemplate(r, "add", t, order, "none")
      PROVE  Typed' /\ ByName(r)
  BY <1>1, <1>3, <1>4, ReadTemplateKeeps
<1>5. ASSUME NEW t \in DOMAIN templates, NEW status \in Statuses,
             ReadTemplate(r, "patch", t, 0, status)
      PROVE  Typed' /\ ByName(r)
  BY <1>2, <1>5, ReadTemplateKeeps
<1>6. ASSUME NEW t \in DOMAIN templates, ReadTemplate(r, "version", t, 0, "none")
      PROVE  Typed' /\ ByName(r)
  BY <1>3, <1>6, ReadTemplateKeeps
<1>7. ASSUME NEW t \in DOMAIN templates, NEW k \in 1 .. templates[t].made, NEW order \in Orders,
             ReadCriterion(r, "edit", t, k, order)
      PROVE  Typed' /\ ByName(r)
  <2>1. k \in Nat
    OBVIOUS
  <2> QED BY <1>1, <1>7, <2>1, ReadCriterionKeeps
<1>8. ASSUME NEW t \in DOMAIN templates, NEW k \in 1 .. templates[t].made,
             ReadCriterion(r, "delete", t, k, 0)
      PROVE  Typed' /\ ByName(r)
  <2>1. k \in Nat
    OBVIOUS
  <2> QED BY <1>8, <2>1, ReadCriterionKeeps
<1>9. ASSUME NEW v \in DOMAIN reviews, NEW k \in DOMAIN reviews[v], NEW status \in ItemStatuses,
             ReadItem(r, v, k, status)
      PROVE  Typed' /\ ByName(r)
  BY <1>9, ReadItemKeeps
<1>10. ASSUME SubmitEvidence(r) PROVE Typed' /\ ByName(r)
  BY <1>10, LeavesTemplates DEF SubmitEvidence, NotFound, Typed
<1> QED BY <1>4, <1>5, <1>6, <1>7, <1>8, <1>9, <1>10, CreateKeeps, InitiateKeeps DEF Begin

LEMMA ContinueTyped ==
  ASSUME Typed, NEW r \in Requests, Continue(r)
  PROVE  Typed' /\ ByName(r)
<1>1. ASSUME Record(r) PROVE Typed' /\ ByName(r)
  BY <1>1, LeavesTemplates DEF Record, Typed
<1>2. ASSUME CommitFails(r) PROVE Typed' /\ ByName(r)
  BY <1>2, LeavesTemplates DEF CommitFails, Typed
<1>3. ASSUME NEW kept \in BOOLEAN, RecordFails(r, kept) PROVE Typed' /\ ByName(r)
  <2>1. AnswerUnrecorded(call[r].op) \in {"done", "error"}
    BY DEF AnswerUnrecorded
  <2> QED BY <1>3, <2>1, LeavesTemplates DEF RecordFails, Typed
<1> QED BY <1>1, <1>2, <1>3, AddKeeps, EditKeeps, DeleteKeeps, PatchKeeps, VersionKeeps,
           DecideKeeps DEF Continue

LEMMA CrashTyped ==
  ASSUME Typed, Crash
  PROVE  Typed' /\ UNCHANGED templates
<1>1. UNCHANGED <<templates, reviews>>
  BY DEF Crash
<1>2. ASSUME NEW r \in Requests
      PROVE  call'[r] \in RequestSet /\ (call'[r].phase = "read" => call'[r] = call[r])
  <2>1. call[r] \in RequestSet
    BY DEF Typed
  <2>2. CASE call[r].phase \in {"read", "changed"}
    <3>1. call'[r] = [call[r] EXCEPT !.phase = "lost"]
      BY <2>2 DEF Crash
    <3>2. call'[r] \in RequestSet /\ call'[r].phase = "lost"
      BY <2>1, <3>1 DEF RequestSet
    <3> QED BY <3>2
  <2>3. CASE call[r].phase \notin {"read", "changed"}
    <3>1. call'[r] = call[r]
      BY <2>3 DEF Crash
    <3> QED BY <2>1, <3>1
  <2> QED BY <2>2, <2>3
<1>3. call' \in [Requests -> RequestSet]
  BY <1>2 DEF Crash
<1>4. \A r \in Requests : ReadFine(r)'
  BY <1>1, <1>2 DEF Typed, ReadFine
<1> QED BY <1>1, <1>3, <1>4 DEF Typed

LEMMA TypedInit == Init => Typed
<1> SUFFICES ASSUME Init PROVE Typed
  OBVIOUS
<1>1. PICK keys \in SUBSET (1 .. MaxCreated) : \E criteria \in [keys -> Orders] :
        templates = << Template(1, "DRAFT", criteria, MaxCreated) >>
  BY DEF Init
<1>9. PICK criteria \in [keys -> Orders] :
        templates = << Template(1, "DRAFT", criteria, MaxCreated) >>
  BY <1>1
<1>2. criteria \in [keys -> Nat] /\ keys \in SUBSET Nat /\ DOMAIN criteria = keys
  <2>1. \A k \in keys : criteria[k] \in Nat
    BY OrdersAssumption
  <2> QED BY <2>1, CreatedAssumption
<1>3. criteria \in CriteriaSet
  BY <1>2 DEF CriteriaSet
<1>4. Template(1, "DRAFT", criteria, MaxCreated) \in Rows
  BY <1>2, <1>3, CreatedAssumption DEF Template, Rows, AnyStatus
<1>5. templates \in Seq(Rows)
  BY <1>9, <1>4
<1>6. reviews \in Seq(Seq(AnyStatus))
  BY DEF Init
<1>7. call \in [Requests -> RequestSet] /\ \A r \in Requests : call[r].phase = "new"
  BY NewRequest DEF Init, New
<1> QED BY <1>5, <1>6, <1>7 DEF Typed, ReadFine

\* The rows and the requests keep their types and their ranges.
THEOREM TypedInvariant == Spec => []Typed
<1>1. Typed /\ [Next]_vars => Typed'
  <2> SUFFICES ASSUME Typed, [Next]_vars PROVE Typed'
    OBVIOUS
  <2>1. CASE Crash
    BY <2>1, CrashTyped
  <2>2. ASSUME NEW r \in Requests, Begin(r) \/ Continue(r) PROVE Typed'
    BY <2>2, BeginTyped, ContinueTyped
  <2>3. CASE UNCHANGED vars
    BY <2>3 DEF vars, Typed, ReadFine
  <2> QED BY <2>1, <2>2, <2>3 DEF Next
<1> QED BY TypedInit, <1>1, PTL DEF Spec

\* The criteria of a row change only by a request that names it and commits:
\* create_template_version in particular copies them (checklist.py:378-432).
THEOREM CriteriaByName == Spec => CriteriaChangeByName
<1> DEFINE Changed(t) == templates'[t].criteria # templates[t].criteria
           Named(t) == \E r \in Requests :
                         /\ call[r].phase = "read" /\ call'[r].phase = "changed"
                         /\ call[r].op \in {"add", "edit", "delete"} /\ call[r].row = t
<1>1. Typed /\ [Next]_vars => [\A t \in DOMAIN templates : Changed(t) => Named(t)]_vars
  <2> SUFFICES ASSUME Typed, Next PROVE \A t \in DOMAIN templates : Changed(t) => Named(t)
    OBVIOUS
  <2>1. CASE Crash
    BY <2>1, CrashTyped
  <2>2. ASSUME NEW r \in Requests, Begin(r) \/ Continue(r)
        PROVE  \A t \in DOMAIN templates : Changed(t) => Named(t)
    BY <2>2, BeginTyped, ContinueTyped DEF ByName
  <2> QED BY <2>1, <2>2 DEF Next
<1> QED BY <1>1, TypedInvariant, PTL DEF Spec, CriteriaChangeByName

-----------------------------------------------------------------------------
(* Appended criteria *)

\* What AppendsComeLast says of the request r.
ComesLast(r) ==
  Has(r, "add") /\ call[r].order = 0 /\ call'[r].phase = "changed" =>
    LET now == Criteria(r)
        added == templates'[call[r].row].criteria[templates'[call[r].row].made]
    IN \A k \in DOMAIN call[r].seen :
         k \in DOMAIN now /\ now[k] = call[r].seen[k] => added > now[k]

\* The next order is above every order that was read, unless both are 0; but
\* then the row has two criteria with order 0, which the constraint forbids.
LEMMA AddComesLast ==
  ASSUME Typed, NEW r \in Requests, Add(r)
  PROVE  ComesLast(r)
<1> SUFFICES ASSUME Has(r, "add"), call[r].order = 0, call'[r].phase = "changed",
                    NEW k \in DOMAIN call[r].seen, k \in DOMAIN Criteria(r),
                    Criteria(r)[k] = call[r].seen[k]
             PROVE  templates'[call[r].row].criteria[templates'[call[r].row].made]
                      > Criteria(r)[k]
  BY DEF ComesLast
<1> DEFINE added == templates'[call[r].row].criteria[templates'[call[r].row].made]
<1>1. added = NextOrder(call[r].seen) /\ Criteria(r)[k] # added
  BY AddKeeps
<1>2. NextOrder(call[r].seen) > call[r].seen[k] \/ NextOrder(call[r].seen) = call[r].seen[k]
  BY InHand, NextOrderIsLast DEF Has
<1> QED BY <1>1, <1>2

\* A step of another request, or of this one with its read or its record, is
\* none in which an addition is committed.
LEMMA OthersStay ==
  ASSUME Typed, NEW r \in Requests, NEW q \in Requests,
         Begin(q) \/ Continue(q), Has(r, "add"), call'[r].phase = "changed"
  PROVE  Add(r)
<1>1. call \in [Requests -> RequestSet]
  BY DEF Typed
<1>2. \E request : call' = [call EXCEPT ![q] = request]
  BY DEF Begin, Continue, Create, ReadTemplate, ReadCriterion, Initiate, ReadItem, SubmitEvidence,
         NotFound, Add, Edit, Delete, Patch, Version, Decide, Record, CommitFails, RecordFails,
         Rewrite, Write, Committed, Answer, Becomes
<1>3. q = r
  BY <1>1, <1>2 DEF Has
<1>4. call[r].phase = "read" /\ call[r].op = "add"
  BY DEF Has
<1>5. ~ Begin(r)
  BY <1>4 DEF Begin, Create, ReadTemplate, ReadCriterion, Initiate, ReadItem, SubmitEvidence, NotFound
<1>6. ~ CommitFails(r)
  <2> SUFFICES ASSUME CommitFails(r) PROVE FALSE
    OBVIOUS
  <2>1. call'[r].phase = "answered"
    BY <1>1 DEF CommitFails, Answer, RequestSet
  <2> QED BY <2>1
<1> QED BY <1>3, <1>4, <1>5, <1>6
     DEF Continue, Edit, Delete, Patch, Version, Decide, Record, RecordFails, Has

\* A criterion added without an order comes after all those its request saw
\* that nobody has moved or deleted since (add_template_criteria, checklist.py:
\* 218-265, and the constraint on the orders of a template).
THEOREM AppendsAreLast == Spec => AppendsComeLast
<1>1. Typed /\ [Next]_vars => [\A r \in Requests : ComesLast(r)]_vars
  <2> SUFFICES ASSUME Typed, Next, NEW r \in Requests PROVE ComesLast(r)
    OBVIOUS
  <2>1. CASE Crash
    <3>1. call'[r].phase # "changed"
      <4>1. CASE call[r].phase \in {"read", "changed"}
        <5>1. call'[r] = [call[r] EXCEPT !.phase = "lost"] /\ call[r] \in RequestSet
          BY <2>1, <4>1 DEF Crash, Typed
        <5> QED BY <5>1 DEF RequestSet
      <4>2. CASE call[r].phase \notin {"read", "changed"}
        BY <2>1, <4>2 DEF Crash
      <4> QED BY <4>1, <4>2
    <3> QED BY <3>1 DEF ComesLast
  <2>2. ASSUME NEW q \in Requests, Begin(q) \/ Continue(q) PROVE ComesLast(r)
    <3> SUFFICES ASSUME Has(r, "add"), call'[r].phase = "changed" PROVE ComesLast(r)
      BY DEF ComesLast
    <3> QED BY <2>2, OthersStay, AddComesLast
  <2> QED BY <2>1, <2>2 DEF Next
<1> QED BY <1>1, TypedInvariant, PTL DEF Spec, AppendsComeLast, ComesLast
=============================================================================
