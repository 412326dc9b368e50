------------------------- MODULE ExperimentsProofs -------------------------
(***************************************************************************)
(* For every number of experiments, flags and requests and whatever they   *)
(* define and measure: the flag of an experiment follows its status, an    *)
(* end leaves a conclusion, and a success was measured.                    *)
(***************************************************************************)
EXTENDS Experiments, WellFoundedInduction, TLAPS

-----------------------------------------------------------------------------
(* The inductive invariant *)

Statuses == {"draft", "running", "paused", "completed", "cancelled"}
Ends == {"completed", "cancelled"}
Overrides == {Override(config) : config \in Configs} \cup {NoOverride}

Row == [status : Statuses \cup {"none"}, config : Configs \cup {NoConfig},
        ended : BOOLEAN, conclusion : {"none", "success", "other"}]
Seen == [status : Statuses \cup {"none"}, config : Configs \cup {NoConfig}, ended : BOOLEAN]

Cells == Statuses \cup BOOLEAN \cup Configs \cup {"none", "success", "other"}
Statements == UNION {[D -> Cells] : D \in SUBSET {"status", "config", "ended", "conclusion"}}

Call == [op : Ops \cup {"none"}, name : Names \cup {"none"},
         phase : {"idle", "fetched", "writing"}, seen : Seen, columns : Statements,
         storable : BOOLEAN, alone : BOOLEAN]

TypeInv ==
  /\ rows \in [Names -> Row]
  /\ dynamic_flags \in [Flags -> Overrides]
  /\ call \in [Calls -> Call]
  /\ disturbed \subseteq Names
  /\ last \in [Flags -> Names \cup {"nobody"}]

\* What a statement may do to the row it is for: an end comes with its date and
\* a conclusion, or the row has them.
Fits(columns, row) ==
  /\ "status" \in DOMAIN columns =>
       /\ columns.status \in Statuses
       /\ columns.status \in Ends => "ended" \in DOMAIN columns \/ row.ended
  /\ "config" \in DOMAIN columns => columns.config \in Configs
  /\ "ended" \in DOMAIN columns => columns.ended = TRUE /\ "conclusion" \in DOMAIN columns
  /\ "conclusion" \in DOMAIN columns => columns.conclusion \in {"success", "other"}

\* A request under way is for a row that exists; a row that was read with an
\* end date keeps it.
CallInv ==
  /\ \A n \in Names : rows[n].status # "none" => rows[n].config \in Configs
  /\ \A c \in Calls :
       /\ call[c].name \in Names <=> call[c].phase # "idle"
       /\ call[c].name \in Names => rows[call[c].name].status # "none"
       /\ call[c].phase = "fetched" =>
            /\ call[c].op \in Ops /\ Allowed(call[c].op, call[c].seen.status)
            /\ call[c].seen.config \in Configs
            /\ call[c].seen.ended => rows[call[c].name].ended
       /\ call[c].phase = "writing" => Fits(call[c].columns, rows[call[c].name])

\* A request that is alone has read the row as it is, and only such a request
\* is under way for an experiment that is not disturbed.
AloneInv ==
  \A c \in Calls : LET n == call[c].name IN n \in Names =>
    /\ call[c].alone => \A d \in Calls \ {c} : call[d].name # n
    /\ call[c].alone /\ call[c].phase = "fetched" =>
         /\ call[c].seen.status = rows[n].status
         /\ call[c].seen.config = rows[n].config
    /\ n \notin disturbed => call[c].alone

\* The override of an experiment's flag agrees with its row, if the experiment
\* was the last to touch it.
Agrees(n, row, flags, touched) ==
  LET f == row.config.flag IN
  /\ row.status = "running" =>
       /\ touched[f] # "nobody"
       /\ touched[f] = n => flags[f] = Override(row.config)
  /\ (row.status \in Ends \cup {"paused"} /\ touched[f] = n) => flags[f] = NoOverride
  /\ row.status \in {"none", "draft"} => \A g \in Flags : touched[g] # n

\* It agrees with the row as it is, or as the request under way will write it.
FlagInv ==
  /\ \A f \in Flags : last[f] = "nobody" => dynamic_flags[f] = NoOverride
  /\ \A n \in Names \ disturbed :
       \/ Agrees(n, rows[n], dynamic_flags, last)
       \/ \E c \in Calls : call[c].name = n /\ call[c].phase = "writing"
  /\ \A c \in Calls :
       (call[c].phase = "writing" /\ call[c].name \notin disturbed) =>
         Agrees(call[c].name, Updated(rows[call[c].name], call[c].columns), dynamic_flags, last)

Inv == TypeInv /\ CallInv /\ AloneInv /\ FlagInv /\ EndedHasConclusion

-----------------------------------------------------------------------------
(* Statements and rows *)

Changes == {"start", "pause", "resume", "conclude", "cancel"}

\* What the statement k of a change to a status names.
Changing(k, seen, status, conclusion) ==
  /\ k \in Statements
  /\ DOMAIN k \subseteq {"status", "ended", "conclusion"}
  /\ "status" \in DOMAIN k <=> seen.status # status
  /\ "status" \in DOMAIN k => k.status = status
  /\ (status \in Ends /\ ~ seen.ended) => {"ended", "conclusion"} \subseteq DOMAIN k
  /\ "ended" \in DOMAIN k => k.ended = TRUE /\ "conclusion" \in DOMAIN k /\ status \in Ends
  /\ "conclusion" \in DOMAIN k => k.conclusion = conclusion /\ status \in Ends

LEMMA ColumnsChanging ==
  ASSUME NEW op \in Changes, NEW seen \in Seen, NEW conclusion \in {"none", "success", "other"}
  PROVE  Changing(Columns(op, seen, conclusion), seen, NewStatus(op), conclusion)
<1> DEFINE k == Columns(op, seen, conclusion)
           status == NewStatus(op)
           ends == status \in {"completed", "cancelled"} /\ ~ seen.ended
           changed == {x \in {"status"} : seen.status # status}
                      \cup {x \in {"ended", "conclusion"} : ends}
           value == [status |-> status, ended |-> TRUE, conclusion |-> conclusion]
<1>1. k = [x \in changed |-> value[x]]
  BY DEF Columns
<1>2. status \in Statuses
  BY DEF Changes, NewStatus, Statuses
<1>3. \A x \in changed : value[x] \in Cells
  <2>1. status \in Cells /\ TRUE \in Cells /\ conclusion \in Cells
    BY <1>2 DEF Cells
  <2>2. value["status"] = status /\ value["ended"] = TRUE /\ value["conclusion"] = conclusion
    OBVIOUS
  <2>3. changed \subseteq {"status", "ended", "conclusion"}
    OBVIOUS
  <2> HIDE DEF changed, value, status
  <2> QED
    BY <2>1, <2>2, <2>3
<1>4. changed \in SUBSET {"status", "config", "ended", "conclusion"}
  OBVIOUS
<1>5. k \in Statements
  <2>1. k \in [changed -> Cells]
    BY <1>1, <1>3
  <2> QED
    BY <2>1, <1>4 DEF Statements
<1>6. /\ DOMAIN k = changed
      /\ "status" \in DOMAIN k => k.status = status
      /\ "ended" \in DOMAIN k => k.ended = TRUE
      /\ "conclusion" \in DOMAIN k => k.conclusion = conclusion
  BY <1>1
<1> HIDE DEF status
<1>7. Changing(k, seen, status, conclusion)
  BY <1>5, <1>6 DEF Changing, Ends
<1> QED
  BY <1>7 DEF status

\* A statement leaves a row that is well-formed, that keeps its end date, and
\* that has a conclusion where it has ended.
LEMMA UpdatedRow ==
  ASSUME NEW row \in Row, NEW columns \in Statements, Fits(columns, row)
  PROVE  LET u == Updated(row, columns) IN
         /\ u \in Row
         /\ row.ended => u.ended
         /\ row.status # "none" => u.status # "none"
         /\ row.config \in Configs => u.config \in Configs
         /\ (/\ row.status \in Ends => row.ended
             /\ row.ended => row.conclusion # "none")
            => (/\ u.status \in Ends => u.ended
                /\ u.ended => u.conclusion # "none")
<1> DEFINE u == Updated(row, columns)
<1>1. /\ DOMAIN row = {"status", "config", "ended", "conclusion"}
      /\ u = [x \in DOMAIN row |-> IF x \in DOMAIN columns THEN columns[x] ELSE row[x]]
  BY DEF Row, Updated
<1>2. /\ u.status = IF "status" \in DOMAIN columns THEN columns.status ELSE row.status
      /\ u.config = IF "config" \in DOMAIN columns THEN columns.config ELSE row.config
      /\ u.ended = IF "ended" \in DOMAIN columns THEN columns.ended ELSE row.ended
      /\ u.conclusion = IF "conclusion" \in DOMAIN columns THEN columns.conclusion
                        ELSE row.conclusion
  BY <1>1
<1>3. u = [status |-> u.status, config |-> u.config, ended |-> u.ended,
           conclusion |-> u.conclusion]
  BY <1>1
<1>4. /\ u.status \in Statuses \cup {"none"} /\ u.config \in Configs \cup {NoConfig}
      /\ u.ended \in BOOLEAN /\ u.conclusion \in {"none", "success", "other"}
  BY <1>2 DEF Row, Fits
<1>5. u \in Row
  BY <1>3, <1>4 DEF Row
<1>6. /\ row.ended => u.ended
      /\ row.status # "none" => u.status # "none"
      /\ row.config \in Configs => u.config \in Configs
  BY <1>2 DEF Fits, Statuses
<1>7. ASSUME row.status \in Ends => row.ended, row.ended => row.conclusion # "none"
      PROVE  (u.status \in Ends => u.ended) /\ (u.ended => u.conclusion # "none")
  BY <1>2, <1>7 DEF Fits
<1> QED
  BY <1>5, <1>6, <1>7

\* Another experiment's touch of a flag leaves an experiment's agreement.
LEMMA AgreesKept ==
  ASSUME NEW m \in Names, NEW n \in Names, m # n, NEW f \in Flags, NEW o,
         NEW row, row.config \in Configs \/ row.status = "none",
         NEW flags \in [Flags -> Overrides], NEW touched \in [Flags -> Names \cup {"nobody"}],
         Agrees(m, row, flags, touched)
  PROVE  Agrees(m, row, [flags EXCEPT ![f] = o], [touched EXCEPT ![f] = n])
<1>1. row.config \in Configs => row.config.flag \in Flags
  BY ConfigsAssumption
<1>2. n # "nobody"
  BY NamesAssumption
<1> QED
  BY <1>1, <1>2 DEF Agrees, Ends

-----------------------------------------------------------------------------
(* The actions *)

LEMMA IdleCall == Idle \in Call
<1>1. NoColumns \in Statements
  <2>1. NoColumns \in [{} -> Cells]
    BY DEF NoColumns
  <2> QED
    BY <2>1 DEF Statements
<1>2. NotRead \in Seen
  BY DEF NotRead, Seen
<1> QED
  BY <1>1, <1>2 DEF Idle, Call

\* A request turns to its statement.
LEMMA WritesInv ==
  ASSUME TypeInv, CallInv, AloneInv, NEW c \in Calls, call[c].phase = "fetched",
         NEW columns \in Statements, NEW storable \in BOOLEAN,
         Fits(columns, rows[call[c].name]), Writes(c, columns, storable), UNCHANGED rows,
         disturbed' \in {disturbed, Settled(c, call[c].name)}
  PROVE  call' \in [Calls -> Call] /\ CallInv' /\ AloneInv' /\ disturbed' \subseteq Names
<1> DEFINE new == [Idle EXCEPT !.phase = "writing", !.name = call[c].name,
                               !.columns = columns, !.storable = storable,
                               !.alone = call[c].alone]
<1>1. call' = [call EXCEPT ![c] = new]
  BY DEF Writes
<1>2. call[c] \in Call /\ call \in [Calls -> Call] /\ call[c].name \in Names
  BY DEF TypeInv, CallInv
<1>3. call[c].name \in Names \cup {"none"} /\ call[c].alone \in BOOLEAN
  BY <1>2 DEF Call
<1>4. new \in Call
  BY <1>3, IdleCall DEF Call
<1>5. call' \in [Calls -> Call]
  BY <1>1, <1>2, <1>4
<1>6. call'[c] = new /\ \A d \in Calls \ {c} : call'[d] = call[d]
  BY <1>1, <1>2
<1>7. /\ new.name = call[c].name /\ new.phase = "writing" /\ new.columns = columns
      /\ new.alone = call[c].alone
  BY DEF Idle
<1> HIDE DEF new
<1>8. CallInv'
  <2> SUFFICES ASSUME NEW d \in Calls
               PROVE  /\ call'[d].name \in Names <=> call'[d].phase # "idle"
                      /\ call'[d].name \in Names => rows[call'[d].name].status # "none"
                      /\ call'[d].phase = "fetched" =>
                           /\ call'[d].op \in Ops /\ Allowed(call'[d].op, call'[d].seen.status)
                           /\ call'[d].seen.config \in Configs
                           /\ call'[d].seen.ended => rows[call'[d].name].ended
                      /\ call'[d].phase = "writing" => Fits(call'[d].columns, rows[call'[d].name])
    BY DEF CallInv
  <2>1. CASE d = c
    BY <2>1, <1>2, <1>6, <1>7 DEF CallInv
  <2>2. CASE d # c
    BY <2>2, <1>6 DEF CallInv
  <2> QED
    BY <2>1, <2>2
<1>9. AloneInv'
  <2> SUFFICES ASSUME NEW d \in Calls, call'[d].name \in Names
               PROVE  LET n == call'[d].name IN
                      /\ call'[d].alone => \A e \in Calls \ {d} : call'[e].name # n
                      /\ (call'[d].alone /\ call'[d].phase = "fetched") =>
                           /\ call'[d].seen.status = rows[n].status
                           /\ call'[d].seen.config = rows[n].config
                      /\ n \notin disturbed' => call'[d].alone
    BY DEF AloneInv
  <2>1. \A e \in Calls : call'[e].name = call[e].name /\ call'[e].alone = call[e].alone
    BY <1>6, <1>7
  <2>2. call'[d].phase = "fetched" => d # c /\ call'[d] = call[d]
    BY <1>6, <1>7
  <2>3. \A n \in Names : (n \in disturbed /\ n \notin disturbed') =>
          n = call[c].name /\ call[c].alone
    BY DEF Settled
  <2>4. call'[d].name \notin disturbed' => call'[d].alone
    BY <2>1, <2>3 DEF AloneInv
  <2> QED
    BY <2>1, <2>2, <2>4 DEF AloneInv
<1>10. disturbed' \subseteq Names
  BY DEF TypeInv, Settled
<1> QED
  BY <1>5, <1>8, <1>9, <1>10
\* The statement of a request that has read its row fits the row.
LEMMA ColumnsFit ==
  ASSUME TypeInv, CallInv, NEW c \in Calls, call[c].phase = "fetched", call[c].op \in Changes,
         NEW conclusion \in {"none", "success", "other"},
         NewStatus(call[c].op) \in Ends => conclusion # "none"
  PROVE  LET k == Columns(call[c].op, call[c].seen, conclusion)
         IN k \in Statements /\ Fits(k, rows[call[c].name])
<1> DEFINE k == Columns(call[c].op, call[c].seen, conclusion)
<1>1. call[c] \in Call /\ call[c].seen \in Seen
  BY DEF TypeInv, Call
<1>2. NewStatus(call[c].op) \in Statuses
  BY DEF NewStatus, Changes, Statuses
<1>3. call[c].seen.ended => rows[call[c].name].ended
  BY DEF CallInv
<1>4. Changing(k, call[c].seen, NewStatus(call[c].op), conclusion)
  BY <1>1, ColumnsChanging
<1> HIDE DEF k
<1>6. Fits(k, rows[call[c].name])
  <2>1. "status" \in DOMAIN k =>
          /\ k.status \in Statuses
          /\ k.status \in Ends => "ended" \in DOMAIN k \/ rows[call[c].name].ended
    BY <1>2, <1>3, <1>4 DEF Changing
  <2>2. "conclusion" \in DOMAIN k => k.conclusion \in {"success", "other"}
    BY <1>4 DEF Changing
  <2> QED
    BY <1>4, <2>1, <2>2 DEF Fits, Changing
<1>7. k \in Statements
  BY <1>4 DEF Changing
<1> QED
  BY <1>6, <1>7 DEF k

\* The row of an experiment whose request is alone, as its statement leaves it:
\* in the new status, and with the flag of the configuration that was read.
LEMMA AloneUpdate ==
  ASSUME TypeInv, CallInv, AloneInv, NEW c \in Calls, call[c].phase = "fetched",
         call[c].op \in Changes, call[c].alone, NEW conclusion \in {"none", "success", "other"}
  PROVE  LET u == Updated(rows[call[c].name], Columns(call[c].op, call[c].seen, conclusion))
         IN u.status = NewStatus(call[c].op) /\ u.config = call[c].seen.config
<1> DEFINE n == call[c].name
           k == Columns(call[c].op, call[c].seen, conclusion)
<1>1. call[c] \in Call /\ call[c].seen \in Seen /\ n \in Names /\ rows[n] \in Row
  BY DEF TypeInv, Call, CallInv
<1>2. call[c].seen.status = rows[n].status /\ call[c].seen.config = rows[n].config
  BY <1>1 DEF AloneInv
<1>3. Changing(k, call[c].seen, NewStatus(call[c].op), conclusion)
  BY <1>1, ColumnsChanging
<1>4. DOMAIN rows[n] = {"status", "config", "ended", "conclusion"}
  BY <1>1 DEF Row
<1> HIDE DEF k
<1>5. /\ Updated(rows[n], k).status = IF "status" \in DOMAIN k THEN k.status ELSE rows[n].status
      /\ Updated(rows[n], k).config = rows[n].config
  BY <1>3, <1>4 DEF Updated, Changing
<1> QED
  BY <1>2, <1>3, <1>5 DEF k, Changing

\* Setting or removing an override.
LEMMA TouchInv ==
  ASSUME Inv, NEW c \in Calls, call[c].phase = "fetched", call[c].op \in Changes,
         NEW o \in Overrides, NEW conclusion \in {"none", "success", "other"},
         NEW storable \in BOOLEAN,
         NewStatus(call[c].op) = "running" => o = Override(call[c].seen.config),
         NewStatus(call[c].op) # "running" => o = NoOverride,
         NewStatus(call[c].op) \in Ends => conclusion # "none",
         Touch(c, o, conclusion, storable)
  PROVE  Inv'
<1> DEFINE n == call[c].name
           f == call[c].seen.config.flag
           k == Columns(call[c].op, call[c].seen, conclusion)
<1>1. /\ dynamic_flags' = [dynamic_flags EXCEPT ![f] = o]
      /\ last' = [last EXCEPT ![f] = n]
      /\ disturbed' = Settled(c, n)
      /\ Writes(c, k, storable)
      /\ UNCHANGED rows
  BY DEF Touch
<1>2. TypeInv /\ CallInv /\ AloneInv /\ FlagInv /\ EndedHasConclusion
  BY DEF Inv
<1>3. /\ call[c] \in Call /\ n \in Names /\ n # "nobody"
      /\ call[c].seen.config \in Configs /\ f \in Flags
  BY <1>2, ConfigsAssumption, NamesAssumption DEF TypeInv, CallInv
<1>4. k \in Statements /\ Fits(k, rows[n])
  BY <1>2, ColumnsFit
<1>5. call' \in [Calls -> Call] /\ CallInv' /\ AloneInv' /\ disturbed' \subseteq Names
  BY <1>1, <1>2, <1>4, WritesInv
<1>6. TypeInv'
  BY <1>1, <1>2, <1>3, <1>5 DEF TypeInv
<1>7. EndedHasConclusion'
  BY <1>1, <1>2 DEF EndedHasConclusion
<1>8. call[c].alone => /\ Updated(rows[n], k).status = NewStatus(call[c].op)
                       /\ Updated(rows[n], k).config = call[c].seen.config
  BY <1>2, AloneUpdate
<1>9. /\ call'[c].phase = "writing" /\ call'[c].name = n /\ call'[c].columns = k
      /\ \A d \in Calls \ {c} : call'[d] = call[d]
  BY <1>1, <1>2 DEF Writes, Idle, TypeInv
<1> HIDE DEF k
<1>10. \A m \in Names : m \notin disturbed' => m \notin disturbed \/ (m = n /\ call[c].alone)
  BY <1>1 DEF Settled
<1>11. n \notin disturbed' => call[c].alone
  BY <1>1, <1>2, <1>3 DEF Settled, AloneInv
<1>12. \A m \in Names : (m # n /\ Agrees(m, rows[m], dynamic_flags, last))
                         => Agrees(m, rows[m], dynamic_flags', last')
  <2> SUFFICES ASSUME NEW m \in Names, m # n, Agrees(m, rows[m], dynamic_flags, last)
               PROVE  Agrees(m, rows[m], dynamic_flags', last')
    OBVIOUS
  <2>1. rows[m].config \in Configs \/ rows[m].status = "none"
    BY <1>2 DEF CallInv
  <2>2. dynamic_flags \in [Flags -> Overrides] /\ last \in [Flags -> Names \cup {"nobody"}]
    BY <1>2 DEF TypeInv
  <2> QED
    BY <1>1, <1>3, <2>1, <2>2, AgreesKept
<1>13. \A g \in Flags : last'[g] = "nobody" => dynamic_flags'[g] = NoOverride
  BY <1>1, <1>2, <1>3 DEF TypeInv, FlagInv
<1>14. ASSUME NEW m \in Names \ disturbed'
       PROVE  \/ Agrees(m, rows'[m], dynamic_flags', last')
              \/ \E d \in Calls : call'[d].name = m /\ call'[d].phase = "writing"
  <2>1. CASE m = n
    BY <2>1, <1>9
  <2>2. CASE m # n /\ Agrees(m, rows[m], dynamic_flags, last)
    BY <2>2, <1>1, <1>12
  <2>3. CASE \E d \in Calls : call[d].name = m /\ call[d].phase = "writing"
    BY <2>3, <1>9
  <2> QED
    BY <1>2, <1>10, <2>1, <2>2, <2>3 DEF FlagInv
<1>15. ASSUME NEW d \in Calls, call'[d].phase = "writing", call'[d].name \notin disturbed'
       PROVE  Agrees(call'[d].name, Updated(rows'[call'[d].name], call'[d].columns),
                     dynamic_flags', last')
  <2>1. CASE d = c
    <3>1. call[c].alone
      BY <2>1, <1>9, <1>11, <1>15
    <3>2. dynamic_flags'[f] = o /\ last'[f] = n
      BY <1>1, <1>2, <1>3 DEF TypeInv
    <3>3. NewStatus(call[c].op) \in Ends \cup {"running", "paused"}
      BY DEF NewStatus, Changes, Ends
    <3>4. Agrees(n, Updated(rows[n], k), dynamic_flags', last')
      BY <1>3, <1>8, <3>1, <3>2, <3>3 DEF Agrees, Ends
    <3> QED
      BY <2>1, <1>1, <1>9, <3>4
  <2>2. CASE d # c
    <3> DEFINE m == call[d].name
               u == Updated(rows[m], call[d].columns)
    <3>1. call'[d] = call[d] /\ call[d].phase = "writing" /\ m \notin disturbed' /\ m \in Names
      BY <2>2, <1>2, <1>9, <1>15 DEF CallInv
    <3>2. m # n
      BY <2>2, <1>2, <1>11, <3>1 DEF AloneInv
    <3>3. Agrees(m, u, dynamic_flags, last)
      BY <1>2, <1>10, <3>1, <3>2 DEF FlagInv
    <3>4. u.config \in Configs
      <4>1. rows[m] \in Row /\ rows[m].config \in Configs /\ Fits(call[d].columns, rows[m])
        BY <1>2, <3>1 DEF TypeInv, CallInv
      <4>2. call[d].columns \in Statements
        BY <1>2 DEF TypeInv, Call
      <4> QED
        BY <4>1, <4>2, UpdatedRow
    <3>5. dynamic_flags \in [Flags -> Overrides] /\ last \in [Flags -> Names \cup {"nobody"}]
      BY <1>2 DEF TypeInv
    <3> HIDE DEF u
    <3>6. Agrees(m, u, dynamic_flags', last')
      BY <1>1, <1>3, <3>1, <3>2, <3>3, <3>4, <3>5, AgreesKept
    <3> QED
      BY <1>1, <3>1, <3>6 DEF u
  <2> QED
    BY <2>1, <2>2
<1>16. FlagInv'
  BY <1>13, <1>14, <1>15 DEF FlagInv
<1> QED
  BY <1>5, <1>6, <1>7, <1>16 DEF Inv

\* Writing without a touch: the cancellation of what does not run, and a change
\* of the configuration.
LEMMA WriteOnlyInv ==
  ASSUME Inv, NEW c \in Calls, call[c].phase = "fetched",
         NEW k \in Statements, Fits(k, rows[call[c].name]),
         (call[c].alone /\ Agrees(call[c].name, rows[call[c].name], dynamic_flags, last)) =>
           Agrees(call[c].name, Updated(rows[call[c].name], k), dynamic_flags, last),
         Writes(c, k, TRUE), UNCHANGED <<rows, dynamic_flags, disturbed, last>>
  PROVE  Inv'
<1> DEFINE n == call[c].name
<1>1. TypeInv /\ CallInv /\ AloneInv /\ FlagInv /\ EndedHasConclusion
  BY DEF Inv
<1>2. call' \in [Calls -> Call] /\ CallInv' /\ AloneInv'
  BY <1>1, WritesInv
<1>3. TypeInv' /\ EndedHasConclusion'
  BY <1>1, <1>2 DEF TypeInv, EndedHasConclusion
<1>4. /\ call'[c].phase = "writing" /\ call'[c].name = n /\ call'[c].columns = k
      /\ \A d \in Calls \ {c} : call'[d] = call[d]
  BY <1>1 DEF Writes, Idle, TypeInv
<1>5. \A m \in Names \ disturbed :
        \/ Agrees(m, rows[m], dynamic_flags, last)
        \/ \E d \in Calls : call'[d].name = m /\ call'[d].phase = "writing"
  BY <1>1, <1>4 DEF FlagInv
<1>6. ASSUME NEW d \in Calls, call'[d].phase = "writing", call'[d].name \notin disturbed
      PROVE  Agrees(call'[d].name, Updated(rows[call'[d].name], call'[d].columns),
                    dynamic_flags, last)
  <2>1. CASE d = c
    <3>1. n \in Names /\ call[c].alone
      BY <2>1, <1>1, <1>4, <1>6 DEF CallInv, AloneInv
    <3>2. Agrees(n, rows[n], dynamic_flags, last)
      BY <2>1, <3>1, <1>1, <1>4, <1>6 DEF FlagInv, AloneInv
    <3> QED
      BY <2>1, <3>1, <3>2, <1>4
  <2>2. CASE d # c
    BY <2>2, <1>1, <1>4, <1>6 DEF FlagInv
  <2> QED
    BY <2>1, <2>2
<1>7. FlagInv'
  <2>1. \A g \in Flags : last[g] = "nobody" => dynamic_flags[g] = NoOverride
    BY <1>1 DEF FlagInv
  <2> QED
    BY <2>1, <1>5, <1>6 DEF FlagInv
<1> QED
  BY <1>2, <1>3, <1>7 DEF Inv

LEMMA CancelOnlyInv ==
  ASSUME Inv, NEW c \in Calls, CancelOnly(c)
  PROVE  Inv'
<1> DEFINE n == call[c].name
           k == Columns("cancel", call[c].seen, "other")
           u == Updated(rows[n], k)
<1>1. TypeInv /\ CallInv /\ AloneInv
  BY DEF Inv
<1>2. /\ call[c].phase = "fetched" /\ call[c].op = "cancel"
      /\ call[c].seen.status \notin {"running", "paused"}
      /\ Writes(c, k, TRUE)
      /\ UNCHANGED <<rows, dynamic_flags, disturbed, last>>
  BY DEF CancelOnly, Fetched, Removes
<1>3. call[c].op \in Changes /\ NewStatus(call[c].op) = "cancelled"
  BY <1>2 DEF Changes, NewStatus
<1>4. k \in Statements /\ Fits(k, rows[n])
  BY <1>1, <1>2, <1>3, ColumnsFit
<1>5. call[c].alone => u.status = "cancelled" /\ u.config = call[c].seen.config
  BY <1>1, <1>2, <1>3, AloneUpdate
<1>6. ASSUME call[c].alone, Agrees(n, rows[n], dynamic_flags, last)
      PROVE  Agrees(n, u, dynamic_flags, last)
  <2>1. n \in Names /\ call[c].seen.config \in Configs /\ call[c].seen.config.flag \in Flags
    BY <1>1, <1>2, ConfigsAssumption DEF CallInv
  <2>2. call[c].seen.status = rows[n].status /\ call[c].seen.config = rows[n].config
    BY <1>1, <1>2, <1>6, <2>1 DEF AloneInv
  <2>3. rows[n].status \in {"draft", "none"} \cup Ends
    BY <1>1, <1>2, <2>1, <2>2 DEF TypeInv, Row, Statuses, Ends
  <2> HIDE DEF u
  <2> QED
    BY <1>5, <1>6, <2>1, <2>2, <2>3 DEF Agrees, Ends
<1> HIDE DEF k
<1> QED
  BY <1>2, <1>4, <1>6, WriteOnlyInv

LEMMA ConfigureInv ==
  ASSUME Inv, NEW c \in Calls, NEW config \in Configs, Configure(c, config)
  PROVE  Inv'
<1> DEFINE n == call[c].name
           k == [config |-> config]
           u == Updated(rows[n], k)
<1>1. TypeInv /\ CallInv /\ AloneInv
  BY DEF Inv
<1>2. /\ call[c].phase = "fetched" /\ call[c].op = "update"
      /\ Writes(c, k, TRUE)
      /\ UNCHANGED <<rows, dynamic_flags, disturbed, last>>
  BY DEF Configure, Fetched
<1>3. DOMAIN k = {"config"} /\ k.config = config
  OBVIOUS
<1>4. k \in Statements
  <2>1. k \in [{"config"} -> Cells]
    BY DEF Cells
  <2>2. {"config"} \in SUBSET {"status", "config", "ended", "conclusion"}
    OBVIOUS
  <2> HIDE DEF k
  <2> QED
    BY <2>1, <2>2 DEF Statements
<1> HIDE DEF k
<1>5. Fits(k, rows[n])
  BY <1>3 DEF Fits
<1>6. ASSUME call[c].alone, Agrees(n, rows[n], dynamic_flags, last)
      PROVE  Agrees(n, u, dynamic_flags, last)
  <2>1. n \in Names /\ rows[n] \in Row
    BY <1>1, <1>2 DEF CallInv, TypeInv
  <2>2. rows[n].status = "draft"
    BY <1>1, <1>2, <1>6, <2>1 DEF AloneInv, CallInv, Allowed
  <2>3. u.status = "draft"
    BY <1>3, <2>1, <2>2 DEF Updated, Row
  <2> HIDE DEF u
  <2> QED
    BY <1>6, <2>2, <2>3 DEF Agrees, Ends
<1> QED
  BY <1>2, <1>4, <1>5, <1>6, WriteOnlyInv

LEMMA CreateInv ==
  ASSUME Inv, NEW n \in Names, NEW config \in Configs, Create(n, config)
  PROVE  Inv'
<1> DEFINE new == [NoRow EXCEPT !.status = "draft", !.config = config]
<1>1. /\ rows[n].status = "none"
      /\ rows' = [rows EXCEPT ![n] = new]
      /\ UNCHANGED <<dynamic_flags, call, disturbed, last>>
  BY DEF Create
<1>2. TypeInv /\ CallInv /\ AloneInv /\ FlagInv /\ EndedHasConclusion
  BY DEF Inv
<1>3. new.status = "draft" /\ new.config = config /\ ~ new.ended
  BY DEF NoRow
<1>4. new \in Row
  BY DEF NoRow, Row, Statuses
<1> HIDE DEF new
<1>5. rows'[n] = new /\ \A m \in Names \ {n} : rows'[m] = rows[m]
  BY <1>1, <1>2 DEF TypeInv
<1>6. TypeInv'
  BY <1>1, <1>2, <1>4 DEF TypeInv
<1>7. \A c \in Calls : call[c].name # n
  BY <1>1, <1>2 DEF CallInv
<1>8. CallInv'
  <2>1. \A m \in Names : rows'[m].status # "none" => rows'[m].config \in Configs
    BY <1>2, <1>3, <1>5 DEF CallInv
  <2>2. \A c \in Calls : call[c].name \in Names => rows'[call[c].name] = rows[call[c].name]
    BY <1>5, <1>7
  <2> QED
    BY <1>1, <1>2, <2>1, <2>2 DEF CallInv
<1>9. AloneInv'
  BY <1>1, <1>2, <1>5, <1>7 DEF AloneInv
<1>10. EndedHasConclusion'
  BY <1>2, <1>3, <1>5 DEF EndedHasConclusion
<1>11. FlagInv'
  <2>1. ASSUME NEW m \in Names \ disturbed
        PROVE  \/ Agrees(m, rows'[m], dynamic_flags, last)
               \/ \E c \in Calls : call[c].name = m /\ call[c].phase = "writing"
    <3>1. CASE m = n
      <4>1. Agrees(n, rows[n], dynamic_flags, last)
        BY <3>1, <1>2, <1>7 DEF FlagInv
      <4>2. Agrees(n, new, dynamic_flags, last)
        BY <4>1, <1>1, <1>3 DEF Agrees, Ends
      <4> QED
        BY <3>1, <4>2, <1>5
    <3>2. CASE m # n
      BY <3>2, <1>2, <1>5 DEF FlagInv
    <3> QED
      BY <3>1, <3>2
  <2>2. ASSUME NEW c \in Calls, call[c].phase = "writing", call[c].name \notin disturbed
        PROVE  Agrees(call[c].name, Updated(rows'[call[c].name], call[c].columns),
                      dynamic_flags, last)
    <3>1. call[c].name \in Names \ {n}
      BY <2>2, <1>2, <1>7 DEF CallInv
    <3> QED
      BY <2>2, <3>1, <1>2, <1>5 DEF FlagInv
  <2>3. \A g \in Flags : last[g] = "nobody" => dynamic_flags[g] = NoOverride
    BY <1>2 DEF FlagInv
  <2> QED
    BY <1>1, <2>1, <2>2, <2>3 DEF FlagInv
<1> QED
  BY <1>6, <1>8, <1>9, <1>10, <1>11 DEF Inv

LEMMA FetchInv ==
  ASSUME Inv, NEW c \in Calls, NEW op \in Ops, NEW n \in Names, Fetch(c, op, n)
  PROVE  Inv'
<1> DEFINE seen == Restrict(rows[n], DOMAIN NotRead)
           new == [Idle EXCEPT !.op = op, !.name = n, !.phase = "fetched", !.seen = seen,
                               !.alone = Others(c, n) = {}]
<1>1. /\ call[c].phase = "idle" /\ Allowed(op, rows[n].status)
      /\ call' = [d \in Calls |-> IF d = c THEN new
                                  ELSE [call[d] EXCEPT !.alone = @ /\ call[d].name # n]]
      /\ disturbed' = IF Others(c, n) = {} THEN disturbed ELSE disturbed \cup {n}
      /\ UNCHANGED <<rows, dynamic_flags, last>>
  BY DEF Fetch
<1>2. TypeInv /\ CallInv /\ AloneInv /\ FlagInv /\ EndedHasConclusion
  BY DEF Inv
<1>3. /\ rows[n] \in Row /\ rows[n].status \in Statuses /\ rows[n].config \in Configs
      /\ call[c] \in Call
  BY <1>1, <1>2 DEF TypeInv, CallInv, Row, Ops, Allowed, Statuses
<1>4. /\ seen = [status |-> rows[n].status, config |-> rows[n].config, ended |-> rows[n].ended]
      /\ seen \in Seen
  BY <1>3 DEF Restrict, NotRead, Row, Seen
<1>5. seen.status = rows[n].status /\ seen.config = rows[n].config /\ seen.ended = rows[n].ended
  BY <1>4
<1> HIDE DEF seen
<1>6. /\ new.op = op /\ new.name = n /\ new.phase = "fetched" /\ new.seen = seen
      /\ new.alone <=> Others(c, n) = {}
  BY DEF Idle
<1>7. new \in Call
  BY <1>4, IdleCall DEF Call
<1> HIDE DEF new
<1>8. call'[c] = new
  BY <1>1
<1>9. \A d \in Calls \ {c} :
        /\ call'[d] \in Call
        /\ call'[d].op = call[d].op /\ call'[d].name = call[d].name
        /\ call'[d].phase = call[d].phase /\ call'[d].seen = call[d].seen
        /\ call'[d].columns = call[d].columns
        /\ call'[d].alone <=> (call[d].alone /\ call[d].name # n)
  <2> SUFFICES ASSUME NEW d \in Calls \ {c}
               PROVE  /\ call'[d] \in Call
                      /\ call'[d].op = call[d].op /\ call'[d].name = call[d].name
                      /\ call'[d].phase = call[d].phase /\ call'[d].seen = call[d].seen
                      /\ call'[d].columns = call[d].columns
                      /\ call'[d].alone <=> (call[d].alone /\ call[d].name # n)
    OBVIOUS
  <2> DEFINE alone == call[d].alone /\ call[d].name # n
  <2>1. call'[d] = [call[d] EXCEPT !.alone = alone]
    BY <1>1
  <2>2. call[d] \in Call /\ alone \in BOOLEAN
    BY <1>2 DEF TypeInv
  <2>3. call'[d] \in Call
    BY <2>1, <2>2 DEF Call
  <2>4. /\ call'[d].op = call[d].op /\ call'[d].name = call[d].name
        /\ call'[d].phase = call[d].phase /\ call'[d].seen = call[d].seen
        /\ call'[d].columns = call[d].columns /\ call'[d].alone = alone
    BY <2>1, <2>2 DEF Call
  <2> QED
    BY <2>3, <2>4
<1>10. TypeInv'
  <2>1. call' \in [Calls -> Call]
    BY <1>1, <1>7, <1>8, <1>9
  <2>2. disturbed' \subseteq Names
    BY <1>1, <1>2 DEF TypeInv
  <2> QED
    BY <1>1, <1>2, <2>1, <2>2 DEF TypeInv
<1>11. CallInv'
  <2> SUFFICES ASSUME NEW d \in Calls
               PROVE  /\ call'[d].name \in Names <=> call'[d].phase # "idle"
                      /\ call'[d].name \in Names => rows[call'[d].name].status # "none"
                      /\ call'[d].phase = "fetched" =>
                           /\ call'[d].op \in Ops /\ Allowed(call'[d].op, call'[d].seen.status)
                           /\ call'[d].seen.config \in Configs
                           /\ call'[d].seen.ended => rows[call'[d].name].ended
                      /\ call'[d].phase = "writing" => Fits(call'[d].columns, rows[call'[d].name])
    BY <1>1, <1>2 DEF CallInv
  <2>1. CASE d = c
    <3>1. rows[n].status # "none"
      BY <1>3 DEF Statuses
    <3> QED
      BY <2>1, <3>1, <1>1, <1>3, <1>5, <1>6, <1>8
  <2>2. CASE d # c
    BY <2>2, <1>2, <1>9 DEF CallInv
  <2> QED
    BY <2>1, <2>2
<1>12. \A d \in Calls \ {c} : call[d].name = n => Others(c, n) # {}
  BY DEF Others
<1>13. Others(c, n) = {} => \A d \in Calls \ {c} : call[d].name # n
  BY <1>12
<1>14. AloneInv'
  <2> SUFFICES ASSUME NEW d \in Calls, call'[d].name \in Names
               PROVE  LET m == call'[d].name IN
                      /\ call'[d].alone => \A e \in Calls \ {d} : call'[e].name # m
                      /\ (call'[d].alone /\ call'[d].phase = "fetched") =>
                           /\ call'[d].seen.status = rows[m].status
                           /\ call'[d].seen.config = rows[m].config
                      /\ m \notin disturbed' => call'[d].alone
    BY <1>1 DEF AloneInv
  <2>1. CASE d = c
    BY <2>1, <1>1, <1>5, <1>6, <1>8, <1>9, <1>13
  <2>2. CASE d # c
    <3>1. call'[d].alone => \A e \in Calls \ {d} : call'[e].name # call[d].name
      BY <2>2, <1>2, <1>6, <1>8, <1>9 DEF AloneInv
    <3>2. call'[d].name \notin disturbed' => call'[d].alone
      BY <2>2, <1>1, <1>2, <1>9, <1>12 DEF AloneInv
    <3> QED
      BY <2>2, <3>1, <3>2, <1>2, <1>9 DEF AloneInv
  <2> QED
    BY <2>1, <2>2
<1>15. FlagInv'
  <2>1. disturbed \subseteq disturbed' /\ call[c].name \notin Names
    BY <1>1, <1>2 DEF CallInv
  <2>2. ASSUME NEW m \in Names \ disturbed'
        PROVE  \/ Agrees(m, rows[m], dynamic_flags, last)
               \/ \E d \in Calls : call'[d].name = m /\ call'[d].phase = "writing"
    BY <2>1, <1>2, <1>9 DEF FlagInv
  <2>3. ASSUME NEW d \in Calls, call'[d].phase = "writing", call'[d].name \notin disturbed'
        PROVE  Agrees(call'[d].name, Updated(rows[call'[d].name], call'[d].columns),
                      dynamic_flags, last)
    <3>1. d # c
      BY <2>3, <1>6, <1>8
    <3>2. call'[d].name = call[d].name /\ call'[d].columns = call[d].columns
          /\ call[d].phase = "writing" /\ call[d].name \notin disturbed
      BY <2>1, <2>3, <3>1, <1>9
    <3> QED
      BY <3>2, <1>2 DEF FlagInv
  <2>4. \A g \in Flags : last[g] = "nobody" => dynamic_flags[g] = NoOverride
    BY <1>2 DEF FlagInv
  <2> QED
    BY <1>1, <2>2, <2>3, <2>4 DEF FlagInv
<1>16. EndedHasConclusion'
  BY <1>1, <1>2 DEF EndedHasConclusion
<1> QED
  BY <1>10, <1>11, <1>14, <1>15, <1>16 DEF Inv

LEMMA CommitInv ==
  ASSUME Inv, NEW c \in Calls, Commit(c)
  PROVE  Inv'
<1> DEFINE n == call[c].name
           u == Updated(rows[n], call[c].columns)
<1>1. /\ call[c].phase = "writing"
      /\ rows' = [rows EXCEPT ![n] = u]
      /\ call' = [call EXCEPT ![c] = Idle]
      /\ UNCHANGED <<dynamic_flags, disturbed, last>>
  BY DEF Commit, Writing
<1>2. TypeInv /\ CallInv /\ AloneInv /\ FlagInv /\ EndedHasConclusion
  BY DEF Inv
<1>3. /\ n \in Names /\ rows[n] \in Row /\ rows[n].status # "none" /\ rows[n].config \in Configs
      /\ call[c].columns \in Statements /\ Fits(call[c].columns, rows[n])
  BY <1>1, <1>2 DEF TypeInv, CallInv, Call
<1>4. /\ u \in Row
      /\ rows[n].ended => u.ended
      /\ u.status # "none"
      /\ u.config \in Configs
      /\ (/\ rows[n].status \in Ends => rows[n].ended
          /\ rows[n].ended => rows[n].conclusion # "none")
         => (/\ u.status \in Ends => u.ended
             /\ u.ended => u.conclusion # "none")
  BY <1>3, UpdatedRow
<1>5. Agrees(n, u, dynamic_flags, last) \/ n \in disturbed
  BY <1>1, <1>2 DEF FlagInv
<1> HIDE DEF u
<1>6. rows'[n] = u /\ \A m \in Names \ {n} : rows'[m] = rows[m]
  BY <1>1, <1>2, <1>3 DEF TypeInv
<1>7. /\ call'[c] = Idle /\ Idle.name \notin Names /\ Idle.phase = "idle"
      /\ \A d \in Calls \ {c} : call'[d] = call[d]
  BY <1>1, <1>2, NamesAssumption DEF TypeInv, Idle
<1>8. TypeInv'
  BY <1>1, <1>2, <1>3, <1>4, IdleCall DEF TypeInv
<1>9. CallInv'
  <2>1. \A m \in Names : rows'[m].status # "none" => rows'[m].config \in Configs
    BY <1>2, <1>4, <1>6 DEF CallInv
  <2>2. \A m \in Names : /\ rows[m].status # "none" => rows'[m].status # "none"
                         /\ rows[m].ended => rows'[m].ended
    BY <1>4, <1>6
  <2>3. \A m \in Names, k \in Statements : Fits(k, rows[m]) => Fits(k, rows'[m])
    BY <2>2 DEF Fits
  <2> SUFFICES ASSUME NEW d \in Calls
               PROVE  /\ call'[d].name \in Names <=> call'[d].phase # "idle"
                      /\ call'[d].name \in Names => rows'[call'[d].name].status # "none"
                      /\ call'[d].phase = "fetched" =>
                           /\ call'[d].op \in Ops /\ Allowed(call'[d].op, call'[d].seen.status)
                           /\ call'[d].seen.config \in Configs
                           /\ call'[d].seen.ended => rows'[call'[d].name].ended
                      /\ call'[d].phase = "writing" => Fits(call'[d].columns, rows'[call'[d].name])
    BY <2>1 DEF CallInv
  <2>4. CASE d = c
    BY <2>4, <1>7
  <2>5. CASE d # c
    <3>1. call'[d] = call[d] /\ call[d].columns \in Statements
      BY <2>5, <1>2, <1>7 DEF TypeInv, Call
    <3>2. call[d].phase = "fetched" =>
            /\ call[d].op \in Ops /\ Allowed(call[d].op, call[d].seen.status)
            /\ call[d].seen.config \in Configs
            /\ call[d].seen.ended => rows'[call[d].name].ended
      BY <2>2, <1>2 DEF CallInv
    <3>3. call[d].phase = "writing" => Fits(call[d].columns, rows'[call[d].name])
      BY <2>3, <3>1, <1>2 DEF CallInv
    <3>4. /\ call[d].name \in Names <=> call[d].phase # "idle"
          /\ call[d].name \in Names => rows'[call[d].name].status # "none"
      BY <2>2, <1>2 DEF CallInv
    <3> QED
      BY <3>1, <3>2, <3>3, <3>4
  <2> QED
    BY <2>4, <2>5
<1>10. \A d \in Calls \ {c} : call[d].name = n => ~ call[d].alone
  BY <1>2, <1>3 DEF AloneInv
<1>11. AloneInv'
  <2> SUFFICES ASSUME NEW d \in Calls, call'[d].name \in Names
               PROVE  LET m == call'[d].name IN
                      /\ call'[d].alone => \A e \in Calls \ {d} : call'[e].name # m
                      /\ (call'[d].alone /\ call'[d].phase = "fetched") =>
                           /\ call'[d].seen.status = rows'[m].status
                           /\ call'[d].seen.config = rows'[m].config
                      /\ m \notin disturbed => call'[d].alone
    BY <1>1 DEF AloneInv
  <2>1. d # c /\ call'[d] = call[d]
    BY <1>7
  <2>2. call[d].alone => rows'[call[d].name] = rows[call[d].name]
    BY <1>6, <1>10, <2>1
  <2>3. call[d].alone => \A e \in Calls \ {d} : call'[e].name # call[d].name
    BY <1>2, <1>7, <2>1 DEF AloneInv
  <2> QED
    BY <1>2, <2>1, <2>2, <2>3 DEF AloneInv
<1>12. EndedHasConclusion'
  <2>1. \A m \in Names : /\ rows[m].status \in Ends => rows[m].ended
                         /\ rows[m].ended => rows[m].conclusion # "none"
    BY <1>2 DEF EndedHasConclusion, Ends
  <2>2. \A m \in Names : /\ rows'[m].status \in Ends => rows'[m].ended
                         /\ rows'[m].ended => rows'[m].conclusion # "none"
    BY <2>1, <1>4, <1>6
  <2> QED
    BY <2>2 DEF EndedHasConclusion, Ends
<1>13. FlagInv'
  <2>1. ASSUME NEW m \in Names \ disturbed
        PROVE  \/ Agrees(m, rows'[m], dynamic_flags, last)
               \/ \E d \in Calls : call'[d].name = m /\ call'[d].phase = "writing"
    <3>1. CASE m = n
      BY <3>1, <1>5, <1>6
    <3>2. CASE m # n
      BY <3>2, <1>2, <1>6, <1>7 DEF FlagInv
    <3> QED
      BY <3>1, <3>2
  <2>2. ASSUME NEW d \in Calls, call'[d].phase = "writing", call'[d].name \notin disturbed
        PROVE  Agrees(call'[d].name, Updated(rows'[call'[d].name], call'[d].columns),
                      dynamic_flags, last)
    <3>1. d # c /\ call'[d] = call[d]
      BY <2>2, <1>7
    <3>2. call[d].name \in Names \ {n}
      BY <2>2, <3>1, <1>2, <1>10 DEF CallInv, AloneInv
    <3> QED
      BY <2>2, <3>1, <3>2, <1>2, <1>6 DEF FlagInv
  <2>3. \A g \in Flags : last[g] = "nobody" => dynamic_flags[g] = NoOverride
    BY <1>2 DEF FlagInv
  <2> QED
    BY <1>1, <2>1, <2>2, <2>3 DEF FlagInv
<1> QED
  BY <1>8, <1>9, <1>11, <1>12, <1>13 DEF Inv

LEMMA CommitFailsInv ==
  ASSUME Inv, NEW c \in Calls, CommitFails(c)
  PROVE  Inv'
<1> DEFINE n == call[c].name
<1>1. /\ call[c].phase = "writing"
      /\ disturbed' = disturbed \cup {n}
      /\ call' = [call EXCEPT ![c] = Idle]
      /\ UNCHANGED <<rows, dynamic_flags, last>>
  BY DEF CommitFails, Writing
<1>2. TypeInv /\ CallInv /\ AloneInv /\ FlagInv /\ EndedHasConclusion
  BY DEF Inv
<1>3. n \in Names
  BY <1>1, <1>2 DEF CallInv
<1>4. /\ call'[c] = Idle /\ Idle.name \notin Names /\ Idle.phase = "idle"
      /\ \A d \in Calls \ {c} : call'[d] = call[d]
  BY <1>1, <1>2, NamesAssumption DEF TypeInv, Idle
<1>5. TypeInv'
  BY <1>1, <1>2, <1>3, IdleCall DEF TypeInv
<1>6. CallInv'
  BY <1>1, <1>2, <1>4 DEF CallInv
<1>7. AloneInv'
  BY <1>1, <1>2, <1>4 DEF AloneInv
<1>8. EndedHasConclusion'
  BY <1>1, <1>2 DEF EndedHasConclusion
<1>9. FlagInv'
  <2>1. \A g \in Flags : last[g] = "nobody" => dynamic_flags[g] = NoOverride
    BY <1>2 DEF FlagInv
  <2>2. \A m \in Names \ disturbed' :
          \/ Agrees(m, rows[m], dynamic_flags, last)
          \/ \E d \in Calls : call'[d].name = m /\ call'[d].phase = "writing"
    BY <1>1, <1>2, <1>4 DEF FlagInv
  <2>3. \A d \in Calls : (call'[d].phase = "writing" /\ call'[d].name \notin disturbed') =>
          Agrees(call'[d].name, Updated(rows[call'[d].name], call'[d].columns),
                 dynamic_flags, last)
    BY <1>1, <1>2, <1>4 DEF FlagInv
  <2> QED
    BY <1>1, <2>1, <2>2, <2>3 DEF FlagInv
<1> QED
  BY <1>5, <1>6, <1>7, <1>8, <1>9 DEF Inv

LEMMA RestartInv ==
  ASSUME Inv, Restart
  PROVE  Inv'
<1> DEFINE busy == {d \in Calls : call[d].phase # "idle"}
<1>1. /\ dynamic_flags' = [f \in Flags |-> NoOverride]
      /\ call' = [c \in Calls |-> Idle]
      /\ disturbed' = disturbed \cup {n \in Names : rows[n].status = "running"}
                                \cup {call[c].name : c \in busy}
      /\ last' = [f \in Flags |-> "nobody"]
      /\ UNCHANGED rows
  BY DEF Restart
<1>2. TypeInv /\ CallInv /\ AloneInv /\ FlagInv /\ EndedHasConclusion
  BY DEF Inv
<1>3. /\ \A c \in Calls : call'[c] = Idle
      /\ Idle.name \notin Names /\ Idle.phase = "idle"
  BY <1>1, NamesAssumption DEF Idle
<1>4. TypeInv'
  <2>1. {call[c].name : c \in busy} \subseteq Names
    BY <1>2 DEF CallInv
  <2>2. disturbed' \subseteq Names
    BY <1>1, <1>2, <2>1 DEF TypeInv
  <2>3. call' \in [Calls -> Call]
    BY <1>1, IdleCall
  <2>4. dynamic_flags' \in [Flags -> Overrides] /\ last' \in [Flags -> Names \cup {"nobody"}]
    BY <1>1 DEF Overrides
  <2> QED
    BY <1>1, <1>2, <2>2, <2>3, <2>4 DEF TypeInv
<1>5. CallInv' /\ AloneInv' /\ EndedHasConclusion'
  BY <1>1, <1>2, <1>3 DEF CallInv, AloneInv, EndedHasConclusion
<1>6. FlagInv'
  <2>1. ASSUME NEW m \in Names \ disturbed'
        PROVE  Agrees(m, rows[m], dynamic_flags', last')
    <3>1. rows[m].status # "running" /\ m # "nobody"
      BY <1>1, <2>1, NamesAssumption
    <3>2. rows[m].status # "none" => rows[m].config.flag \in Flags
      BY <1>2, ConfigsAssumption DEF CallInv
    <3> QED
      BY <3>1, <3>2, <1>1 DEF Agrees, Ends
  <2>2. \A g \in Flags : dynamic_flags'[g] = NoOverride
    BY <1>1
  <2> QED
    BY <1>1, <1>3, <2>1, <2>2 DEF FlagInv
<1> QED
  BY <1>4, <1>5, <1>6 DEF Inv

LEMMA SetOverrideInv ==
  ASSUME Inv, NEW c \in Calls, SetOverride(c)
  PROVE  Inv'
<1>1. /\ call[c].phase = "fetched" /\ call[c].op \in {"start", "resume"}
      /\ Touch(c, Override(call[c].seen.config), "none", TRUE)
  BY DEF SetOverride, Fetched
<1>2. call[c].op \in Changes /\ NewStatus(call[c].op) = "running"
  BY <1>1 DEF Changes, NewStatus
<1>3. Override(call[c].seen.config) \in Overrides
  BY <1>1 DEF Inv, CallInv, Overrides
<1>4. "running" \notin Ends
  BY DEF Ends
<1> QED
  BY <1>1, <1>2, <1>3, <1>4, TouchInv

LEMMA RemoveOverrideInv ==
  ASSUME Inv, NEW c \in Calls, RemoveOverride(c)
  PROVE  Inv'
<1>1. /\ call[c].phase = "fetched" /\ call[c].op \in {"pause", "cancel"}
      /\ Touch(c, NoOverride, "other", TRUE)
  BY DEF RemoveOverride, Fetched
<1>2. call[c].op \in Changes /\ NewStatus(call[c].op) # "running"
  BY <1>1 DEF Changes, NewStatus
<1>3. NoOverride \in Overrides
  BY DEF Overrides
<1> QED
  BY <1>1, <1>2, <1>3, TouchInv

\* What the analysis of a request's criteria is.
LEMMA AnalysisFound ==
  ASSUME NEW config \in Configs, NEW reading \in Readings
  PROVE  /\ Analysis[config.criteria][reading].success <=> Successful(config.criteria, reading)
         /\ Analysis[config.criteria][reading].storable \in BOOLEAN
<1>1. Analysis[config.criteria][reading] =
        [success  |-> Successful(config.criteria, reading),
         storable |-> Storable(config.criteria, reading)]
  BY DEF Analysis
<1>2. Storable(config.criteria, reading) \in BOOLEAN
  BY Zenon DEF Storable
<1> QED
  BY <1>1, <1>2

LEMMA AnalyzeInv ==
  ASSUME Inv, NEW c \in Calls, NEW reading \in Readings, NEW verdict \in Verdicts,
         Analyze(c, reading, verdict)
  PROVE  Inv'
<1> DEFINE analysis == Analysis[call[c].seen.config.criteria][reading]
           success == IF verdict = "measured" THEN analysis.success ELSE verdict = "success"
           conclusion == IF success THEN "success" ELSE "other"
           storable == analysis.storable
<1>1. /\ call[c].phase = "fetched" /\ call[c].op = "conclude"
      /\ Touch(c, NoOverride, conclusion, storable)
  BY DEF Analyze, Fetched
<1>2. call[c].seen.config \in Configs
  BY <1>1 DEF Inv, CallInv
<1>3. storable \in BOOLEAN
  BY <1>2, AnalysisFound
<1>4. conclusion \in {"success", "other"}
  OBVIOUS
<1> HIDE DEF conclusion, storable
<1>5. call[c].op \in Changes /\ NewStatus(call[c].op) # "running"
  BY <1>1 DEF Changes, NewStatus
<1>6. NoOverride \in Overrides
  BY DEF Overrides
<1> QED
  BY <1>1, <1>3, <1>4, <1>5, <1>6, TouchInv

LEMMA InitInv == Init => Inv
<1> SUFFICES ASSUME Init
             PROVE  Inv
  OBVIOUS
<1>1. /\ rows = [n \in Names |-> NoRow]
      /\ dynamic_flags = [f \in Flags |-> NoOverride]
      /\ call = [c \in Calls |-> Idle]
      /\ disturbed = {}
      /\ last = [f \in Flags |-> "nobody"]
  BY DEF Init
<1>2. Idle.name \notin Names /\ Idle.phase = "idle"
  BY NamesAssumption DEF Idle
<1>3. NoRow \in Row /\ NoRow.status = "none" /\ ~ NoRow.ended
  BY DEF NoRow, Row
<1>4. TypeInv
  BY <1>1, <1>3, IdleCall DEF TypeInv, Overrides
<1>5. CallInv /\ AloneInv
  BY <1>1, <1>2, <1>3 DEF CallInv, AloneInv
<1>6. EndedHasConclusion
  BY <1>1, <1>3 DEF EndedHasConclusion
<1>7. FlagInv
  <2>1. \A n \in Names : Agrees(n, rows[n], dynamic_flags, last)
    BY <1>1, <1>3, NamesAssumption DEF Agrees, Ends
  <2> QED
    BY <1>1, <1>2, <2>1 DEF FlagInv
<1> QED
  BY <1>4, <1>5, <1>6, <1>7 DEF Inv

LEMMA StepInv == Inv /\ [Next]_vars => Inv'
<1> SUFFICES ASSUME Inv, [Next]_vars
             PROVE  Inv'
  OBVIOUS
<1>1. ASSUME NEW n \in Names, NEW config \in Configs, Create(n, config)
      PROVE  Inv'
  BY <1>1, CreateInv
<1>2. ASSUME NEW c \in Calls, NEW op \in Ops, NEW n \in Names, Fetch(c, op, n)
      PROVE  Inv'
  BY <1>2, FetchInv
<1>3. ASSUME NEW c \in Calls,
             SetOverride(c) \/ RemoveOverride(c) \/ CancelOnly(c) \/ Commit(c) \/ CommitFails(c)
      PROVE  Inv'
  BY <1>3, SetOverrideInv, RemoveOverrideInv, CancelOnlyInv, CommitInv, CommitFailsInv
<1>4. ASSUME NEW c \in Calls, NEW reading \in Readings, NEW verdict \in Verdicts,
             Analyze(c, reading, verdict)
      PROVE  Inv'
  BY <1>4, AnalyzeInv
<1>5. ASSUME NEW c \in Calls, NEW config \in Configs, Configure(c, config)
      PROVE  Inv'
  BY <1>5, ConfigureInv
<1>6. CASE Restart
  BY <1>6, RestartInv
<1>7. CASE UNCHANGED vars
  <2>1. /\ rows' = rows /\ dynamic_flags' = dynamic_flags /\ call' = call
        /\ disturbed' = disturbed /\ last' = last
    BY <1>7 DEF vars
  <2>2. TypeInv' /\ CallInv' /\ AloneInv' /\ EndedHasConclusion'
    BY <2>1 DEF Inv, TypeInv, CallInv, AloneInv, EndedHasConclusion
  <2>3. FlagInv'
    BY <2>1 DEF Inv, FlagInv
  <2> QED
    BY <2>2, <2>3 DEF Inv
<1> QED
  BY <1>1, <1>2, <1>3, <1>4, <1>5, <1>6, <1>7 DEF Next

LEMMA Invariance == Spec => []Inv
<1> QED
  BY InitInv, StepInv, PTL DEF Spec

-----------------------------------------------------------------------------
(* The theorems *)

\* An experiment that is completed or cancelled has its end date and a
\* conclusion, whatever statement a request that had read it before puts over
\* it: update_experiment_status writes them together, the first time it ends.
THEOREM EndsHaveConclusions == Spec => []EndedHasConclusion
<1>1. Inv => EndedHasConclusion
  BY DEF Inv
<1> QED
  BY <1>1, Invariance, PTL

LEMMA InvFollows == Inv => FlagFollowsStatus
<1> SUFFICES ASSUME Inv, NEW n \in Names \ disturbed,
                    rows[n].status # "none", \A c \in Calls : call[c].name # n,
                    last[rows[n].config.flag] \in {n, "nobody"}
             PROVE  LET config == rows[n].config
                        f == config.flag
                    IN IF rows[n].status = "running"
                       THEN /\ dynamic_flags[f] = Override(config)
                            /\ \A u \in Users : Active(f, u) = "true" => InAudience(config, u)
                       ELSE \A u \in Users : Active(f, u) = Base(f, u)
  BY DEF FlagFollowsStatus
<1> DEFINE config == rows[n].config
           f == config.flag
<1>1. TypeInv /\ CallInv /\ FlagInv
  BY DEF Inv
<1>2. config \in Configs /\ f \in Flags /\ rows[n].status \in Statuses
  BY <1>1, ConfigsAssumption DEF CallInv, TypeInv, Row
<1>3. Agrees(n, rows[n], dynamic_flags, last)
  BY <1>1 DEF FlagInv
<1>4. CASE rows[n].status = "running"
  <2>1. dynamic_flags[f] = Override(config)
    BY <1>3, <1>4 DEF Agrees
  <2>2. Override(config) # NoOverride
    BY DEF Override, NoOverride
  <2>3. \A u \in Users : Active(f, u) = Targeted(config.audience, u)
    BY <2>1, <2>2 DEF Active, FlagActive, Enabled, Override
  <2>4. config.audience = NoRules \/ "percentage" \in DOMAIN config.audience
    BY <1>2, ConfigsAssumption
  <2>5. \A u \in Users : Active(f, u) = "true" => InAudience(config, u)
    BY <2>3, <2>4 DEF Targeted, InAudience
  <2> QED
    BY <1>4, <2>1, <2>5
<1>5. CASE rows[n].status # "running"
  <2>1. dynamic_flags[f] = NoOverride
    <3>1. CASE last[f] = "nobody"
      BY <3>1, <1>1, <1>2 DEF FlagInv
    <3>2. CASE last[f] = n
      BY <3>2, <1>2, <1>3, <1>5 DEF Agrees, Statuses, Ends
    <3> QED
      BY <3>1, <3>2
  <2>2. \A u \in Users : Active(f, u) = Base(f, u)
    BY <1>2, <2>1 DEF Active, Base, FlagActive
  <2> QED
    BY <1>5, <2>2
<1> QED
  BY <1>4, <1>5

\* The flag of an experiment follows its status between requests, for any
\* number of experiments that share flags, whatever the order of their starts,
\* pauses and ends in experiment_service.py and the faults before them.
THEOREM FlagsFollow == Spec => []FlagFollowsStatus
<1> QED
  BY InvFollows, Invariance, PTL

-----------------------------------------------------------------------------
(* Sums of whole numbers, by the least length that had none *)

Sums(f, k, numbers, S) ==
  /\ f \in [0 .. k -> S]
  /\ \A i \in 0 .. k : f[i] = IF i = 0 THEN 0 ELSE f[i - 1] + numbers[i]

LEMMA LeastNumber ==
  ASSUME NEW N \in SUBSET Nat, N # {}
  PROVE  \E n \in N : \A m \in N : ~ (m < n)
<1>1. \E n \in N : \A m \in N : ~ (<<m, n>> \in OpToRel(<, Nat))
  BY NatLessThanWellFounded, WFMin
<1> QED
  BY <1>1 DEF OpToRel

LEMMA SumsExist ==
  ASSUME NEW S \in {Int, Nat}, NEW numbers \in Seq(S), NEW k \in 0 .. Len(numbers)
  PROVE  \E f : Sums(f, k, numbers, S)
<1> DEFINE Bad == {j \in 0 .. Len(numbers) : ~ \E f : Sums(f, j, numbers, S)}
<1> SUFFICES ASSUME Bad # {}
             PROVE  FALSE
  OBVIOUS
<1>1. PICK j \in Bad : \A i \in Bad : ~ (i < j)
  <2>1. Bad \in SUBSET Nat
    OBVIOUS
  <2> HIDE DEF Bad
  <2> QED
    BY <2>1, LeastNumber
<1>2. j \in 0 .. Len(numbers) /\ j \in Nat /\ Len(numbers) \in Nat
  OBVIOUS
<1>3. CASE j = 0
  <2>1. Sums([i \in 0 .. 0 |-> 0], 0, numbers, S)
    BY DEF Sums
  <2> QED
    BY <1>3, <2>1
<1>4. CASE j # 0
  <2>1. j - 1 \in 0 .. Len(numbers) /\ j - 1 \notin Bad
    BY <1>1, <1>2, <1>4
  <2>2. PICK f : Sums(f, j - 1, numbers, S)
    BY <2>1
  <2> DEFINE g == [i \in 0 .. j |-> IF i = j THEN f[j - 1] + numbers[j] ELSE f[i]]
  <2>3. /\ f[j - 1] \in S /\ numbers[j] \in S
        /\ f[j - 1] + numbers[j] \in S
    <3>1. j - 1 \in 0 .. j - 1 /\ j \in 1 .. Len(numbers)
      BY <1>2, <1>4
    <3>2. f[j - 1] \in S
      BY <2>2, <3>1 DEF Sums
    <3>3. numbers[j] \in S
      BY <3>1
    <3>4. \A x, y \in S : x + y \in S
      <4>1. CASE S = Int
        BY <4>1
      <4>2. CASE S = Nat
        BY <4>2
      <4> QED
        BY <4>1, <4>2
    <3> QED
      BY <3>2, <3>3, <3>4
  <2>4. g \in [0 .. j -> S]
    BY <1>2, <1>4, <2>2, <2>3 DEF Sums
  <2>5. \A i \in 0 .. j : g[i] = IF i = 0 THEN 0 ELSE g[i - 1] + numbers[i]
    BY <1>2, <1>4, <2>2 DEF Sums
  <2>6. Sums(g, j, numbers, S)
    BY <2>4, <2>5 DEF Sums
  <2> QED
    BY <2>6
<1> QED
  BY <1>3, <1>4

\* Total adds whole numbers to a whole number.
LEMMA TotalIsWhole ==
  ASSUME NEW S \in {Int, Nat}, NEW numbers \in Seq(S)
  PROVE  Total(numbers) \in S
<1> DEFINE n == Len(numbers)
           Solution(f) == f = [i \in 0 .. n |-> IF i = 0 THEN 0 ELSE f[i - 1] + numbers[i]]
           upto == CHOOSE f : Solution(f)
<1>1. n \in Nat /\ n \in 0 .. n
  OBVIOUS
<1>2. PICK f : Sums(f, n, numbers, S)
  BY <1>1, SumsExist
<1>3. Solution(f)
  BY <1>2 DEF Sums
<1>4. Solution(upto)
  <2> HIDE DEF Solution
  <2> QED
    BY <1>3
<1>5. Total(numbers) = upto[n]
  BY DEF Total
<1> HIDE DEF upto
<1> DEFINE Bad == {i \in 0 .. n : upto[i] \notin S}
<1>6. Bad = {}
  <2> SUFFICES ASSUME Bad # {}
               PROVE  FALSE
    OBVIOUS
  <2>1. PICK j \in Bad : \A i \in Bad : ~ (i < j)
    <3>1. Bad \in SUBSET Nat
      OBVIOUS
    <3> HIDE DEF Bad
    <3> QED
      BY <3>1, LeastNumber
  <2>2. j \in 0 .. n /\ j \in Nat
    OBVIOUS
  <2>3. upto[j] = IF j = 0 THEN 0 ELSE upto[j - 1] + numbers[j]
    BY <1>4, <2>2
  <2>4. j # 0 => j - 1 \in 0 .. n /\ j - 1 < j /\ numbers[j] \in S
    BY <2>2
  <2>5. j # 0 => upto[j - 1] \in S
    BY <2>1, <2>4
  <2> QED
    BY <2>2, <2>3, <2>4, <2>5
<1> QED
  BY <1>1, <1>5, <1>6

\* The summary of an answer of whole numbers is one.
LEMMA SummaryIsWhole ==
  ASSUME NEW answer \in Answer
  PROVE  Summarize(answer) \in [sum : Int, count : Nat]
<1> DEFINE series == answer.series
           totals == [i \in DOMAIN series |-> Total(series[i])]
           lengths == [i \in DOMAIN series |-> Len(series[i])]
<1>1. series \in Seq(Seq(Int)) /\ answer.nan \in Nat
  BY DEF Answer
<1>2. DOMAIN series = 1 .. Len(series) /\ Len(series) \in Nat
  <2> HIDE DEF series
  <2> QED
    BY <1>1
<1>3. totals \in Seq(Int)
  <2> HIDE DEF series
  <2>1. \A i \in 1 .. Len(series) : Total(series[i]) \in Int
    BY <1>1, TotalIsWhole
  <2> QED
    BY <1>2, <2>1
<1>4. lengths \in Seq(Nat)
  <2> HIDE DEF series
  <2>1. \A i \in 1 .. Len(series) : Len(series[i]) \in Nat
    <3>1. \A i \in 1 .. Len(series) : series[i] \in Seq(Int)
      BY <1>1
    <3> QED
      BY <3>1
  <2> QED
    BY <1>2, <2>1
<1>5. Total(totals) \in Int /\ Total(lengths) \in Nat
  <2> HIDE DEF totals, lengths
  <2> QED
    BY <1>3, <1>4, TotalIsWhole
<1>6. Summarize(answer) = [sum |-> Total(totals), count |-> Total(lengths) + answer.nan]
  BY DEF Summarize
<1> QED
  <2> HIDE DEF totals, lengths
  <2> QED
    BY <1>1, <1>5, <1>6

-----------------------------------------------------------------------------
(* A success was measured *)

\* A criterion that is met was measured: fractions compare as the means do.
LEMMA MetIsMeasured ==
  ASSUME NEW criterion, NEW r \in [control : Answer, treatment : Answer],
         Met(criterion, r), criterion.threshold \in Int,
         Summarize(r.control) \in [sum : Int, count : Nat],
         Summarize(r.treatment) \in [sum : Int, count : Nat]
  PROVE  Measured(criterion, r)
<1> DEFINE c == Summarize(r.control)
           t == Summarize(r.treatment)
           rise == t.sum * c.count - c.sum * t.count
           size == IF c.sum < 0 THEN - c.sum ELSE c.sum
           least == criterion.threshold * (t.count * size)
<1>1. /\ c.sum \in Int /\ c.count \in Nat /\ t.sum \in Int /\ t.count \in Nat
      /\ c.count > 0 /\ t.count > 0
  BY DEF Met, Analyzed
<1>2. \A a, b \in Int : /\ a > 0 /\ b > 0 => a * b > 0
                        /\ a < 0 /\ b > 0 => a * b < 0
  OBVIOUS
<1>3. CASE c.sum = 0
  <2>1. Divisor(c, t) = 1 /\ Change(c, t) = 0
    BY <1>3 DEF Divisor, Change
  <2>2. rise = t.sum * c.count
    BY <1>1, <1>3
  <2>3. ASSUME criterion.direction = "increase", criterion.threshold > 0
        PROVE  rise > 0
    <3>1. t.sum > 0
      BY <2>1, <2>3, <1>1 DEF Met, Moved, Infinite
    <3> QED
      BY <2>2, <3>1, <1>1, <1>2
  <2>4. criterion.direction # "increase" =>
          criterion.direction = "decrease" /\ ~ Infinite(r) /\ 0 <= criterion.threshold
    BY <2>1, <1>1 DEF Met, Moved
  <2>5. ASSUME criterion.direction # "increase", rise > 0
        PROVE  r.treatment.nan > 0
    <3>1. t.sum > 0
      BY <2>2, <2>5, <1>1, <1>2
    <3>2. r.control.nan \in Nat /\ r.treatment.nan \in Nat
      BY DEF Answer
    <3>3. ~ FromZero(r) \/ r.treatment.nan # 0
      BY <2>4, <2>5, <3>1 DEF Infinite
    <3> QED
      BY <3>2, <3>3, <1>3 DEF Met, Moved, FromZero, HasNaN
  <2> QED
    BY <1>3, <2>3, <2>4, <2>5, <1>1 DEF Met, Analyzed, Measured
<1>4. CASE c.sum # 0
  <2>1. Divisor(c, t) = t.count * size /\ Change(c, t) = 100 * rise
    BY <1>4 DEF Divisor, Change
  <2>2. ~ Infinite(r)
    BY <1>4 DEF Infinite, FromZero
  <2>3. \/ criterion.direction = "increase" /\ 100 * rise >= least
        \/ criterion.direction = "decrease" /\ 100 * rise <= least
    BY <2>1, <2>2 DEF Met, Moved
  <2> QED
    BY <1>4, <2>3, <1>1 DEF Met, Analyzed, Measured
<1> QED
  BY <1>3, <1>4

LEMMA AnalyzeMeasured ==
  ASSUME Inv, NEW c \in Calls, NEW reading \in Readings, Analyze(c, reading, "measured"),
         ~ call[c].seen.ended, call'[c].columns.conclusion = "success"
  PROVE  LET criteria == call[c].seen.config.criteria IN
         \A i \in DOMAIN criteria : Measured(criteria[i], reading[criteria[i].metric])
<1> DEFINE config == call[c].seen.config
           criteria == config.criteria
           success == Analysis[criteria][reading].success
           conclusion == IF success THEN "success" ELSE "other"
           k == Columns("conclude", call[c].seen, conclusion)
<1>1. /\ call[c].phase = "fetched" /\ call[c].op = "conclude"
      /\ Writes(c, k, Analysis[criteria][reading].storable)
  BY DEF Analyze, Fetched, Touch
<1>2. config \in Configs /\ call[c].seen \in Seen
  BY <1>1 DEF Inv, TypeInv, CallInv, Call
<1>3. call'[c].columns = k
  BY <1>1 DEF Writes, Idle, Inv, TypeInv
<1>4. "conclude" \in Changes /\ NewStatus("conclude") \in Ends
  BY DEF Changes, NewStatus, Ends
<1>5. Changing(k, call[c].seen, NewStatus("conclude"), conclusion)
  BY <1>2, <1>4, ColumnsChanging
<1> HIDE DEF k
<1>6. k.conclusion = conclusion
  BY <1>4, <1>5 DEF Changing
<1>7. Successful(criteria, reading)
  BY <1>2, <1>3, <1>6, AnalysisFound
<1> SUFFICES ASSUME NEW i \in DOMAIN criteria
             PROVE  Measured(criteria[i], reading[criteria[i].metric])
  OBVIOUS
<1>8. Met(criteria[i], reading[criteria[i].metric])
  BY <1>7 DEF Successful
<1> DEFINE r == reading[criteria[i].metric]
<1>9. r \in [control : Answer, treatment : Answer] /\ criteria[i].threshold \in Int
  BY <1>2, NumbersAssumption
<1>10. /\ Summarize(r.control) \in [sum : Int, count : Nat]
       /\ Summarize(r.treatment) \in [sum : Int, count : Nat]
  BY <1>9, SummaryIsWhole
<1> QED
  BY <1>8, <1>9, <1>10, MetIsMeasured

\* A success that nobody decided by hand was measured: enough samples of both
\* variants, and a difference of the means that reaches each threshold, in
\* percent of the control's size, for any signs of readings and thresholds
\* (_analyze_experiment_results, _evaluate_success_criteria).
THEOREM SuccessMeasured == Spec => SuccessIsMeasured
<1>1. Inv /\ [Next]_vars =>
        [\A c \in Calls, reading \in Readings :
           /\ Analyze(c, reading, "measured")
           /\ ~ call[c].seen.ended /\ call'[c].columns.conclusion = "success"
           => LET criteria == call[c].seen.config.criteria IN
              \A i \in DOMAIN criteria : Measured(criteria[i], reading[criteria[i].metric])]_vars
  BY AnalyzeMeasured
<1> QED
  BY <1>1, Invariance, PTL DEF Spec, SuccessIsMeasured
=============================================================================
