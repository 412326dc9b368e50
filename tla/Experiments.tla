---------------------------- MODULE Experiments ----------------------------
(***************************************************************************)
(* The experiments of the F operator (f_operator_service/services/         *)
(* experiment_service.py over crud/crud_experiment.py and                  *)
(* feature_flag_service.py): their status in the database, and the flag    *)
(* overrides in the memory of the process.                                 *)
(*                                                                         *)
(* A request reads the row, checks its status, touches the override, and   *)
(* writes the row back; it suspends in the read, in the commit and, when   *)
(* it concludes, while it collects the metrics.  Requests interleave       *)
(* there.  A request whose check fails changes nothing and is no step.     *)
(*                                                                         *)
(* The module is about the service as it is written to be wired: one flag  *)
(* service per process, and variants and criteria that answer to their     *)
(* attributes.                                                             *)
(***************************************************************************)
EXTENDS FeatureFlags, ExperimentAnalysis, Functions

CONSTANTS
  Names,          \* of experiments, unique in the table
  Flags,
  Configs,        \* what a request may define: [flag, audience, criteria]
  Calls,          \* requests that may be under way at once
  Readings,       \* what collect_metrics may find, by metric: answers [control, treatment]
  Users,
  BaseFlags       \* base_flags: configurations of some flags

\* "none" and "nobody" stand for no experiment.
ASSUME NamesAssumption == {"none", "nobody"} \cap Names = {}

\* An audience that is stored always has a percentage.
ASSUME ConfigsAssumption ==
  \A config \in Configs :
    /\ config.flag \in Flags
    /\ config.audience = NoRules \/ "percentage" \in DOMAIN config.audience

Answer == [series : Seq(Seq(Int)), nan : Nat, bad : BOOLEAN]

\* Values and thresholds are whole numbers.
ASSUME NumbersAssumption ==
  \A config \in Configs, reading \in Readings :
    \A i \in DOMAIN config.criteria :
      /\ reading[config.criteria[i].metric] \in [control : Answer, treatment : Answer]
      /\ config.criteria[i].threshold \in Int

VARIABLES
  rows,           \* the table
  dynamic_flags,  \* the overrides
  call,           \* where each request is
  disturbed,      \* history: experiments whose override and status may differ
  last            \* history: the experiment that touched each override last

vars == <<rows, dynamic_flags, call, disturbed, last>>

NoConfig  == [flag |-> "none", audience |-> NoRules, criteria |-> <<>>]
NoRow == [status |-> "none", config |-> NoConfig, ended |-> FALSE, conclusion |-> "none"]
NotRead == [status |-> "none", config |-> NoConfig, ended |-> FALSE]
\* A conclusion is "success" or "other": failure, or cancelled for some reason.
NoColumns == [x \in {} |-> x]
Idle  == [op |-> "none", name |-> "none", phase |-> "idle", seen |-> NotRead,
          columns |-> NoColumns, storable |-> TRUE, alone |-> TRUE]

Init ==
  /\ rows = [n \in Names |-> NoRow]
  /\ dynamic_flags = [f \in Flags |-> NoOverride]
  /\ call = [c \in Calls |-> Idle]
  /\ disturbed = {}
  /\ last = [f \in Flags |-> "nobody"]

-----------------------------------------------------------------------------
(* The requests.  "alone" is history: no other request for the experiment  *)
(* has been under way during this one.                                     *)

Others(c, n) == {d \in Calls \ {c} : call[d].name = n}

\* create_experiment: a taken name violates a constraint, and nothing is kept.
Create(n, config) ==
  /\ rows[n].status = "none"
  /\ rows' = [rows EXCEPT ![n] = [NoRow EXCEPT !.status = "draft", !.config = config]]
  /\ UNCHANGED <<dynamic_flags, call, disturbed, last>>

Allowed(op, status) ==
  CASE op \in {"update", "start"} -> status = "draft"
    [] op = "pause"    -> status = "running"
    [] op = "resume"   -> status = "paused"
    [] op = "conclude" -> status \in {"running", "paused"}
    [] op = "cancel"   -> status \notin {"none", "completed"}

\* The row is read, and its status passes the check.
Fetch(c, op, n) ==
  /\ call[c].phase = "idle"
  /\ Allowed(op, rows[n].status)
  /\ call' = [d \in Calls |->
        IF d = c THEN [Idle EXCEPT !.op = op, !.name = n, !.phase = "fetched",
                                   !.seen = Restrict(rows[n], DOMAIN NotRead),
                                   !.alone = Others(c, n) = {}]
        ELSE [call[d] EXCEPT !.alone = @ /\ call[d].name # n]]
  /\ disturbed' = IF Others(c, n) = {} THEN disturbed ELSE disturbed \cup {n}
  /\ UNCHANGED <<rows, dynamic_flags, last>>

Fetched(c, ops) == call[c].phase = "fetched" /\ call[c].op \in ops

Override(config) == [is_active |-> TRUE, targeting |-> config.audience]

\* A request that is alone brings the override and the status together again.
Settled(c, n) == IF call[c].alone THEN disturbed \ {n} ELSE disturbed

NewStatus(op) ==
  CASE op \in {"start", "resume"} -> "running"
    [] op = "pause"    -> "paused"
    [] op = "conclude" -> "completed"
    [] op = "cancel"   -> "cancelled"

\* update_experiment_status on the row as it was read.  The statement names
\* the columns that change: the status if it does, and end_date, results and
\* conclusion the first time the experiment ends.  (Mutant: results and
\* conclusion are left to a later statement.)
Columns_Later(op, seen, conclusion) ==
  LET status == NewStatus(op)
      ends == status \in {"completed", "cancelled"} /\ ~ seen.ended
      changed == {x \in {"status"} : seen.status # status}
                 \cup {x \in {"ended"} : ends} \cup {x \in {"conclusion"} : ends /\ op = "conclude"}
      value == [status |-> status, ended |-> TRUE, conclusion |-> conclusion]
  IN [x \in changed |-> value[x]]
Columns(op, seen, conclusion) ==
  LET status == NewStatus(op)
      ends == status \in {"completed", "cancelled"} /\ ~ seen.ended
      changed == {x \in {"status"} : seen.status # status}
                 \cup {x \in {"ended", "conclusion"} : ends}
      value == [status |-> status, ended |-> TRUE, conclusion |-> conclusion]
  IN [x \in changed |-> value[x]]

\* From here on only the statement matters.
Writes(c, columns, storable) ==
  call' = [call EXCEPT ![c] = [Idle EXCEPT !.phase = "writing", !.name = call[c].name,
                                           !.columns = columns, !.storable = storable,
                                           !.alone = call[c].alone]]

\* The override of the flag becomes o, and the row is written next.
Touch(c, o, conclusion, storable) ==
  LET n == call[c].name
      f == call[c].seen.config.flag
  IN /\ dynamic_flags' = [dynamic_flags EXCEPT ![f] = o]
     /\ last' = [last EXCEPT ![f] = n]
     /\ disturbed' = Settled(c, n)
     /\ Writes(c, Columns(call[c].op, call[c].seen, conclusion), storable)
     /\ UNCHANGED rows

SetOverride(c) ==
  /\ Fetched(c, {"start", "resume"})
  /\ Touch(c, Override(call[c].seen.config), "none", TRUE)

\* cancel removes the override of an experiment that was running or paused.
\* (Mutant: cancel leaves it.)
Removes_Cancelled(c) == call[c].op = "pause"
Removes(c) == call[c].op = "pause" \/ call[c].seen.status \in {"running", "paused"}

RemoveOverride(c) ==
  /\ Fetched(c, {"pause", "cancel"})
  /\ Removes(c)
  /\ Touch(c, NoOverride, "other", TRUE)

\* cancel of a draft, or of a cancelled experiment.
CancelOnly(c) ==
  /\ Fetched(c, {"cancel"})
  /\ ~ Removes(c)
  /\ Writes(c, Columns("cancel", call[c].seen, "other"), TRUE)
  /\ UNCHANGED <<rows, dynamic_flags, disturbed, last>>

\* What the analysis finds, by criteria and reading.
Analysis ==
  [criteria \in {config.criteria : config \in Configs} |->
     [reading \in Readings |-> [success  |-> Successful(criteria, reading),
                               storable |-> Storable(criteria, reading)]]]

\* conclude_experiment, when the metrics have been collected; a verdict by
\* hand replaces the measured one.
Analyze(c, reading, verdict) ==
  LET analysis == Analysis[call[c].seen.config.criteria][reading]
      success == IF verdict = "measured" THEN analysis.success ELSE verdict = "success"
  IN /\ Fetched(c, {"conclude"})
     /\ Touch(c, NoOverride, IF success THEN "success" ELSE "other",
              analysis.storable)

\* update_experiment_config
Configure(c, config) ==
  /\ Fetched(c, {"update"})
  /\ Writes(c, [config |-> config], TRUE)
  /\ UNCHANGED <<rows, dynamic_flags, disturbed, last>>

-----------------------------------------------------------------------------
(* The commit *)

Writing(c) == call[c].phase = "writing"

\* UPDATE: the columns of the statement replace those of the row.
Updated(row, columns) ==
  [x \in DOMAIN row |-> IF x \in DOMAIN columns THEN columns[x] ELSE row[x]]

Commit(c) ==
  /\ Writing(c)
  /\ call[c].storable
  /\ rows' = [rows EXCEPT ![call[c].name] = Updated(@, call[c].columns)]
  /\ call' = [call EXCEPT ![c] = Idle]
  /\ UNCHANGED <<dynamic_flags, disturbed, last>>

\* The commit raises, as it must with a result the database refuses: the
\* override is not put back.
CommitFails(c) ==
  /\ Writing(c)
  /\ disturbed' = disturbed \cup {call[c].name}
  /\ call' = [call EXCEPT ![c] = Idle]
  /\ UNCHANGED <<rows, dynamic_flags, last>>

\* The process starts again: the overrides are gone.
Restart ==
  /\ dynamic_flags' = [f \in Flags |-> NoOverride]
  /\ call' = [c \in Calls |-> Idle]
  /\ disturbed' = disturbed \cup {n \in Names : rows[n].status = "running"}
                            \cup {call[c].name : c \in {d \in Calls : call[d].phase # "idle"}}
  /\ last' = [f \in Flags |-> "nobody"]
  /\ UNCHANGED rows

Ops == {"update", "start", "pause", "resume", "conclude", "cancel"}

Verdicts == {"measured", "success", "failure"}

Next ==
  \/ \E n \in Names, config \in Configs : Create(n, config)
  \/ \E c \in Calls :
       \/ \E op \in Ops, n \in Names : Fetch(c, op, n)
       \/ SetOverride(c) \/ RemoveOverride(c) \/ CancelOnly(c)
       \/ \E reading \in Readings, verdict \in Verdicts : Analyze(c, reading, verdict)
       \/ \E config \in Configs : Configure(c, config)
       \/ Commit(c) \/ CommitFails(c)
  \/ Restart

Spec == Init /\ [][Next]_vars

-----------------------------------------------------------------------------
(* Properties *)

Active(f, u) == FlagActive(dynamic_flags, BaseFlags, f, u)
Base(f, u)   == FlagActive([g \in Flags |-> NoOverride], BaseFlags, f, u)
InAudience(config, u) ==
  config.audience # NoRules /\ config.audience.percentage # NoLimit
    => u.percentile # NoUser /\ u.percentile <= config.audience.percentage

\* An experiment's flag follows its status.  Between requests, a running
\* experiment shows the flag to nobody beyond the percentage of its audience,
\* and any other leaves the flag as the base has it: whatever the order of
\* its starts, pauses and ends, and again after a fault as soon as one request
\* set or removed the override by itself.  Experiments that share a flag share
\* its override, and it is the last to touch it that it follows.
FlagFollowsStatus ==
  \A n \in Names \ disturbed :
    LET config == rows[n].config
        f == config.flag
    IN /\ rows[n].status # "none"
       /\ \A c \in Calls : call[c].name # n
       /\ last[f] \in {n, "nobody"}
       => IF rows[n].status = "running"
          THEN /\ dynamic_flags[f] = Override(config)
               /\ \A u \in Users : Active(f, u) = "true" => InAudience(config, u)
          ELSE \A u \in Users : Active(f, u) = Base(f, u)

\* An experiment that is completed or cancelled has its end date and a
\* conclusion, and keeps them when a request that had read it before puts
\* another status over it: the columns are written together, or are there.
EndedHasConclusion ==
  \A n \in Names :
    /\ rows[n].status \in {"completed", "cancelled"} => rows[n].ended
    /\ rows[n].ended => rows[n].conclusion # "none"

\* The means compared through the sums: 100 * rise and least have both counts
\* as factors.
Measured(criterion, r) ==
  LET c == Summarize(r.control)
      t == Summarize(r.treatment)
      rise == t.sum * c.count - c.sum * t.count
      size == IF c.sum < 0 THEN - c.sum ELSE c.sum
      least == criterion.threshold * (t.count * size)
  IN /\ ~ r.control.bad /\ ~ r.treatment.bad
     /\ c.count > 0 /\ criterion.minimum_sample_size <= c.count
     /\ t.count > 0 /\ criterion.minimum_sample_size <= t.count
     /\ IF criterion.direction = "increase"
        THEN IF c.sum # 0 THEN 100 * rise >= least
                          ELSE criterion.threshold > 0 => rise > 0
        ELSE IF c.sum # 0 THEN 100 * rise <= least
                          ELSE /\ criterion.threshold >= 0
                               /\ rise > 0 => r.treatment.nan > 0

\* A success that nobody decided by hand was measured: both variants have a
\* mean from enough samples, and for every criterion the treatment's differs
\* from the control's, upwards, by the threshold in percent of the control's
\* size or more ("increase") or by no more than that ("decrease"), also where
\* the control is negative.  A threshold that points in the direction of its
\* criterion makes a loss no success; one that points the other way lets it be
\* one.  From a control of 0 a fall is no change, and a rise to no NaN infinite.
SuccessIsMeasured ==
  [][\A c \in Calls, reading \in Readings :
       /\ Analyze(c, reading, "measured")
       /\ ~ call[c].seen.ended /\ call'[c].columns.conclusion = "success"
       => LET criteria == call[c].seen.config.criteria IN
          \A i \in DOMAIN criteria : Measured(criteria[i], reading[criteria[i].metric])]_vars
=============================================================================
