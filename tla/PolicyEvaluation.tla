-------------------------- MODULE PolicyEvaluation --------------------------
(***************************************************************************)
(* The evaluation of policies against agent contexts (policy_engine/       *)
(* engine.py, over the condition and policy models of models.py).          *)
(*                                                                         *)
(* A value is a record [kind, v]: a "number"; a "numeral", a string that   *)
(* float() accepts; a "text", the set of the fragments it contains; a      *)
(* "list", the set of its members; a "pattern", the set of the strings it  *)
(* matches; a "duration"; or "missing", Python's None.  A value of kind    *)
(* "overflow" is a duration of more days than a timedelta holds.           *)
(*                                                                         *)
(* Evaluating a condition may raise, and then so does run_evaluation, for  *)
(* every policy and every agent: a verdict is "true", "false" or "raises". *)
(***************************************************************************)
EXTENDS Integers, Sequences, Functions

CONSTANTS
  Trees,        \* every condition a policy may hold, and every one in its groups
  Depth,        \* how deep the groups of each one nest
  Fields          \* of metrics and metadata

Leaves == {"time_in_state", "metric_threshold", "dependency_check", "metadata_match"}

IsSequence(s) == s \in Seq(Range(s))

\* A dict is a node [type |-> "dict", keys], keys a sequence of pairs [op, of];
\* it is meant to have one.  What was read from a file ends somewhere.
ASSUME TreesAssumption ==
  /\ Depth \in [Trees -> Nat]
  /\ \A c \in Trees :
       \/ c.type \in Leaves /\ c.key \in Fields
       \/ /\ c.type = "dict"
          /\ IsSequence(c.keys)
          /\ \A g \in Range(c.keys) :
               /\ IsSequence(g.of)
               /\ \A child \in Range(g.of) : child \in Trees /\ Depth[child] < Depth[c]

Missing == [kind |-> "missing", v |-> 0]
IsMissing(x) == x.kind = "missing"

Verdict(b) == IF b THEN "true" ELSE "false"

-----------------------------------------------------------------------------
(* _compare *)

Same(a, p) == a.kind = p.kind /\ a.v = p.v

\* A number on one side and a number or a numeral on the other: both sides
\* become numbers.  Two numerals are compared as the strings they are.
Numeric(a, p) == /\ {a.kind, p.kind} \subseteq {"number", "numeral"}
                 /\ "number" \in {a.kind, p.kind}
Durations(a, p) == a.kind = "duration" /\ p.kind = "duration"

Ordered(x, op, y) ==
  \/ op = ">"  /\ x > y
  \/ op = ">=" /\ x >= y
  \/ op = "<"  /\ x < y
  \/ op = "<=" /\ x <= y

\* Membership.  "in" raises on a string that is asked for anything but a
\* string, and _compare turns every exception into False, for contains and
\* for not_contains alike.
Asks(a, p) == a.kind \in {"text", "numeral"} => p.kind \in {"text", "numeral"}
Includes(a, p) ==
  \/ a.kind = "list" /\ \E x \in a.v : Same(x, p)
  \/ a.kind = "text" /\ p.kind = "text" /\ p.v \subseteq a.v
  \/ a.kind = "numeral" /\ Same(a, p)

Compare(a, op, p) ==
  \/ /\ op = "=="
     /\ IF Numeric(a, p) \/ Durations(a, p) THEN a.v = p.v ELSE Same(a, p)
  \/ /\ op = "!="
     /\ IF Numeric(a, p) \/ Durations(a, p) THEN a.v # p.v ELSE ~ Same(a, p)
  \/ /\ Numeric(a, p) \/ Durations(a, p)
     /\ Ordered(a.v, op, p.v)
  \/ op = "contains" /\ Includes(a, p)
  \/ op = "not_contains" /\ ~ Durations(a, p) /\ Asks(a, p) /\ ~ Includes(a, p)
  \/ op = "regex_match" /\ p.kind = "pattern" /\ \E x \in p.v : Same(a, x)

-----------------------------------------------------------------------------
(* The conditions.  A context is a record with type, state, since (the time *)
(* in the state), metadata and metrics ([dict, at]: whether it is a dict,   *)
(* and the value at each key) and dependencies.                             *)

TimeInState(c, ctx) ==
  IF IsMissing(ctx.since) THEN "false"                  \* no datetime
  ELSE IF c.value.kind = "overflow" THEN "raises"       \* only ValueError is caught
  ELSE Verdict(c.value.kind = "duration" /\ Compare(ctx.since, c.operator, c.value))

MetricThreshold(c, ctx) ==
  LET value == ctx.metrics.at[c.key]
  IN Verdict(/\ ctx.metrics.dict
             /\ ~ IsMissing(value)
             /\ Compare(value, c.operator, c.value))

\* Mutant: a missing key passes whatever the operator.
MetadataHolds_Open(m, ctx) ==
  /\ ctx.metadata.dict
  /\ LET value == ctx.metadata.at[m.key]
     IN IsMissing(value) \/ Compare(value, m.operator, m.value)

\* A missing key passes for "!=" and for nothing else.
MetadataHolds(m, ctx) ==
  /\ ctx.metadata.dict
  /\ LET value == ctx.metadata.at[m.key]
     IN IF IsMissing(value) THEN m.operator = "!="
        ELSE Compare(value, m.operator, m.value)

MetadataMatch(c, ctx) == Verdict(MetadataHolds(c, ctx))

\* DependencyConditionType is not imported by engine.py: whether the condition
\* is about states or counts, its first comparison raises NameError.
StatesAndCounts(c) == "raises"

\* The context's dependencies of the condition's relationship: no list fails.
DependencyCheck(c, ctx) ==
  IF ctx.dependencies = "list" THEN StatesAndCounts(c) ELSE "false"

Leaf(c, ctx) ==
  CASE c.type = "time_in_state"    -> TimeInState(c, ctx)
    [] c.type = "metric_threshold" -> MetricThreshold(c, ctx)
    [] c.type = "dependency_check" -> DependencyCheck(c, ctx)
    [] c.type = "metadata_match"   -> MetadataMatch(c, ctx)

-----------------------------------------------------------------------------
(* Condition trees *)

\* All children of a group are evaluated, so all may raise.
Combine(op, verdicts) ==
  IF "raises" \in verdicts THEN "raises"
  ELSE Verdict(IF op = "AND" THEN "false" \notin verdicts ELSE "true" \in verdicts)

\* From the verdicts on the children.  NOT of anything but one condition is
\* false, whatever that is; an empty AND and an empty OR are true.
Group(op, verdicts) ==
  IF op = "NOT"
  THEN IF Len(verdicts) # 1 THEN "false"
       ELSE IF verdicts[1] = "raises" THEN "raises" ELSE Verdict(verdicts[1] = "false")
  ELSE IF verdicts = <<>> THEN "true"
  ELSE Combine(op, Range(verdicts))

\* A nested dict that has not one key is false.
Evaluate(ctx) ==
  LET verdict[c \in Trees] ==
        IF c.type # "dict" THEN Leaf(c, ctx)
        ELSE IF Len(c.keys) # 1 THEN "false"
        ELSE LET g == c.keys[1] IN Group(g.op, [i \in DOMAIN g.of |-> verdict[g.of[i]]])
  IN verdict

Verdicts(conditions, ctx) == [i \in DOMAIN conditions |-> Evaluate(ctx)[conditions[i]]]

\* A policy's list of conditions.  A list of one dict is the dict, whose
\* first key counts whatever the others are; an empty dict has none to take.
Conditions(conditions, ctx) ==
  IF conditions = <<>> THEN "true"
  ELSE IF Len(conditions) = 1 /\ conditions[1].type = "dict"
       THEN LET keys == conditions[1].keys
            IN IF keys = <<>> THEN "raises" ELSE Group(keys[1].op, Verdicts(keys[1].of, ctx))
  ELSE Group("AND", Verdicts(conditions, ctx))

-----------------------------------------------------------------------------
\* _matches_target: type and state if the target names them ("any" is None),
\* and all metadata targets; here a missing key does equal a None.
MatchesTarget(target, ctx) ==
  /\ target.type = "any" \/ ctx.type = target.type
  /\ target.state = "any" \/ ctx.state = target.state
  /\ \A m \in target.metadata_match :
       /\ MetadataHolds(m, ctx)
       /\ IsMissing(m.value) => ~ IsMissing(ctx.metadata.at[m.key])

\* What run_evaluation finds out about one policy and one agent: the
\* conditions are evaluated only where the target matches.
PolicyVerdict(p, ctx) ==
  IF MatchesTarget(p.target, ctx) THEN Conditions(p.conditions, ctx) ELSE "false"
=============================================================================
