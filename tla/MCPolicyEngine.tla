--------------------------- MODULE MCPolicyEngine ---------------------------
(***************************************************************************)
(* Instances of PolicyEngine for TLC: one metric and one metadata key,     *)
(* condition trees of up to four levels over six leaves, four contexts.    *)
(***************************************************************************)
EXTENDS PolicyEngine, FiniteSetsExt

Number(n)   == [kind |-> "number", v |-> n]
Numeral(n)  == [kind |-> "numeral", v |-> n]
Text(s)     == [kind |-> "text", v |-> s]
ListOf(s)   == [kind |-> "list", v |-> s]
Duration(n) == [kind |-> "duration", v |-> n]

Condition(type, operator, value) ==
  [type |-> type, operator |-> operator, key |-> "k", value |-> value]
Dict(keys) == [type |-> "dict", keys |-> keys]
One(op, of) == Dict(<<[op |-> op, of |-> of]>>)

Age      == Condition("time_in_state", ">=", Duration(2))
HugeAge  == Condition("time_in_state", ">", [kind |-> "overflow", v |-> 0])
BadAge   == Condition("time_in_state", ">", Text({"soon"}))
Metric   == Condition("metric_threshold", ">", Numeral(1))
Meta     == Condition("metadata_match", "contains", Text({"gold"}))
NotMeta  == Condition("metadata_match", "!=", Text({"gold"}))
NotBad   == Condition("metadata_match", "not_contains", Text({"bad"}))
SameMeta == Condition("metadata_match", "regex_match", [kind |-> "pattern", v |-> {Text({"gold", "team"})}])
Depends  == Condition("dependency_check", "==", Missing)

SomeLeaves == {Age, BadAge, Metric, Meta, NotMeta, Depends}
Groups == {One(op, <<a, b>>) : op \in {"AND", "OR"}, a \in {Age, Metric}, b \in {NotMeta, Depends}}
          \cup {One("NOT", <<a>>) : a \in SomeLeaves}
Roots == Groups
         \cup {One("NOT", <<g>>) : g \in Groups}
         \cup {One("OR", <<Age, One("AND", <<NotMeta, One("NOT", <<Metric>>)>>)>>),
               One("NOT", <<Meta, Age>>), One("OR", <<>>), One("AND", <<Dict(<<>>), Age>>),
               Dict(<<>>), Dict(<<[op |-> "NOT", of |-> <<Meta>>], [op |-> "AND", of |-> <<>>]>>)}

Anyone == [type |-> "any", state |-> "any", metadata_match |-> {}]
Stable == [type |-> "model", state |-> "stable", metadata_match |-> {NotBad}]

Trigger == "trigger_kfm_operation"

APolicy(name, enabled, target, conditions, actions) ==
  [id |-> name, enabled |-> enabled, target |-> target,
   conditions |-> conditions, actions |-> actions]
List(cs) == [form |-> "list", list |-> cs]
File(ps) == [text |-> "policies", policies |-> ps]
Tree(conditions) == File(<<APolicy("tree", TRUE, Anyone, conditions, <<"log">>)>>)

MCFiles ==
  {[text |-> "missing", policies |-> <<>>], Tree([form |-> "other"])}
  \cup {Tree(List(<<t>>)) : t \in Roots}
  \cup {Tree([form |-> "dict", dict |-> t]) : t \in Roots}
  \cup {File(<<APolicy("leaf", TRUE, Anyone, List(<<c, SameMeta>>), <<"log">>)>>) : c \in SomeLeaves}
  \cup {File(<<APolicy("idle", TRUE, Anyone, List(<<>>), <<>>)>>),
        File(<<APolicy("huge", TRUE, Anyone, List(<<HugeAge>>), <<"log">>)>>),
        File(<<APolicy("p", TRUE, Stable, List(<<Age>>), <<"log_bad_level", Trigger, "notify">>),
               APolicy("q", FALSE, Anyone, List(<<>>), <<Trigger>>),
               APolicy("r", TRUE, Anyone, List(<<>>), <<Trigger, "webhook">>)>>)}

\* Every condition of the files, of the targets and in a group of these.
RECURSIVE Within(_), Height(_)
Within(c) ==
  {c} \cup IF c.type # "dict" THEN {}
           ELSE UNION {UNION {Within(child) : child \in Range(g.of)} : g \in Range(c.keys)}
Height(c) ==
  IF c.type # "dict" THEN 0
  ELSE 1 + Max({0} \cup UNION {{Height(child) : child \in Range(g.of)} : g \in Range(c.keys)})

MCTrees == UNION {Within(c) : c \in Roots \cup SomeLeaves \cup {HugeAge, SameMeta, NotBad}}
MCDepth == [c \in MCTrees |-> Height(c)]
MCFields  == {"k"}

Context(id, state, since, metric, meta, dependencies) ==
  [id |-> id, type |-> "model", state |-> state, since |-> since,
   metrics  |-> [dict |-> TRUE, at |-> [k \in MCFields |-> metric]],
   metadata |-> [dict |-> TRUE, at |-> [k \in MCFields |-> meta]],
   dependencies |-> dependencies]
Bare  == Context("none", "new", Missing, Missing, Missing, "no_list")
Old   == Context("a", "stable", Duration(3), Number(2), Text({"gold", "team"}), "no_list")
Young == Context("b", "stable", Duration(1), Numeral(2), ListOf({Text({"gold"}), Number(1)}), "list")
Odd   == [Old EXCEPT !.metadata.dict = FALSE, !.metrics.dict = FALSE]

MCAgentLists == {<<Bare>>, <<Old>>, <<Young>>, <<Odd>>, <<Old, Bare>>}
=============================================================================
