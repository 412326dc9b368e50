---------------------------- MODULE PolicyEngine ----------------------------
(***************************************************************************)
(* PolicyEngine (policy_engine/engine.py): one engine in one service, its  *)
(* policies loaded, reloaded, evaluated and acted on.  Loading and         *)
(* evaluating never suspend; while PolicyExecution awaits an operator, a   *)
(* reload may come between.                                                *)
(***************************************************************************)
EXTENDS PolicyEvaluation, PolicyExecution

CONSTANTS
  Files,        \* what a policy file may hold: [text, policies]; a policy's
                \* conditions are [form, list] or [form, dict] until they are
                \* validated
  AgentLists    \* the agents_context arguments: sequences of contexts

Policy(Lists) ==
  [id : STRING, enabled : BOOLEAN, conditions : Lists, actions : Seq(STRING),
   target : [type : STRING, state : STRING, metadata_match : SUBSET Trees]]

ASSUME FilesAssumption == \A f \in Files :
  f.policies \in Seq(Policy([form : {"list"}, list : Seq(Trees)]
                          \cup [form : {"dict"}, dict : Trees] \cup [form : {"other"}]))

\* dict.get finds a value, or None, at every key.
ASSUME AgentsAssumption == \A agents \in AgentLists :
  /\ IsSequence(agents)
  /\ \A ctx \in Range(agents) : Fields = DOMAIN ctx.metrics.at /\ Fields = DOMAIN ctx.metadata.at

VARIABLE
  policies      \* self.policies

engineVars == <<policies, executionVars>>

-----------------------------------------------------------------------------
(* Policy files *)

\* ensure_conditions_list: conditions are a list, or a dict of one operator,
\* which becomes a list of it.
IsConditions(c) == c.form = "list" \/ (c.form = "dict" /\ Len(c.dict.keys) = 1)
EnsureConditionsList(c) == IF c.form = "dict" THEN <<c.dict>> ELSE c.list

\* load_policy_file takes all policies of a file or raises: the file is
\* missing, no YAML or has no "policies", or one policy is invalid.
IsPolicyFile(f) ==
  f.text = "policies" /\ \A i \in DOMAIN f.policies : IsConditions(f.policies[i].conditions)
LoadPolicyFile(f) ==
  [i \in DOMAIN f.policies |-> [f.policies[i] EXCEPT !.conditions = EnsureConditionsList(@)]]

\* serialize_policy_file dumps the members of the str enums as Python
\* objects, which safe_load refuses: what it writes loads again only if the
\* policies name no type, operator or state at all.
Serialized(ps) ==
  [policies |-> [i \in DOMAIN ps |->
                   [ps[i] EXCEPT !.conditions = [form |-> "list", list |-> @]]],
   text |-> IF \A i \in DOMAIN ps :
                 /\ ps[i].conditions = <<>> /\ ps[i].actions = <<>>
                 /\ ps[i].target.state = "any" /\ ps[i].target.metadata_match = {}
            THEN "policies" ELSE "refused"]

\* __init__ logs a file it cannot load, and goes on without policies.
EngineInit ==
  /\ policies \in {<<>>} \cup {LoadPolicyFile(f) : f \in {g \in Files : IsPolicyFile(g)}}
  /\ ExecutionInit

\* load_policies and reload_policies replace the policies, or raise before the
\* assignment.  (Both do raise, whatever load_policy_file raised: the handlers
\* name yaml and ValidationError, which engine.py does not import.)
Load(f) ==
  /\ policies' = IF IsPolicyFile(f) THEN LoadPolicyFile(f) ELSE policies
  /\ UNCHANGED executionVars

-----------------------------------------------------------------------------
(* run_evaluation *)

Active_All(ps) == DOMAIN ps                                 \* mutant
Active(ps) == {i \in DOMAIN ps : ps[i].enabled}

Raises(ps, agents) ==
  \E i \in Active(ps), j \in DOMAIN agents : PolicyVerdict(ps[i], agents[j]) = "raises"

\* The loops go policy by policy, and agent by agent.
Sooner(a, b) == a[1] < b[1] \/ (a[1] = b[1] /\ a[2] < b[2])

Matching(ps, agents) ==
  {m \in Active(ps) \X DOMAIN agents : PolicyVerdict(ps[m[1]], agents[m[2]]) = "true"}

Rank(m, found) == Cardinality({l \in found : Sooner(l, m)})

\* The matches in the order in which they are found.
Matches(ps, agents) ==
  LET found == Matching(ps, agents)
  IN [n \in 1 .. Cardinality(found) |->
        LET m == CHOOSE m \in found : Rank(m, found) = n - 1
        IN [policy |-> ps[m[1]], agent |-> agents[m[2]]]]

\* One condition that raises loses the matches of all policies.
RunEvaluation(agents) ==
  /\ IF Raises(policies, agents) THEN EvaluationRaises(agents)
     ELSE EvaluationReturns(agents, Matches(policies, agents))
  /\ UNCHANGED policies

-----------------------------------------------------------------------------
EngineNext ==
  \/ \E f \in Files \cup {Serialized(policies)} : Load(f)
  \/ \E agents \in AgentLists : RunEvaluation(agents)
  \/ Executing /\ UNCHANGED policies

EngineSpec == EngineInit /\ [][EngineNext]_engineVars /\ ExecutionFairness

-----------------------------------------------------------------------------
(* Properties *)

\* A tree the policy format describes: one operator per dict, NOT of one
\* condition, no empty group, and no condition that cannot be evaluated.
WellFormed[c \in Trees] ==
  IF c.type # "dict" THEN c.type # "dependency_check" /\ c.value.kind # "overflow"
  ELSE /\ Len(c.keys) = 1
       /\ LET g == c.keys[1]
          IN /\ IF g.op = "NOT" THEN Len(g.of) = 1 ELSE g.of # <<>>
             /\ \A i \in DOMAIN g.of : WellFormed[g.of[i]]

\* Reference: whether c is b, with the negations pushed to the leaves.
Truth(ctx) ==
  LET is[c \in Trees] ==
        [b \in BOOLEAN |->
           IF c.type # "dict" THEN (Leaf(c, ctx) = "true") = b
           ELSE \A k \in DOMAIN c.keys :
                  LET g == c.keys[k]
                  IN IF g.op = "NOT" THEN \A i \in DOMAIN g.of : is[g.of[i]][~ b]
                     ELSE IF (g.op = "AND") = b THEN \A i \in DOMAIN g.of : is[g.of[i]][b]
                     ELSE \E i \in DOMAIN g.of : is[g.of[i]][b]]
  IN is

\* No NOT and no "!=": the policy asks only for what must be there.
Cautious[c \in Trees] ==
  IF c.type # "dict" THEN c.operator # "!="
  ELSE \A i \in DOMAIN c.keys :
         /\ c.keys[i].op # "NOT" /\ c.keys[i].of # <<>>
         /\ \A j \in DOMAIN c.keys[i].of : Cautious[c.keys[i].of[j]]

Unknown(ctx) ==
  /\ IsMissing(ctx.since)
  /\ \A k \in DOMAIN ctx.metrics.at : IsMissing(ctx.metrics.at[k])
  /\ \A k \in DOMAIN ctx.metadata.at : IsMissing(ctx.metadata.at[k])

\* An evaluation that returns finds exactly the pairs of an enabled policy and
\* an agent its target names for which all the policy's conditions are true,
\* nested AND, OR and NOT read as logic reads them (docs/policy_format.md).
MatchesAreExact ==
  [][run'.phase = "matched" /\ UNCHANGED policies =>
       \A i \in DOMAIN policies, j \in DOMAIN run'.agents :
         LET p == policies[i]
             agent == run'.agents[j]
         IN (\A k \in DOMAIN p.conditions : WellFormed[p.conditions[k]]) =>
              ([policy |-> p, agent |-> agent] \in Range(run'.pairs)
               <=> /\ p.enabled
                   /\ MatchesTarget(p.target, agent)
                   /\ \A k \in DOMAIN p.conditions : Truth(agent)[p.conditions[k]][TRUE])]_engineVars

\* No action is taken on an agent of which nothing is known, by a policy that
\* has conditions and negates none: every missing datum fails its condition.
UnknownNeverMatches ==
  \A m \in DOMAIN run.pairs :
    LET p == run.pairs[m].policy IN
    /\ p.conditions # <<>>
    /\ \A k \in DOMAIN p.conditions : Cautious[p.conditions[k]]
    => ~ Unknown(run.pairs[m].agent)
=============================================================================
