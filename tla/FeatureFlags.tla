---------------------------- MODULE FeatureFlags ----------------------------
(***************************************************************************)
(* The evaluation of a feature flag for one user                           *)
(* (f_operator_service/services/feature_flag_service.py).                  *)
(*                                                                         *)
(* Targeting rules are a record with some of the fields percentage,        *)
(* environments and user_segments; None, and rules with none of the three, *)
(* are NoRules, and a percentage that is there and holds None is NoLimit.  *)
(* A user is a record [percentile, environment, segments]: the percentile  *)
(* is what the hash of user_id gives, 1 .. 100, or NoUser without one.     *)
(***************************************************************************)
EXTENDS Integers

NoRules == [none |-> TRUE]
NoLimit == 101
NoUser == 0

\* _evaluate_targeting: the first kind of rule that is there decides, and a
\* percentage of None cannot be compared with.
Targeted(rules, user) ==
  IF "percentage" \in DOMAIN rules
  THEN CASE user.percentile = NoUser    -> "false"
         [] rules.percentage = NoLimit -> "raises"
         [] OTHER -> IF user.percentile <= rules.percentage THEN "true" ELSE "false"
  ELSE IF "environments" \in DOMAIN rules
  THEN IF user.environment \in rules.environments THEN "true" ELSE "false"
  ELSE IF "user_segments" \in DOMAIN rules
  THEN IF rules.user_segments \cap user.segments # {} THEN "true" ELSE "false"
  ELSE "true"

\* _evaluate_flag_config: no rules mean everybody.
Enabled(config, user) ==
  IF config.is_active THEN Targeted(config.targeting, user) ELSE "false"

NoOverride == [is_active |-> FALSE, targeting |-> NoRules]

\* is_flag_active: an override decides, then the base flag; an unknown flag
\* is off.
FlagActive(dynamic_flags, base_flags, flag, user) ==
  IF dynamic_flags[flag] # NoOverride THEN Enabled(dynamic_flags[flag], user)
  ELSE IF flag \in DOMAIN base_flags THEN Enabled(base_flags[flag], user)
  ELSE "false"
=============================================================================
