--------------------------- MODULE MCExperiments ---------------------------
(***************************************************************************)
(* Instances of Experiments for TLC: two experiments that share a flag.    *)
(***************************************************************************)
EXTENDS Experiments, TLC

Criterion(direction, threshold, samples) ==
  [metric |-> "m", direction |-> direction, threshold |-> threshold,
   minimum_sample_size |-> samples]
Rules(percentage) ==
  [percentage |-> percentage, environments |-> {}, user_segments |-> {}]

MCConfigs ==
  {[flag |-> "f1", audience |-> Rules(50), criteria |-> <<Criterion("increase", 10, 2)>>],
   [flag |-> "f1", audience |-> NoRules,
    criteria |-> <<Criterion("increase", -50, 0), Criterion("decrease", 25, 1)>>]}

Series(s) == [series |-> s, nan |-> 0, bad |-> FALSE]
Reading(control, treatment) == [m \in {"m"} |-> [control |-> control, treatment |-> treatment]]
MCReadings ==
  {Reading(Series(<<<<-3, -1>>>>), Series(<<<<-4>>, <<-1, -1>>>>)),
   Reading(Series(<<<<-2, -2>>>>), Series(<<<<-3, 0>>>>)),
   Reading(Series(<<<<-2>>>>), Series(<<<<-3, -3>>>>)),
   Reading(Series(<<<<-2>>>>), Series(<<<<3, 3>>>>)),
   Reading(Series(<<<<-1, 1>>>>), Series(<<<<3>>, <<3>>>>)),
   Reading(Series(<<>>), Series(<<<<3, 3>>>>)),
   Reading(Series(<<<<1, 1>>>>), [series |-> <<<<2>>>>, nan |-> 1, bad |-> FALSE]),
   Reading([series |-> <<<<1, 1>>>>, nan |-> 0, bad |-> TRUE], Series(<<<<2, 2>>>>))}

User(percentile, environment) ==
  [percentile |-> percentile, environment |-> environment, segments |-> {"beta"}]
Symmetry == Permutations(Calls) \cup Permutations(Names)
MCUsers == {User(NoUser, "prod"), User(50, "prod"), User(51, "test")}

MCBaseFlags ==
  [f \in {"f1"} |-> [is_active |-> TRUE, targeting |-> [environments |-> {"prod"}]]]
=============================================================================
