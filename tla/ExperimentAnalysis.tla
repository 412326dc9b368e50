------------------------- MODULE ExperimentAnalysis -------------------------
(***************************************************************************)
(* What an experiment has measured, and whether that is a success          *)
(* (f_operator_service/services/metrics_service.py, and the analysis in    *)
(* experiment_service.py).                                                 *)
(*                                                                         *)
(* An answer of Prometheus for a variant is a record [series, nan, bad]:   *)
(* its series, each a sequence of whole numbers (no series where the query *)
(* failed), how many NaN there are besides, and whether some value does    *)
(* not parse as a number.  Thresholds are in percent.                      *)
(***************************************************************************)
EXTENDS Integers, Sequences

Total(numbers) ==
  LET upto[i \in 0 .. Len(numbers)] == IF i = 0 THEN 0 ELSE upto[i - 1] + numbers[i]
  IN upto[Len(numbers)]

\* _summarize_metric: the values of all series together.  The mean is
\* sum / count, None when there is no value, NaN when one is NaN.
Summarize(answer) ==
  LET series == answer.series
  IN [sum   |-> Total([i \in DOMAIN series |-> Total(series[i])]),
      count |-> Total([i \in DOMAIN series |-> Len(series[i])]) + answer.nan]

\* _analyze_experiment_results has a relative change: a value that does not
\* parse spoils both variants, and no value leaves one without a mean.
Analyzed(r) ==
  /\ ~ r.control.bad /\ ~ r.treatment.bad
  /\ Summarize(r.control).count > 0 /\ Summarize(r.treatment).count > 0

HasNaN(r) == r.control.nan > 0 \/ r.treatment.nan > 0

FromZero(r) == r.control.nan = 0 /\ Summarize(r.control).sum = 0

Infinite(r) == FromZero(r) /\ r.treatment.nan = 0 /\ Summarize(r.treatment).sum > 0

\* The relative change in percent as a fraction: of the means, multiplied by
\* both counts.  It is 0 from a mean of 0 to one that is not above.
Change(c, t) == IF c.sum = 0 THEN 0 ELSE 100 * (t.sum * c.count - c.sum * t.count)
Divisor_Signed(c, t) == IF c.sum = 0 THEN 1 ELSE t.count * c.sum    \* mutant
Divisor(c, t) == IF c.sum = 0 THEN 1 ELSE t.count * (IF c.sum < 0 THEN - c.sum ELSE c.sum)

\* The criterion's direction and threshold.  A change of NaN compares with
\* nothing; from a mean of 0 to NaN the change is 0.
Moved(criterion, r) ==
  LET c == Summarize(r.control)
      t == Summarize(r.treatment)
      least == criterion.threshold * Divisor(c, t)
  IN /\ HasNaN(r) => FromZero(r)
     /\ \/ criterion.direction = "increase" /\ (Infinite(r) \/ Change(c, t) >= least)
        \/ criterion.direction = "decrease" /\ ~ Infinite(r) /\ Change(c, t) <= least

Met(criterion, r) ==
  /\ Analyzed(r)
  /\ criterion.minimum_sample_size <= Summarize(r.control).count
  /\ criterion.minimum_sample_size <= Summarize(r.treatment).count
  /\ Moved(criterion, r)

\* _evaluate_success_criteria
Successful(criteria, reading) ==
  \A i \in DOMAIN criteria : Met(criteria[i], reading[criteria[i].metric])

\* PostgreSQL refuses an Infinity and a NaN in the JSON of the results.
Storable(criteria, reading) ==
  \A i \in DOMAIN criteria :
    LET r == reading[criteria[i].metric] IN Analyzed(r) => ~ HasNaN(r) /\ ~ Infinite(r)
=============================================================================
