-------------------------- MODULE PolicyExecution --------------------------
(***************************************************************************)
(* execute_actions of PolicyEngine (policy_engine/engine.py), and the audit*)
(* log, for whatever matches an evaluation returns.  It suspends only in   *)
(* the call to a KFM operator; its other handlers write a log line.        *)
(***************************************************************************)
EXTENDS Naturals, Sequences, FiniteSets

VARIABLES
  run,          \* the latest evaluation and what became of its matches
  audit         \* the audit entries logged for it

executionVars == <<run, audit>>

NoRun == [phase |-> "idle", agents |-> <<>>, pairs |-> <<>>,
          at |-> 1, next |-> 1, outcomes |-> 0]

ExecutionInit == run = NoRun /\ audit = <<>>

-----------------------------------------------------------------------------
(* run_evaluation, as the execution sees it *)

Busy == run.phase \in {"running", "posting"}

EvaluationReturns(agents, pairs) ==
  /\ ~ Busy
  /\ run' = [NoRun EXCEPT !.phase = "matched", !.agents = agents, !.pairs = pairs]
  /\ audit' = <<>>

EvaluationRaises(agents) ==
  /\ ~ Busy
  /\ run' = [NoRun EXCEPT !.phase = "raised", !.agents = agents]
  /\ audit' = <<>>

-----------------------------------------------------------------------------
(* execute_actions *)

\* The caller hands over what run_evaluation returned.  The loop takes three
\* values from each match and gets two: ValueError, before any action.
ExecuteReturned ==
  /\ run.phase = "matched"
  /\ run' = [run EXCEPT !.phase = IF run.pairs = <<>> THEN "done" ELSE "refused"]
  /\ UNCHANGED audit

\* The caller adds an audit entry to each match.
Execute ==
  /\ run.phase = "matched"
  /\ run' = [run EXCEPT !.phase = IF run.pairs = <<>> THEN "done" ELSE "running"]
  /\ UNCHANGED audit

Match   == run.pairs[run.at]
Actions == Match.policy.actions
HasAction == run.phase = "running" /\ run.next <= Len(Actions)

\* The handler awaits an operator only for an agent that has an id.
Suspends(action, agent) == action = "trigger_kfm_operation" /\ agent.id # "none"

\* logger.log raises when the level names something else in module logging.
HandlerRaises(action) == action = "log_bad_level"

\* The next action's handler ended or raised; None is what each returns.
After_Breaks(raised) ==                                     \* mutant
  [run EXCEPT !.next = IF raised THEN Len(Actions) + 1 ELSE @ + 1, !.phase = "running",
              !.outcomes = IF raised THEN @ ELSE @ + 1]
After_Again(raised) ==                                      \* mutant
  [run EXCEPT !.next = IF raised THEN @ ELSE @ + 1, !.phase = "running",
              !.outcomes = IF raised THEN @ ELSE @ + 1]
After(raised) ==
  [run EXCEPT !.next = @ + 1, !.phase = "running",
              !.outcomes = IF raised THEN @ ELSE @ + 1]

Handle ==
  /\ HasAction
  /\ ~ Suspends(Actions[run.next], Match.agent)
  /\ run' = After(HandlerRaises(Actions[run.next]))
  /\ UNCHANGED audit

Post ==
  /\ HasAction
  /\ Suspends(Actions[run.next], Match.agent)
  /\ run' = [run EXCEPT !.phase = "posting"]
  /\ UNCHANGED audit

\* An answer, an error status, an error or the timeout: all end the same way.
PostEnds ==
  /\ run.phase = "posting"
  /\ run' = After(FALSE)
  /\ UNCHANGED audit

LogAuditEntry(entry) == audit' = Append(audit, entry)

\* The entry lists all the policy's actions as triggered.
Audit ==
  /\ run.phase = "running"
  /\ run.next > Len(Actions)
  /\ LogAuditEntry([policy |-> Match.policy, outcomes |-> run.outcomes])
  /\ run' = [run EXCEPT !.at = @ + 1, !.next = 1, !.outcomes = 0,
                        !.phase = IF run.at = Len(run.pairs) THEN "done" ELSE "running"]

\* The task is cancelled while it awaits an operator.
Cancel ==
  /\ run.phase = "posting"
  /\ run' = [run EXCEPT !.phase = "cancelled"]
  /\ UNCHANGED audit

Executing == ExecuteReturned \/ Execute \/ Handle \/ Post \/ PostEnds \/ Audit \/ Cancel

\* A handler that was started ends: the call to an operator has a timeout of
\* 30 seconds (line 334).
ExecutionFairness ==
  /\ WF_executionVars(Handle)
  /\ WF_executionVars(Post)
  /\ WF_executionVars(PostEnds)
  /\ WF_executionVars(Audit)

-----------------------------------------------------------------------------
(* Properties *)

\* The audit log runs neither ahead of the actions nor behind them, and one
\* action that fails stops neither those after it nor the matches after its
\* own: the entries are those of the matches done so far, in order, and each
\* tells of one outcome per action whose handler did not raise.
AuditFollowsActions ==
  /\ Len(audit) = run.at - 1
  /\ \A k \in DOMAIN audit :
       LET p == run.pairs[k].policy IN
       /\ audit[k].policy = p
       /\ audit[k].outcomes = Cardinality({i \in DOMAIN p.actions : ~ HandlerRaises(p.actions[i])})

\* Every match handed over is acted on and logged, unless the task is
\* cancelled.
EveryMatchAudited ==
  run.phase = "running" ~> \/ run.phase = "done" /\ Len(audit) = Len(run.pairs)
                           \/ run.phase = "cancelled"
=============================================================================
