------------------------------ MODULE TaskIssue ------------------------------
(***************************************************************************)
(* The execution state of a task Issue (task_issue_state.py): how a        *)
(* snapshot of the Issue is read, when its dependencies are satisfied, and *)
(* which transitions the evidence allows.  Pure functions of their         *)
(* arguments; "invalid" and "error" stand for TaskIssueStateError.         *)
(***************************************************************************)
EXTENDS Naturals, Sequences, FiniteSets

ActiveLabels == {"ready", "claimed", "blocked"}
ExecutionStates == ActiveLabels \cup {"completed"}

(* Labels other than the lifecycle labels and the milestone are ignored by *)
(* the code and left out.                                                  *)
Issue == [open: BOOLEAN, labels: SUBSET ActiveLabels,
          reason: {"none", "reopened", "completed", "not_planned"}]

Interpret(issue) ==
  CASE /\ issue.open
       /\ Cardinality(issue.labels) = 1
       /\ issue.reason \in {"none", "reopened"}
         -> CHOOSE label \in issue.labels : TRUE
    [] /\ ~issue.open
       /\ issue.labels = {}
       /\ issue.reason = "completed"
         -> "completed"
    [] OTHER -> "invalid"

(* `required` is a sequence of tasks, `states` maps the tasks whose state  *)
(* was observed to it.  The first one that is not completed decides.       *)
DependenciesSatisfied(required, states) ==
  LET known(d) == d \in DOMAIN states /\ states[d] \in ExecutionStates
      done(d)  == known(d) /\ states[d] = "completed"
      open     == {i \in DOMAIN required : ~done(required[i])}
      first    == CHOOSE i \in open : \A j \in open : i <= j
  IN  CASE \E i, j \in DOMAIN required : i # j /\ required[i] = required[j]
             -> "error"
        [] open = {} -> "met"
        [] known(required[first]) -> "unmet"
        [] OTHER -> "error"

(* Mutant of AllowedTransitions: a completed task may be opened again.     *)
ReopeningTransitions ==
  {<<"ready", "claimed">>, <<"ready", "blocked">>, <<"blocked", "ready">>,
   <<"claimed", "completed">>, <<"completed", "ready">>}

AllowedTransitions ==
  {<<"ready", "claimed">>, <<"ready", "blocked">>, <<"blocked", "ready">>,
   <<"claimed", "completed">>}

(* What a caller knows; `finished` says that all three completion          *)
(* prerequisites are recorded and true.                                    *)
Evidence == [deps: {"met", "unmet", "error"}, blocker: BOOLEAN,
             cleared: BOOLEAN, finished: BOOLEAN,
             recovery: BOOLEAN, record: BOOLEAN]

NoEvidence == [deps |-> "met", blocker |-> FALSE, cleared |-> TRUE,
               finished |-> FALSE, recovery |-> FALSE, record |-> FALSE]

ValidTransition(before, after, evidence) ==
  IF before = "claimed" /\ after = "claimed"
  THEN evidence.recovery /\ evidence.record
  ELSE /\ ~evidence.recovery
       /\ <<before, after>> \in AllowedTransitions
       /\ evidence.deps # "error"
       /\ after = "blocked"   => evidence.deps = "unmet" \/ evidence.blocker
       /\ after # "blocked"   => evidence.deps = "met"
       /\ after = "ready"     => evidence.cleared
       /\ after = "completed" => evidence.finished
=============================================================================
