------------------------------- MODULE Sources -------------------------------
(***************************************************************************)
(* What the programs that compile state and context read, while others     *)
(* change it: the Issues of the tasks and the heads of the protected       *)
(* branches.  A head only moves forward, and every edit of an Issue gives  *)
(* it an updated_at of its own.                                            *)
(***************************************************************************)
EXTENDS TaskIssue

CONSTANTS
  Tasks,   (* task Issues                                                  *)
  Edits    (* bound on the edits of Issues and the moves of heads          *)

ASSUME EditsAssumption == Edits \in Nat

VARIABLES issue, heads, edits

sourceVars == <<issue, heads, edits>>

Repositories == {"control", "context", "product"}

-----------------------------------------------------------------------------
(* An Issue with the moment of its last edit.                              *)
Revised(form, revision) == [open |-> form.open, labels |-> form.labels,
                            reason |-> form.reason, revision |-> revision]

(* One lifecycle label, two of them during a relabelling, completed, and   *)
(* ready again after it was closed.                                        *)
Forms ==
  {[open |-> TRUE, labels |-> {l}, reason |-> "none"] : l \in ActiveLabels} \cup
  {[open |-> TRUE, labels |-> {"ready", "claimed"}, reason |-> "none"],
   [open |-> TRUE, labels |-> {"ready"}, reason |-> "reopened"],
   [open |-> FALSE, labels |-> {}, reason |-> "completed"]}

InitSources ==
  /\ issue \in [Tasks -> {Revised(f, 0) : f \in Forms}]
  /\ heads = [r \in Repositories |-> 0]
  /\ edits = 0

Edit(t) ==
  /\ edits < Edits
  /\ \E f \in Forms :
       /\ issue' = [issue EXCEPT ![t] = Revised(f, @.revision + 1)]
       /\ Revised(f, issue[t].revision) # issue[t]
  /\ edits' = edits + 1
  /\ UNCHANGED heads

Advance(r) ==
  /\ edits < Edits
  /\ heads' = [heads EXCEPT ![r] = @ + 1]
  /\ edits' = edits + 1
  /\ UNCHANGED issue

Others == (\E t \in Tasks : Edit(t)) \/ (\E r \in Repositories : Advance(r))

SourcesOK ==
  /\ \A t \in Tasks : /\ Revised(issue[t], 0) \in {Revised(f, 0) : f \in Forms}
                      /\ issue[t].revision \in 0..Edits
  /\ heads \in [Repositories -> 0..(Edits + 1)]
=============================================================================
