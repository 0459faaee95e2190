---------------------------- MODULE ProjectState ----------------------------
(***************************************************************************)
(* From the extractors to the bootstrap: the product head is extracted     *)
(* (product_head.py), the reducer joins it with the checkpoints and the    *)
(* task lists into the project state (state_reducer.py), the state is      *)
(* committed, and the bootstrap is generated from it (generated_bootstrap) *)
(* while Issues are edited and branches move.                              *)
(*                                                                         *)
(* All three programs are functions of what their caller read; the caller  *)
(* reads one source after the other.  For the bootstrap it reads the       *)
(* candidates first and afterwards, independently, what it expects them to *)
(* be.                                                                     *)
(***************************************************************************)
EXTENDS Sources

CONSTANT MilestoneOf   (* the milestone of each task                       *)

ASSUME MilestoneAssumption == DOMAIN MilestoneOf = Tasks

VARIABLES
  p,     (* the caller's data                                              *)
  mark   (* history: the sources between the last candidate that was read  *)
         (* and the first expectation                                      *)

stateVars == <<p, mark>>

-----------------------------------------------------------------------------
Buckets == ActiveLabels
GateNames == {"core", "full"}

(* A checkpoint as the reducer gets it; `gate` is the gate its provenance  *)
(* names, `run` the commit that was checked.                               *)
NotKnown == [status |-> "unknown", gate |-> "none", run |-> 0]
Green(gate, run) == [status |-> "known", gate |-> gate, run |-> run]

(* What the checkpoint extractor may have returned, the gates independent  *)
(* of each other.                                                          *)
Extractions ==
  {f \in [GateNames -> {NotKnown} \cup {Green(g, 1) : g \in GateNames}] :
     \A g \in GateNames : f[g].status = "known" => f[g].gate = g}

(* What a caller may hand on: the extraction, or one with the gates mixed  *)
(* up.                                                                     *)
Envelopes(extraction) ==
  {extraction, [g \in GateNames |-> extraction[CHOOSE h \in GateNames : h # g]],
   [g \in GateNames |-> extraction["core"]]}

InitState ==
  /\ p = [at |-> "idle", extraction |-> [g \in GateNames |-> NotKnown],
          head |-> "pending", lists |-> <<>>, state |-> {},
          commit |-> 0, infra |-> 0, found |-> [t \in Tasks |-> {}],
          expected |-> [t \in Tasks |-> {}], result |-> {}]
  /\ mark = {}

Go(q) == p' = q /\ UNCHANGED <<mark, sourceVars>>

(* extract_product_head, first read: a repository that is missing, that    *)
(* fails or is not the exact one is an error.                              *)
ReadRepository ==
  /\ p.at = "idle"
  /\ Go([p EXCEPT !.at = "ref"]) \/ Go([p EXCEPT !.head = "error", !.at = "lists"])

(* Second read: a missing ref is unknown, never guessed.                   *)
ReadRef ==
  /\ p.at = "ref"
  /\ \E h \in {"known", "unknown", "error"} : Go([p EXCEPT !.head = h, !.at = "lists"])

(* The caller lists the Issues of one label after the other: an Issue that *)
(* is relabelled meanwhile may be in two lists, or in none.                *)
Labels == <<"ready", "claimed", "blocked">>
ListBucket ==
  /\ p.at = "lists" /\ Len(p.lists) < 3
  /\ Go([p EXCEPT !.lists = Append(@,
           {t \in Tasks : issue[t].open /\ Labels[Len(p.lists) + 1] \in issue[t].labels})])

(* Mutant of Bound: any provenance of a run will do.                       *)
BoundToAnyGate(checkpoint, gate) ==
  checkpoint.status = "known" => checkpoint.gate \in GateNames

(* _require_checkpoint_binding: the provenance names the gate and commit.  *)
Bound(checkpoint, gate) ==
  checkpoint.status = "known" => checkpoint.gate = gate

(* reduce_project_state: lists need not be disjoint.                       *)
Reduce ==
  /\ p.at = "lists" /\ Len(p.lists) = 3
  /\ \E e \in Extractions : \E env \in Envelopes(e) :
       Go(IF \A g \in GateNames : Bound(env[g], g)
          THEN [p EXCEPT !.at = "commit", !.extraction = e,
                         !.state = {[tasks |-> [b \in Buckets |->
                                       p.lists[CHOOSE i \in 1..3 : Labels[i] = b]],
                                     head |-> p.head, checkpoints |-> env]}]
          ELSE [p EXCEPT !.at = "refused"])

State == CHOOSE s \in p.state : TRUE
Active == UNION {State.tasks[b] : b \in Buckets}

(* The state is committed to the context repository.                       *)
CommitState ==
  /\ p.at = "commit"
  /\ heads' = [heads EXCEPT !["context"] = @ + 1]
  /\ p' = [p EXCEPT !.at = "infra", !.commit = heads["context"] + 1]
  /\ UNCHANGED <<issue, edits, mark>>

ReadInfra ==
  /\ p.at = "infra"
  /\ Go([p EXCEPT !.at = "issues", !.infra = heads["control"]])

ReadIssue(t) ==
  /\ p.at = "issues" /\ t \in Active /\ p.found[t] = {}
  /\ Go([p EXCEPT !.found[t] = {issue[t]}])

CandidatesRead ==
  /\ p.at = "issues"
  /\ \A t \in Active : p.found[t] # {}
  /\ p' = [p EXCEPT !.at = "expect"]
  /\ mark' = {[issue |-> issue, heads |-> heads]}
  /\ UNCHANGED sourceVars

ExpectRevision(t) ==
  /\ p.at = "expect" /\ t \in Active /\ p.expected[t] = {}
  /\ Go([p EXCEPT !.expected[t] = {issue[t].revision}])

(* Mutant of Projects: what the Issue said when it was read is enough.     *)
ProjectsUnrevised(t, found, expected) ==
  LET state == Interpret(found)
  IN  state \in Buckets /\ t \in State.tasks[state]

(* _issue_projection and the checks of _validate_task_issues for one Issue.*)
Projects(t, found, expected) ==
  LET state == Interpret(found)
  IN  /\ state \in Buckets
      /\ t \in State.tasks[state]
      /\ found.revision = expected

Milestones(found) == {MilestoneOf[t] : t \in DOMAIN found}

(* The heads the caller expects are observed last.                         *)
SourcesCurrent == p.infra = heads["control"] /\ p.commit = heads["context"]

(* generate_bootstrap.                                                     *)
Generate ==
  /\ p.at = "expect"
  /\ \A t \in Active : p.expected[t] # {}
  /\ LET found(t) == CHOOSE f \in p.found[t] : TRUE
         expected(t) == CHOOSE r \in p.expected[t] : TRUE
         sources == [t \in Active |-> found(t)]
     IN  Go(IF /\ SourcesCurrent
               /\ \A t \in Active : Projects(t, found(t), expected(t))
            THEN [p EXCEPT !.at = "generated",
                           !.result = {[sources |-> sources,
                                        ready |-> {t \in Active : Interpret(found(t)) = "ready"},
                                        milestone |-> CASE Active = {} -> "unknown"
                                          [] Cardinality(Milestones(sources)) = 1 -> "known"
                                          [] OTHER -> "error",
                                        checkpoints |-> State.checkpoints]}]
            ELSE [p EXCEPT !.at = "refused"])

Reading == p.at \in {"lists", "infra", "issues", "expect"}

StateNext ==
  \/ ReadRepository \/ ReadRef \/ ListBucket \/ Reduce \/ CommitState
  \/ ReadInfra \/ CandidatesRead \/ Generate
  \/ \E t \in Tasks : ReadIssue(t) \/ ExpectRevision(t)

OthersDuringState == Reading /\ Others /\ UNCHANGED stateVars

StateSpec ==
  /\ InitState /\ InitSources
  /\ [][StateNext \/ OthersDuringState]_<<stateVars, sourceVars>>

-----------------------------------------------------------------------------
StateOK ==
  /\ p.at \in {"idle", "ref", "lists", "commit", "infra", "issues", "expect",
              "generated", "refused"}
  /\ p.head \in {"pending", "known", "unknown", "error"}
  /\ p.at \notin {"idle", "ref", "lists", "refused"} =>
       \A s \in p.state : s.head = p.head /\ s.tasks \in [Buckets -> SUBSET Tasks]
  /\ \A t \in Tasks : Cardinality(p.found[t]) <= 1 /\ Cardinality(p.expected[t]) <= 1
  /\ (p.at = "generated") = (p.result # {})
  /\ p.at = "generated" => mark # {}

(* A generated bootstrap is a picture of one moment: when the last         *)
(* candidate had been read, every Issue it lists was as listed, the        *)
(* control head and the state's commit were current.                       *)
BootstrapIsASnapshot ==
  \A b \in p.result : \A m \in mark :
    /\ \A t \in DOMAIN b.sources : m.issue[t] = b.sources[t]
    /\ b.ready = {t \in DOMAIN b.sources : Interpret(m.issue[t]) = "ready"}
    /\ m.heads["control"] = p.infra /\ m.heads["context"] = p.commit

(* What the bootstrap calls a green checkpoint of a gate is what the       *)
(* extractor found for that gate, through reducer and commit, even if a    *)
(* caller mixes up the gates.                                              *)
CheckpointsKeepTheirGate ==
  \A b \in p.result : \A g \in GateNames :
    b.checkpoints[g].status = "known" => b.checkpoints[g] = p.extraction[g]
=============================================================================
