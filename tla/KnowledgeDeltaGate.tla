-------------------------- MODULE KnowledgeDeltaGate --------------------------
(***************************************************************************)
(* The Knowledge Delta gate (knowledge_delta_gate.py) and the checks of    *)
(* BUILD_STATUS it relies on (validate_bootstrap.py), as the required check*)
(* of every pull request into protected main and again of every commit on  *)
(* main.  The gate is a function of one snapshot of the repository: the    *)
(* task lists of BUILD_STATUS and the files under knowledge-deltas/.  A    *)
(* pull request is checked at one moment and merged at another, others are *)
(* merged in between, and nothing asks for a check with main as it is when *)
(* the branch is merged: main may break.  The Issue of the task is         *)
(* completed only after the check of the very commit on main.              *)
(***************************************************************************)
EXTENDS Integers, FiniteSets

CONSTANTS
  Keys,          (* task keys IXX-NNNN: records [milestone, issue]         *)
  LastMilestone, (* bound on the milestones                                *)
  Landings       (* bound on the commits that land on main                 *)

(* Issues are numbered from 1.                                             *)
ASSUME KeysAssumption ==
  \A k \in Keys : k.milestone \in Nat /\ k.issue \in Nat \ {0}

VARIABLES
  tree,          (* protected main: milestone, completed, active, deltas   *)
  pull,          (* a pull request, a set of at most one                   *)
  landed         (* the commits that have landed on main                   *)

gateVars == <<tree, pull, landed>>

REQUIRED_FROM_MILESTONE == 6

(* A file knowledge-deltas/<key>.json is the Issue its content is bound to, *)
(* Incomplete if it lacks a decision, a fact, a component or a test.        *)
NoDelta == -1
Incomplete == 0
Deltas == {k.issue : k \in Keys} \cup {Incomplete, NoDelta}

(* _status_task_ids                                                        *)
Required(t) ==
  {k \in t.completed \cup t.active : k.milestone >= REQUIRED_FROM_MILESTONE}

Files(t) == {k \in Keys : t.delta[k] # NoDelta}

(* _validate_build_status, as far as it is about tasks.                    *)
BuildStatusOK(t) ==
  /\ t.completed \cap t.active = {}
  /\ \A k \in t.active : k.milestone = t.milestone

(* validate_repository_knowledge_deltas                                    *)
DeltasOK(t) ==
  /\ \A k \in Files(t) : t.delta[k] # Incomplete /\ t.delta[k] = k.issue
  /\ \A j, k \in Files(t) : t.delta[j] = t.delta[k] => j = k
  /\ Required(t) \subseteq Files(t)

Passes(t) == BuildStatusOK(t) /\ DeltasOK(t)

-----------------------------------------------------------------------------
InitTree ==
  /\ tree = [milestone |-> 5, completed |-> {}, active |-> {},
             delta |-> [k \in Keys |-> NoDelta]]
  /\ pull = {}
  /\ landed = 0

(* What a task branch may change: a task enters or leaves a list or moves  *)
(* on, a milestone begins; a file is added, rewritten or removed.          *)
StatusChanges(t) ==
  {t} \cup {[t EXCEPT !.active = @ \cup {k}] : k \in Keys}
      \cup {[t EXCEPT !.active = @ \ {k}, !.completed = @ \cup {k}] : k \in Keys}
      \cup {[t EXCEPT !.active = @ \ {k}, !.completed = @ \ {k}] : k \in Keys}
      \cup {[t EXCEPT !.milestone = @ + 1]}

FileChanges(t) ==
  {t} \cup {[t EXCEPT !.delta[k] = d] : k \in Keys, d \in Deltas}

Changes(t) == {c \in UNION {FileChanges(s) : s \in StatusChanges(t)} :
                 c # t /\ c.milestone <= LastMilestone}

(* Git's merge of a branch into theirs, once its conflicts are settled.    *)
Ours(base, head, theirs) == IF head = base THEN theirs ELSE head
OursOf(base, head, theirs) == (theirs \ (base \ head)) \cup (head \ base)
MergeOnto(base, head, theirs) ==
  [milestone |-> Ours(base.milestone, head.milestone, theirs.milestone),
   completed |-> OursOf(base.completed, head.completed, theirs.completed),
   active |-> OursOf(base.active, head.active, theirs.active),
   delta |-> [k \in Keys |-> Ours(base.delta[k], head.delta[k], theirs.delta[k])]]

(* A pull request is what main was when its branch last took main in and   *)
(* the branch; the main its passed check was run with; the commit it became*)
(* on main, if any, whether the check has passed for that commit, and      *)
(* whether the Issue of its task is completed.                             *)
Pull(base, head) ==
  [base |-> base, head |-> head, seen |-> {}, commit |-> {},
   post |-> FALSE, completed |-> FALSE]

Merged(p) == MergeOnto(p.base, p.head, tree)

Open ==
  /\ pull = {}
  /\ \E head \in Changes(tree) : pull' = {Pull(tree, head)}
  /\ UNCHANGED <<tree, landed>>

(* Mutant of CheckPull: the check is run on the branch by itself.          *)
CheckPullAlone ==
  /\ \E p \in pull :
       /\ p.commit = {}
       /\ pull' = {[p EXCEPT !.seen = IF Passes(p.head) THEN {tree} ELSE {}]}
  /\ UNCHANGED <<tree, landed>>

(* The check runs on the merge of the branch with main as it is, and its   *)
(* result stays with the branch when main moves on.                        *)
CheckPull ==
  /\ \E p \in pull :
       /\ p.commit = {}
       /\ pull' = {[p EXCEPT !.seen = IF Passes(Merged(p)) THEN {tree} ELSE {}]}
  /\ UNCHANGED <<tree, landed>>

(* A dispatched check is of the branch, which is its merge with the main it*)
(* has taken in last; it has the same name and the same standing.          *)
CheckHead ==
  /\ \E p \in pull :
       /\ p.commit = {}
       /\ pull' = {[p EXCEPT !.seen = IF Passes(p.head) THEN {p.base} ELSE {}]}
  /\ UNCHANGED <<tree, landed>>

(* The branch takes main in; the new head has no result yet.               *)
UpdatePull ==
  /\ \E p \in pull : p.commit = {} /\ pull' = {Pull(tree, Merged(p))}
  /\ UNCHANGED <<tree, landed>>

(* A green pull request may be merged, however old its check is.           *)
MergePull ==
  /\ landed < Landings
  /\ \E p \in pull :
       /\ p.commit = {} /\ p.seen # {}
       /\ tree' = Merged(p)
       /\ pull' = {[p EXCEPT !.commit = {Merged(p)}]}
  /\ landed' = landed + 1

(* So are others meanwhile, checked with main as it is or was.             *)
MergeOther ==
  /\ landed < Landings
  /\ \E base \in {tree} \cup {p.base : p \in pull} :
       \E head \in Changes(base) :
         /\ Passes(head)
         /\ tree' = MergeOnto(base, head, tree)
  /\ landed' = landed + 1
  /\ UNCHANGED pull

(* The push to main is checked at its very commit, also when main has moved*)
(* on since.                                                               *)
CheckMain ==
  /\ \E p \in pull : \E c \in p.commit : pull' = {[p EXCEPT !.post = Passes(c)]}
  /\ UNCHANGED <<tree, landed>>

(* Mutant of Complete: the checks of the candidate are enough.             *)
CompleteOnCandidate ==
  /\ \E p \in pull :
       /\ p.commit # {} /\ p.seen # {}
       /\ pull' = {[p EXCEPT !.completed = TRUE]}
  /\ UNCHANGED <<tree, landed>>

(* validate_transition, claimed -> completed: merged, green before and     *)
(* after.                                                                  *)
Complete ==
  /\ \E p \in pull :
       /\ p.commit # {} /\ p.seen # {} /\ p.post
       /\ pull' = {[p EXCEPT !.completed = TRUE]}
  /\ UNCHANGED <<tree, landed>>

(* The pull request is over, or given up; the next may be opened.          *)
Close ==
  /\ pull # {}
  /\ pull' = {}
  /\ UNCHANGED <<tree, landed>>

GateNext == \/ Open \/ CheckPull \/ CheckHead \/ UpdatePull \/ MergePull
            \/ MergeOther \/ CheckMain \/ Complete \/ Close

GateSpec == InitTree /\ [][GateNext]_gateVars

-----------------------------------------------------------------------------
(* An active or completed task of I06 or later has exactly one delta that  *)
(* speaks of its Issue, filed under its own key, and no task is both.      *)
RecordedOnce(t) ==
  \A k \in Keys :
    /\ k \in Required(t) => {j \in Keys : t.delta[j] = k.issue} = {k}
    /\ ~(k \in t.completed /\ k \in t.active)

(* Two branches that pass may fail together on main.  However pull requests*)
(* are checked and merged, no Issue is completed on such a commit: what its*)
(* own pull request made of main has its tasks recorded once.              *)
CompletedIsRecorded ==
  \A p \in pull : p.completed => \A c \in p.commit : RecordedOnce(c)

(* Only an old check lets main break: a pull request that is merged into   *)
(* the main it was last checked with, by a check of the merge or by one of *)
(* a branch that contains that main, leaves a main with its tasks recorded *)
(* once, though main itself may have been broken before.                   *)
FreshMergesAreSafe ==
  [][\A p \in pull :
       (/\ p.commit = {} /\ tree \in p.seen
        /\ \E q \in pull' : q.commit # {}) => RecordedOnce(tree')]_gateVars
=============================================================================
