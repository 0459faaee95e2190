------------------------- MODULE CheckpointExtractor -------------------------
(***************************************************************************)
(* extract_core_full_checkpoints (checkpoint_extractor.py) while the       *)
(* product's CI goes on.                                                   *)
(*                                                                         *)
(* The extractor lists the workflow runs once, then goes from the newest   *)
(* to the oldest: it lists the check runs of the run's suite, then the     *)
(* statuses of the run's commit, and decides each gate on its own by what  *)
(* it has read.  Both kinds of listings are cached.  Between two listings  *)
(* jobs end, statuses are posted and runs are started or run again; a run  *)
(* keeps its id when it runs again.                                        *)
(***************************************************************************)
EXTENDS Naturals, Sequences, FiniteSets, SequencesExt

CONSTANTS
  Runs,    (* workflow runs 1, 2, ... in the order in which they are created *)
  ShaOf,   (* head commit of each run; runs may share it                   *)
  Gates,   (* HWM / Core and HWM / Full                                    *)
  Steps    (* bound on the steps of CI before the extraction ends          *)

ASSUME RunsAssumption == Runs \subseteq Nat \ {0} /\ IsFiniteSet(Runs)
ASSUME ShaAssumption == DOMAIN ShaOf = Runs
ASSUME StepsAssumption == Steps \in Nat

VARIABLES
  ci,       (* the product's CI                                            *)
  x,        (* the extraction                                              *)
  settled,  (* history: what was settled about a gate of a run when the    *)
            (* runs were listed, and has not been run again since          *)
  unseen,   (* history: runs whose checks or statuses were answered by 404 *)
  steps     (* steps CI has made                                           *)

extractionVars == <<ci, x, settled, unseen, steps>>

-----------------------------------------------------------------------------
(* The product's CI.  checks[g] has one aggregate check per attempt, "none" *)
(* when the attempt had no such job; posted[g] are the commit statuses of  *)
(* the gate whose target is this run, "other" for all but success.         *)
Conclusions == {"success", "failure", "none"}
Run == [state: {"absent", "active", "completed"},
        checks: [Gates -> Seq(Conclusions \cup {"running"})],
        posted: [Gates -> SUBSET {"success", "other"}]]

NewRun == [state |-> "absent", checks |-> [g \in Gates |-> <<>>],
           posted |-> [g \in Gates |-> {}]]

(* Runs that have ended once, with all their statuses or without some; a   *)
(* status is pending before it is success.                                 *)
EndedRuns ==
  {r \in [state: {"completed"}, checks: [Gates -> {<<c>> : c \in Conclusions}],
          posted: [Gates -> {{}, {"other"}, {"success", "other"}}]] :
     \A g \in Gates :
       /\ "success" \in r.posted[g] => r.checks[g] = <<"success">>
       /\ "other" \in r.posted[g] => r.checks[g] # <<"none">>}

Latest(r, g) == Last(ci[r].checks[g])
Attempt(r, jobs) ==
  [ci[r] EXCEPT !.state = "active",
                !.checks = [g \in Gates |-> IF g \in jobs THEN Append(@[g], "running")
                                            ELSE @[g]]]
Begun == {r \in Runs : ci[r].state # "absent"}

(* What CI does after the extraction is of no interest and left out.       *)
StepOfCI ==
  /\ x.at # "done"
  /\ steps < Steps
  /\ steps' = steps + 1
  /\ UNCHANGED <<x, unseen>>

Begin(r) ==
  /\ StepOfCI
  /\ ci[r].state = "absent"
  /\ \A q \in Runs : q < r => q \in Begun
  /\ ci' = [ci EXCEPT ![r] = Attempt(r, Gates)]
  /\ UNCHANGED settled

JobEnds(r, g, conclusion) ==
  /\ StepOfCI
  /\ ci[r].state = "active"
  /\ Latest(r, g) = "running"
  /\ ci' = [ci EXCEPT ![r].checks[g][Len(ci[r].checks[g])] = conclusion,
                      ![r].state =
                        IF \A h \in Gates \ {g} : Latest(r, h) # "running"
                        THEN "completed" ELSE "active"]
  /\ UNCHANGED settled

(* pending while the job runs, then what it concluded.                     *)
PostStatus(r, g) ==
  /\ StepOfCI
  /\ r \in Begun
  /\ Latest(r, g) # "none"
  /\ ci' = [ci EXCEPT ![r].posted[g] =
              @ \cup {IF Latest(r, g) = "success" THEN "success" ELSE "other"}]
  /\ ci' # ci
  /\ UNCHANGED settled

(* GitHub runs all jobs of a run again, or some of them.                   *)
Rerun(r, jobs) ==
  /\ StepOfCI
  /\ ci[r].state = "completed"
  /\ ci' = [ci EXCEPT ![r] = Attempt(r, jobs)]
  /\ settled' = [settled EXCEPT ![r] = [g \in Gates |-> IF g \in jobs THEN "open"
                                                         ELSE @[g]]]

-----------------------------------------------------------------------------
(* The extraction: a cache entry is {} until it is read, then {listing}.   *)
Undecided == [status |-> "pending", run |-> 0]
Unknown   == [status |-> "unknown", run |-> 0]
Failed    == [status |-> "error", run |-> 0]
Known(r)  == [status |-> "known", run |-> r]

Decided(o) == o # Undecided
Shas == {ShaOf[r] : r \in Runs}

InitExtraction ==
  /\ x = [at |-> "idle", order |-> <<>>, next |-> 1,
          checks |-> [r \in Runs |-> {}], statuses |-> [s \in Shas |-> {}],
          outcome |-> [g \in Gates |-> Undecided]]
  /\ settled = [r \in Runs |-> [g \in Gates |-> "open"]]
  /\ unseen = {}
  /\ steps = 0

Init ==
  /\ ci \in [Runs -> EndedRuns \cup {NewRun}]
  /\ \A r \in Runs : ci[r] # NewRun => \A q \in Runs : q < r => ci[q] # NewRun
  /\ InitExtraction

InitIdle == ci = [r \in Runs |-> NewRun] /\ InitExtraction

(* Mutant of CheckEvidence: a success among the checks decides, as it does *)
(* among the statuses.                                                     *)
CheckEvidenceLenient(listing) ==
  LET found == {i \in DOMAIN listing : listing[i] # "none"}
  IN  CASE found = {} -> "missing"
        [] \E i \in found : listing[i] = "success" -> "success"
        [] OTHER -> "failed"

(* _check_evidence on the conclusions of the gate's checks in one suite.   *)
CheckEvidence(listing) ==
  LET found == {i \in DOMAIN listing : listing[i] # "none"}
      Only(conclusion) == \A i \in found : listing[i] = conclusion
  IN  CASE found = {} -> "missing"
        [] found # {} /\ Only("failure") -> "failed"
        [] Only("success") /\ \E i \in found : found = {i} -> "success"
        [] OTHER -> "error"   (* one is running (malformed), or ambiguous  *)

(* Mutant of StatusEvidence: every status of the commit counts.            *)
StatusOfCommit(listing, r, g) ==
  IF \E q \in Runs : <<q, g, "success">> \in listing THEN "success"
  ELSE IF \E q \in Runs : <<q, g, "other">> \in listing THEN "failed"
  ELSE "missing"

(* _status_evidence on the statuses of a commit.                           *)
StatusEvidence(listing, r, g) ==
  IF <<r, g, "success">> \in listing THEN "success"
  ELSE IF <<r, g, "other">> \in listing THEN "failed"
  ELSE "missing"

(* What a run says of a gate, by the listings in the caches.               *)
Verdict(r, g, checks, statuses) ==
  LET c == CheckEvidence(checks[g])
      s == StatusEvidence(statuses, r, g)
  IN  CASE c = "error" -> "error"
        [] c = "success" /\ s = "success" -> "known"
        [] {c, s} = {"success", "failed"} -> "error" (* inconsistent *)
        [] OTHER -> "older"

(* Mutant of Finished: it ends with the first gate that is decided.        *)
FinishedEarly(y) ==
  \/ y.next > Len(y.order)
  \/ \E g \in Gates : Decided(y.outcome[g])

(* The loop goes on with the next run until it has decided every gate.     *)
Finished(y) ==
  \/ y.next > Len(y.order)
  \/ \A g \in Gates : Decided(y.outcome[g])

(* Mutant of Continue: what is undecided in the end stays so.              *)
ContinueUndecided(y) ==
  IF Finished(y) THEN [y EXCEPT !.at = "done"] ELSE [y EXCEPT !.at = "checks"]

(* What is undecided in the end is unknown; nothing is kept of a finished  *)
(* loop but its caches.                                                    *)
Continue(y) ==
  IF Finished(y)
  THEN [y EXCEPT !.at = "done",
                 !.outcome = [g \in Gates |-> IF Decided(@[g]) THEN @[g] ELSE Unknown]]
  ELSE [y EXCEPT !.at = "checks"]

Settle(r, g) ==
  IF ci[r].state # "completed" THEN "open"
  ELSE CASE Latest(r, g) = "success" /\ "success" \in ci[r].posted[g] -> "green"
         [] Latest(r, g) = "failure" -> "red"
         [] OTHER -> "open"

(* Mutant of NewestFirst: the order in which the runs were created.        *)
OldestFirst(listing) ==
  [i \in 1..Cardinality(listing) |->
     CHOOSE r \in listing : Cardinality({q \in listing : q < r}) = i - 1]

(* The i-th run is the one with i - 1 newer ones.                          *)
NewestFirst(listing) ==
  [i \in 1..Cardinality(listing) |->
     CHOOSE r \in listing : Cardinality({q \in listing : q > r}) = i - 1]

(* _runs: a listing with a run that is not completed is malformed as a     *)
(* whole.  The provider may list all runs or only completed ones.          *)
ListRuns ==
  /\ x.at = "idle"
  /\ \E listing \in {Begun, {r \in Begun : ci[r].state = "completed"}} :
       x' = IF \E r \in listing : ci[r].state = "active"
            THEN [x EXCEPT !.at = "done", !.outcome = [g \in Gates |-> Failed]]
            ELSE Continue([x EXCEPT !.order = NewestFirst(listing)])
  /\ settled' = [r \in Runs |-> [g \in Gates |-> Settle(r, g)]]
  /\ UNCHANGED <<ci, unseen, steps>>

ListRunsMissing ==
  /\ x.at = "idle"
  /\ x' = [x EXCEPT !.at = "done", !.outcome = [g \in Gates |-> Unknown]]
  /\ UNCHANGED <<ci, settled, unseen, steps>>

(* The provider lists the latest check of a name or all of them; a suite   *)
(* that is not found has none (bound: one listing is not found).  Each run *)
(* has a suite of its own, so that the cache of these listings is not hit. *)
ReadChecks ==
  LET r == x.order[x.next]
      all == [g \in Gates |-> ci[r].checks[g]]
      latest == [g \in Gates |-> <<Latest(r, g)>>]
      none == [g \in Gates |-> <<>>]
  IN  /\ x.at = "checks"
      /\ \E listing \in {all, latest} \cup (IF unseen = {} THEN {none} ELSE {}) :
           /\ x' = [x EXCEPT !.at = "statuses", !.checks[r] = {listing}]
           /\ unseen' = unseen \cup {q \in {r} : listing = none}
      /\ UNCHANGED <<ci, settled, steps>>

StatusesOf(sha) ==
  {e \in Runs \X Gates \X {"success", "other"} :
     ShaOf[e[1]] = sha /\ e[3] \in ci[e[1]].posted[e[2]]}

(* The listing of the commit's statuses, unless it was read for a newer    *)
(* run, and the decision about each gate that is still open.               *)
ReadStatuses ==
  LET r == x.order[x.next]
      sha == ShaOf[r]
      known == x.statuses[sha]
  IN  /\ x.at = "statuses"
      /\ \E listing \in IF known # {} THEN known
                        ELSE {StatusesOf(sha)} \cup (IF unseen = {} THEN {{}} ELSE {}) :
           LET checks == CHOOSE c \in x.checks[r] : TRUE
               decide(g) == CASE Verdict(r, g, checks, listing) = "known" -> Known(r)
                              [] Verdict(r, g, checks, listing) = "error" -> Failed
                              [] OTHER -> Undecided
           IN  /\ x' = Continue([x EXCEPT
                        !.statuses[sha] = {listing},
                        !.next = @ + 1,
                        !.outcome = [g \in Gates |-> IF Decided(@[g]) THEN @[g]
                                                     ELSE decide(g)]])
               /\ unseen' = unseen \cup {q \in Runs : /\ ShaOf[q] = sha
                                                      /\ listing # StatusesOf(sha)
                                                      /\ known = {}}
      /\ UNCHANGED <<ci, settled, steps>>

(* A ProviderError: what has been found stays, the rest is an error.       *)
ProviderFails ==
  /\ x.at \in {"idle", "checks", "statuses"}
  /\ x.at = "statuses" => x.statuses[ShaOf[x.order[x.next]]] = {}
  /\ x' = [x EXCEPT !.at = "done",
                    !.outcome = [g \in Gates |-> IF Decided(@[g]) THEN @[g] ELSE Failed]]
  /\ UNCHANGED <<ci, settled, unseen, steps>>

ProductCI ==
  \E r \in Runs :
       \/ Begin(r)
       \/ \E jobs \in SUBSET Gates \ {{}} : Rerun(r, jobs)
       \/ \E g \in Gates : PostStatus(r, g) \/ \E c \in Conclusions : JobEnds(r, g, c)

Extract ==
  \/ ListRuns
  \/ ListRunsMissing
  \/ ReadChecks
  \/ ReadStatuses
  \/ ProviderFails

Next == ProductCI \/ Extract

Spec == Init /\ [][Next]_extractionVars

-----------------------------------------------------------------------------
Outcome == [status: {"pending", "unknown", "error"}, run: {0}]
             \cup [status: {"known"}, run: Runs]

(* The extraction reads one listing after the other and keeps what it      *)
(* found.                                                                  *)
ExtractionOK ==
  /\ ci \in [Runs -> Run]
  /\ x.at \in {"idle", "checks", "statuses", "done"}
  /\ x.next \in 1..(Len(x.order) + 1)
  /\ x.at \in {"checks", "statuses"} => x.next <= Len(x.order)
  /\ x.outcome \in [Gates -> Outcome]
  /\ x.at = "done" => \A g \in Gates : Decided(x.outcome[g])

(* A checkpoint that is called known was green: the gate's check succeeded *)
(* in that run and a success status of that run was posted, whatever other *)
(* runs of the same commit say.                                            *)
KnownWasGreen ==
  \A g \in Gates : x.outcome[g].status = "known" =>
    LET r == x.outcome[g].run
    IN  "success" \in ToSet(ci[r].checks[g]) /\ "success" \in ci[r].posted[g]

(* If the last attempt of a run had failed a gate when the runs were       *)
(* listed, the success of an earlier attempt does not make it a checkpoint.*)
RedIsNotKnown ==
  \A g \in Gates : x.outcome[g].status = "known" =>
    settled[x.outcome[g].run][g] # "red"

(* A run that was green when the runs were listed is not passed over for   *)
(* an older one, nor for unknown, unless GitHub answered 404 for it.       *)
NewestGreenIsFound ==
  \A r \in Runs \ unseen, g \in Gates :
    x.at = "done" /\ x.order # <<>> /\ settled[r][g] = "green" =>
      \/ x.outcome[g].status = "error"
      \/ x.outcome[g].run >= r

(* Core and Full are decided independently: what is found for one gate is  *)
(* what the listings say of that gate alone.                               *)
GatesAreIndependent ==
  LET read == {i \in 1..(x.next - 1) : TRUE}
      says(i, g) == Verdict(x.order[i], g,
                            CHOOSE c \in x.checks[x.order[i]] : TRUE,
                            CHOOSE s \in x.statuses[ShaOf[x.order[i]]] : TRUE)
      deciding(g) == {i \in read : says(i, g) # "older"}
      first(g) == CHOOSE i \in deciding(g) : \A j \in deciding(g) : i <= j
  IN  \A g \in Gates :
        /\ deciding(g) # {} =>
             x.outcome[g] = IF says(first(g), g) = "known"
                            THEN Known(x.order[first(g)]) ELSE Failed
        /\ x.outcome[g] = Unknown => x.next > Len(x.order)
=============================================================================
