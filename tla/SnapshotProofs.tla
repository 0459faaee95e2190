---------------------------- MODULE SnapshotProofs ----------------------------
(***************************************************************************)
(* Theorems about the programs that compile state and context from sources *)
(* that others change meanwhile (ProjectState, TaskContext), for every set *)
(* of tasks, every number of edits and everything a request may select;    *)
(* and about the three readers of ReadersMC together.                      *)
(***************************************************************************)
EXTENDS ReadersMC, CheckpointProofs, SelectionProofs, TLAPS

(* What an Issue may look like, with the number of its edits.              *)
IssueForms == {Revised(f, n) : f \in Forms, n \in Nat}

SourcesInv ==
  /\ issue \in [Tasks -> IssueForms]
  /\ heads \in [Repositories -> Nat]

(* j is what has become of i, or still is i: an edit gives an Issue an     *)
(* updated_at of its own, so that nothing else has its number.             *)
Became(i, j) ==
  /\ i.revision <= j.revision
  /\ i.revision = j.revision => i = j

LEMMA RevisedIsForm ==
  ASSUME NEW i \in IssueForms
  PROVE  /\ i.revision \in Nat
         /\ \E f \in Forms : i = Revised(f, i.revision)
BY DEF IssueForms, Revised

LEMMA BecameIsTransitive ==
  ASSUME NEW i \in IssueForms, NEW j \in IssueForms, NEW k \in IssueForms,
         Became(i, j), Became(j, k)
  PROVE  Became(i, k)
BY RevisedIsForm DEF Became

MovesForward ==
  /\ SourcesInv'
  /\ \A t \in Tasks : Became(issue[t], issue'[t])
  /\ \A r \in Repositories : heads[r] <= heads'[r]

(* Others only move the sources forward.                                   *)
LEMMA SourcesMoveForward == SourcesInv /\ Others => MovesForward
<1> SUFFICES ASSUME SourcesInv, Others PROVE MovesForward
  OBVIOUS
<1>1. ASSUME NEW t \in Tasks, Edit(t)
      PROVE  /\ SourcesInv'
             /\ \A q \in Tasks : Became(issue[q], issue'[q])
             /\ \A r \in Repositories : heads[r] <= heads'[r]
  <2>1. PICK f \in Forms :
          issue' = [issue EXCEPT ![t] = Revised(f, issue[t].revision + 1)]
    BY <1>1 DEF Edit
  <2>2. heads' = heads
    BY <1>1 DEF Edit
  <2>3. issue[t] \in IssueForms /\ issue[t].revision \in Nat
    BY RevisedIsForm DEF SourcesInv
  <2>4. /\ Revised(f, issue[t].revision + 1) \in IssueForms
        /\ Revised(f, issue[t].revision + 1).revision = issue[t].revision + 1
    BY <2>3 DEF IssueForms, Revised
  <2> DEFINE new == Revised(f, issue[t].revision + 1)
  <2> HIDE DEF new
  <2>5. issue' \in [Tasks -> IssueForms]
    BY <2>1, <2>4 DEF SourcesInv, new
  <2>6. issue'[t] = new
    BY <2>1 DEF SourcesInv, new
  <2>7. Became(issue[t], new)
    BY <2>3, <2>4 DEF Became, new
  <2>8. ASSUME NEW q \in Tasks PROVE Became(issue[q], issue'[q])
    <3>1. CASE q = t
      BY <3>1, <2>6, <2>7
    <3>2. CASE q # t
      <4>1. issue'[q] = issue[q] /\ issue[q].revision \in Nat
        BY <3>2, <2>1, RevisedIsForm DEF SourcesInv
      <4> QED BY <4>1 DEF Became
    <3> QED BY <3>1, <3>2
  <2> QED BY <2>2, <2>5, <2>8 DEF SourcesInv
<1>2. ASSUME NEW r \in Repositories, Advance(r)
      PROVE  /\ SourcesInv'
             /\ \A q \in Tasks : Became(issue[q], issue'[q])
             /\ \A s \in Repositories : heads[s] <= heads'[s]
  <2>1. issue' = issue /\ heads' = [heads EXCEPT ![r] = heads[r] + 1]
    BY <1>2 DEF Advance
  <2>2. \A q \in Tasks : issue[q].revision \in Nat
    BY RevisedIsForm DEF SourcesInv
  <2> QED BY <2>1, <2>2 DEF SourcesInv, Became
<1> QED BY <1>1, <1>2 DEF Others, MovesForward

LEMMA SourcesInitially == InitSources => SourcesInv
BY DEF InitSources, SourcesInv, IssueForms, Revised

LEMMA BecameItself ==
  ASSUME NEW i \in IssueForms PROVE Became(i, i)
BY RevisedIsForm DEF Became

-----------------------------------------------------------------------------
(* ProjectState: from the lists of the reducer to a generated bootstrap.   *)

StateFields == {"at", "extraction", "head", "lists", "state", "commit", "infra",
                "found", "expected", "result"}

StateTypes ==
  /\ DOMAIN p = StateFields
  /\ p.lists \in Seq(SUBSET Tasks)
  /\ p.found \in [Tasks -> SUBSET IssueForms]
  /\ p.expected \in [Tasks -> SUBSET Nat]
  /\ p.commit \in Nat /\ p.infra \in Nat

(* A state speaks of tasks, and its checkpoints are those of the extractor.*)
StatesInv ==
  /\ p.at \in {"commit", "infra", "issues", "expect"} => p.state # {}
  /\ \A s \in p.state :
       /\ s.tasks \in [Buckets -> SUBSET Tasks]
       /\ \A g \in GateNames : s.checkpoints[g].status = "known" =>
                                 s.checkpoints[g] = p.extraction[g]

(* What was read before the mark has not moved back since.                 *)
ReadsInv ==
  /\ p.at # "generated" => p.result = {}
  /\ p.at \in {"idle", "ref", "lists", "commit", "infra", "issues"} =>
       mark = {} /\ \A t \in Tasks : p.expected[t] = {}
  /\ p.at \in {"idle", "ref", "lists", "commit", "infra", "issues"} =>
       \A t \in Tasks : \A f \in p.found[t] : Became(f, issue[t])
  /\ p.at \in {"infra", "issues"} => p.commit <= heads["context"]
  /\ p.at = "issues" => p.infra <= heads["control"]

(* Between what was read before the mark and what is expected after it     *)
(* lies what the sources were at the mark.                                 *)
MarkInv ==
  p.at = "expect" =>
    /\ \A t \in Active : p.found[t] # {}
    /\ \A m \in mark :
         /\ m.issue \in [Tasks -> IssueForms] /\ m.heads \in [Repositories -> Nat]
         /\ p.commit <= m.heads["context"] /\ m.heads["context"] <= heads["context"]
         /\ p.infra <= m.heads["control"] /\ m.heads["control"] <= heads["control"]
         /\ \A t \in Tasks : /\ Became(m.issue[t], issue[t])
                             /\ \A f \in p.found[t] : Became(f, m.issue[t])
                             /\ \A e \in p.expected[t] : m.issue[t].revision <= e

BootstrapInv ==
  /\ SourcesInv /\ StateTypes /\ StatesInv /\ ReadsInv /\ MarkInv
  /\ BootstrapIsASnapshot /\ CheckpointsKeepTheirGate

LEMMA StateInitially == InitState /\ InitSources => BootstrapInv
<1> SUFFICES ASSUME InitState, InitSources PROVE BootstrapInv
  OBVIOUS
<1>1. SourcesInv
  BY SourcesInitially
<1>2. /\ DOMAIN p = StateFields
      /\ p.at = "idle" /\ p.lists = <<>> /\ p.state = {} /\ p.result = {}
      /\ p.found = [t \in Tasks |-> {}] /\ p.expected = [t \in Tasks |-> {}]
      /\ p.commit = 0 /\ p.infra = 0 /\ mark = {}
  BY DEF InitState, StateFields
<1>3. StateTypes /\ StatesInv /\ ReadsInv /\ MarkInv
  BY <1>2 DEF StateTypes, StatesInv, ReadsInv, MarkInv
<1>4. BootstrapIsASnapshot /\ CheckpointsKeepTheirGate
  BY <1>2 DEF BootstrapIsASnapshot, CheckpointsKeepTheirGate
<1> QED BY <1>1, <1>3, <1>4 DEF BootstrapInv

(* A step that leaves the sources alone and has no result keeps what is    *)
(* not about its own fields.                                               *)
LEMMA NothingGenerated ==
  ASSUME p'.result = {} PROVE BootstrapIsASnapshot' /\ CheckpointsKeepTheirGate'
BY DEF BootstrapIsASnapshot, CheckpointsKeepTheirGate

(* The tasks of a state are tasks.                                         *)
LEMMA ActiveAreTasks ==
  ASSUME StatesInv, p.state # {}
  PROVE  Active \subseteq Tasks /\ State \in p.state
<1>1. State \in p.state
  BY DEF State
<1>2. State.tasks \in [Buckets -> SUBSET Tasks]
  BY <1>1 DEF StatesInv
<1> QED BY <1>1, <1>2 DEF Active

LEMMA ReadRepositoryKeeps ==
  ASSUME BootstrapInv, ReadRepository PROVE BootstrapInv'
<1>1. /\ p.at = "idle"
      /\ \/ p' = [p EXCEPT !.at = "ref"]
         \/ p' = [p EXCEPT !.head = "error", !.at = "lists"]
      /\ UNCHANGED <<mark, sourceVars>>
  BY DEF ReadRepository, Go
<1>2. /\ DOMAIN p' = StateFields /\ p'.at \in {"ref", "lists"}
      /\ p'.extraction = p.extraction /\ p'.lists = p.lists /\ p'.state = p.state
      /\ p'.commit = p.commit /\ p'.infra = p.infra /\ p'.found = p.found
      /\ p'.expected = p.expected /\ p'.result = p.result
  BY <1>1 DEF BootstrapInv, StateTypes, StateFields
<1>3. p'.result = {}
  BY <1>1, <1>2 DEF BootstrapInv, ReadsInv
<1>4. SourcesInv' /\ StateTypes' /\ StatesInv'
  BY <1>1, <1>2 DEF BootstrapInv, SourcesInv, StateTypes, StatesInv, sourceVars
<1>5. ReadsInv' /\ MarkInv'
  BY <1>1, <1>2 DEF BootstrapInv, ReadsInv, MarkInv, sourceVars
<1> QED BY <1>3, <1>4, <1>5, NothingGenerated DEF BootstrapInv

LEMMA ReadRefKeeps ==
  ASSUME BootstrapInv, ReadRef PROVE BootstrapInv'
<1>1. /\ p.at = "ref"
      /\ \E h \in {"known", "unknown", "error"} :
           p' = [p EXCEPT !.head = h, !.at = "lists"]
      /\ UNCHANGED <<mark, sourceVars>>
  BY DEF ReadRef, Go
<1>2. /\ DOMAIN p' = StateFields /\ p'.at = "lists"
      /\ p'.extraction = p.extraction /\ p'.lists = p.lists /\ p'.state = p.state
      /\ p'.commit = p.commit /\ p'.infra = p.infra /\ p'.found = p.found
      /\ p'.expected = p.expected /\ p'.result = p.result
  BY <1>1 DEF BootstrapInv, StateTypes, StateFields
<1>3. p'.result = {}
  BY <1>1, <1>2 DEF BootstrapInv, ReadsInv
<1>4. SourcesInv' /\ StateTypes' /\ StatesInv'
  BY <1>1, <1>2 DEF BootstrapInv, SourcesInv, StateTypes, StatesInv, sourceVars
<1>5. ReadsInv' /\ MarkInv'
  BY <1>1, <1>2 DEF BootstrapInv, ReadsInv, MarkInv, sourceVars
<1> QED BY <1>3, <1>4, <1>5, NothingGenerated DEF BootstrapInv

LEMMA ListBucketKeeps ==
  ASSUME BootstrapInv, ListBucket PROVE BootstrapInv'
<1>1. PICK S \in SUBSET Tasks : p' = [p EXCEPT !.lists = Append(p.lists, S)]
  BY DEF ListBucket, Go
<1>a. p.at = "lists" /\ UNCHANGED <<mark, sourceVars>>
  BY DEF ListBucket, Go
<1>2. /\ DOMAIN p' = StateFields /\ p'.at = p.at
      /\ p'.extraction = p.extraction /\ p'.lists = Append(p.lists, S)
      /\ p'.state = p.state
      /\ p'.commit = p.commit /\ p'.infra = p.infra /\ p'.found = p.found
      /\ p'.expected = p.expected /\ p'.result = p.result
  BY <1>1 DEF BootstrapInv, StateTypes, StateFields
<1>3. p'.result = {}
  BY <1>a, <1>2 DEF BootstrapInv, ReadsInv
<1>b. p'.lists \in Seq(SUBSET Tasks)
  BY <1>2 DEF BootstrapInv, StateTypes
<1>4. SourcesInv' /\ StateTypes' /\ StatesInv'
  BY <1>a, <1>b, <1>2 DEF BootstrapInv, SourcesInv, StateTypes, StatesInv, sourceVars
<1>5. ReadsInv' /\ MarkInv'
  BY <1>a, <1>2 DEF BootstrapInv, ReadsInv, MarkInv, sourceVars
<1> QED BY <1>3, <1>4, <1>5, NothingGenerated DEF BootstrapInv

(* A checkpoint whose provenance names the gate it is reported for is the  *)
(* extractor's for that gate, whichever way a caller mixed the gates up.   *)
LEMMA BoundIsExtracted ==
  ASSUME NEW e \in Extractions, NEW env \in Envelopes(e), NEW g \in GateNames,
         Bound(env[g], g), env[g].status = "known"
  PROVE  env[g] = e[g]
<1>1. env[g].gate = g
  BY DEF Bound
<1>2. \E h \in GateNames : env[g] = e[h]
  <2>1. (CHOOSE h \in GateNames : h # g) \in GateNames
    BY DEF GateNames
  <2> QED BY <2>1 DEF Envelopes, GateNames
<1>3. PICK h \in GateNames : env[g] = e[h]
  BY <1>2
<1>4. e[h].status = "known" => e[h].gate = h
  BY DEF Extractions
<1> QED BY <1>1, <1>3, <1>4

LEMMA ReduceKeeps ==
  ASSUME BootstrapInv, Reduce PROVE BootstrapInv'
<1>a. PICK e \in Extractions : \E env \in Envelopes(e) :
        p' = IF \A g \in GateNames : Bound(env[g], g)
             THEN [p EXCEPT !.at = "commit", !.extraction = e,
                            !.state = {[tasks |-> [b \in Buckets |->
                                          p.lists[CHOOSE i \in 1..3 : Labels[i] = b]],
                                        head |-> p.head, checkpoints |-> env]}]
             ELSE [p EXCEPT !.at = "refused"]
  BY DEF Reduce, Go
<1>1. PICK env \in Envelopes(e) :
        p' = IF \A g \in GateNames : Bound(env[g], g)
             THEN [p EXCEPT !.at = "commit", !.extraction = e,
                            !.state = {[tasks |-> [b \in Buckets |->
                                          p.lists[CHOOSE i \in 1..3 : Labels[i] = b]],
                                        head |-> p.head, checkpoints |-> env]}]
             ELSE [p EXCEPT !.at = "refused"]
  BY <1>a
<1>2. p.at = "lists" /\ Len(p.lists) = 3 /\ UNCHANGED <<mark, sourceVars>>
  BY DEF Reduce, Go
<1>3. p.result = {}
  BY <1>2 DEF BootstrapInv, ReadsInv
<1>4. CASE \A g \in GateNames : Bound(env[g], g)
  <2> DEFINE tasks == [b \in Buckets |-> p.lists[CHOOSE i \in 1..3 : Labels[i] = b]]
             s == [tasks |-> tasks, head |-> p.head, checkpoints |-> env]
  <2>1. tasks \in [Buckets -> SUBSET Tasks]
    <3>1. ASSUME NEW b \in Buckets
          PROVE  (CHOOSE i \in 1..3 : Labels[i] = b) \in 1..3
      <4>1. \E i \in 1..3 : Labels[i] = b
        BY DEF Buckets, ActiveLabels, Labels
      <4> QED BY <4>1
    <3>2. \A i \in 1..3 : p.lists[i] \in SUBSET Tasks
      BY <1>2 DEF BootstrapInv, StateTypes
    <3> QED BY <3>1, <3>2
  <2>2. s.tasks = tasks /\ s.checkpoints = env
    OBVIOUS
  <2> HIDE DEF tasks, s
  <2>3. p' = [p EXCEPT !.at = "commit", !.extraction = e, !.state = {s}]
    BY <1>1, <1>4 DEF s, tasks
  <2>4. /\ DOMAIN p' = StateFields /\ p'.at = "commit"
        /\ p'.extraction = e /\ p'.lists = p.lists /\ p'.state = {s}
        /\ p'.commit = p.commit /\ p'.infra = p.infra /\ p'.found = p.found
        /\ p'.expected = p.expected /\ p'.result = p.result
    BY <2>3 DEF BootstrapInv, StateTypes, StateFields
  <2>5. \A g \in GateNames : s.checkpoints[g].status = "known" =>
                               s.checkpoints[g] = e[g]
    BY <1>4, <2>2, BoundIsExtracted
  <2>6. StatesInv'
    BY <2>1, <2>2, <2>4, <2>5 DEF StatesInv
  <2>7. SourcesInv' /\ StateTypes'
    BY <1>2, <2>4 DEF BootstrapInv, SourcesInv, StateTypes, sourceVars
  <2>8. ReadsInv' /\ MarkInv'
    BY <1>2, <2>4 DEF BootstrapInv, ReadsInv, MarkInv, sourceVars
  <2> QED BY <1>3, <2>4, <2>6, <2>7, <2>8, NothingGenerated DEF BootstrapInv
<1>5. CASE ~\A g \in GateNames : Bound(env[g], g)
  <2>1. p' = [p EXCEPT !.at = "refused"]
    BY <1>1, <1>5
  <2>2. /\ DOMAIN p' = StateFields /\ p'.at = "refused"
        /\ p'.extraction = p.extraction /\ p'.lists = p.lists /\ p'.state = p.state
        /\ p'.commit = p.commit /\ p'.infra = p.infra /\ p'.found = p.found
        /\ p'.expected = p.expected /\ p'.result = p.result
    BY <2>1 DEF BootstrapInv, StateTypes, StateFields
  <2>3. SourcesInv' /\ StateTypes' /\ StatesInv'
    BY <1>2, <2>2 DEF BootstrapInv, SourcesInv, StateTypes, StatesInv, sourceVars
  <2>4. ReadsInv' /\ MarkInv'
    BY <1>2, <2>2 DEF BootstrapInv, ReadsInv, MarkInv, sourceVars
  <2> QED BY <1>3, <2>2, <2>3, <2>4, NothingGenerated DEF BootstrapInv
<1> QED BY <1>4, <1>5

LEMMA CommitStateKeeps ==
  ASSUME BootstrapInv, CommitState PROVE BootstrapInv'
<1>1. /\ p.at = "commit"
      /\ heads' = [heads EXCEPT !["context"] = heads["context"] + 1]
      /\ p' = [p EXCEPT !.at = "infra", !.commit = heads["context"] + 1]
      /\ UNCHANGED <<issue, mark>>
  BY DEF CommitState
<1>2. heads \in [Repositories -> Nat] /\ "context" \in Repositories
  BY DEF BootstrapInv, SourcesInv, Repositories
<1>3. /\ DOMAIN p' = StateFields /\ p'.at = "infra"
      /\ p'.extraction = p.extraction /\ p'.lists = p.lists /\ p'.state = p.state
      /\ p'.commit = heads["context"] + 1 /\ p'.infra = p.infra /\ p'.found = p.found
      /\ p'.expected = p.expected /\ p'.result = p.result
  BY <1>1 DEF BootstrapInv, StateTypes, StateFields
<1>4. heads'["context"] = heads["context"] + 1 /\ heads' \in [Repositories -> Nat]
  BY <1>1, <1>2
<1>5. p'.result = {}
  BY <1>1, <1>3 DEF BootstrapInv, ReadsInv
<1>6. SourcesInv' /\ StateTypes' /\ StatesInv'
  BY <1>1, <1>2, <1>3, <1>4 DEF BootstrapInv, SourcesInv, StateTypes, StatesInv
<1>7. ReadsInv' /\ MarkInv'
  BY <1>1, <1>2, <1>3, <1>4 DEF BootstrapInv, ReadsInv, MarkInv
<1> QED BY <1>5, <1>6, <1>7, NothingGenerated DEF BootstrapInv

LEMMA ReadInfraKeeps ==
  ASSUME BootstrapInv, ReadInfra PROVE BootstrapInv'
<1>1. /\ p.at = "infra"
      /\ p' = [p EXCEPT !.at = "issues", !.infra = heads["control"]]
      /\ UNCHANGED <<mark, sourceVars>>
  BY DEF ReadInfra, Go
<1>2. heads["control"] \in Nat
  BY DEF BootstrapInv, SourcesInv, Repositories
<1>3. /\ DOMAIN p' = StateFields /\ p'.at = "issues"
      /\ p'.extraction = p.extraction /\ p'.lists = p.lists /\ p'.state = p.state
      /\ p'.commit = p.commit /\ p'.infra = heads["control"] /\ p'.found = p.found
      /\ p'.expected = p.expected /\ p'.result = p.result
  BY <1>1 DEF BootstrapInv, StateTypes, StateFields
<1>4. p'.result = {}
  BY <1>1, <1>3 DEF BootstrapInv, ReadsInv
<1>5. SourcesInv' /\ StateTypes' /\ StatesInv'
  BY <1>1, <1>2, <1>3 DEF BootstrapInv, SourcesInv, StateTypes, StatesInv, sourceVars
<1>6. ReadsInv' /\ MarkInv'
  BY <1>1, <1>2, <1>3 DEF BootstrapInv, ReadsInv, MarkInv, sourceVars
<1> QED BY <1>4, <1>5, <1>6, NothingGenerated DEF BootstrapInv

LEMMA ReadIssueKeeps ==
  ASSUME BootstrapInv, NEW t \in Tasks, ReadIssue(t) PROVE BootstrapInv'
<1>1. /\ p.at = "issues"
      /\ p' = [p EXCEPT !.found = [p.found EXCEPT ![t] = {issue[t]}]]
      /\ UNCHANGED <<mark, sourceVars>>
  BY DEF ReadIssue, Go
<1>2. issue[t] \in IssueForms
  BY DEF BootstrapInv, SourcesInv
<1>3. /\ DOMAIN p' = StateFields /\ p'.at = "issues"
      /\ p'.extraction = p.extraction /\ p'.lists = p.lists /\ p'.state = p.state
      /\ p'.commit = p.commit /\ p'.infra = p.infra
      /\ p'.found = [p.found EXCEPT ![t] = {issue[t]}]
      /\ p'.expected = p.expected /\ p'.result = p.result
  BY <1>1 DEF BootstrapInv, StateTypes, StateFields
<1>4. p'.result = {}
  BY <1>1, <1>3 DEF BootstrapInv, ReadsInv
<1>5. p'.found \in [Tasks -> SUBSET IssueForms]
  BY <1>2, <1>3 DEF BootstrapInv, StateTypes
<1>6. \A q \in Tasks : \A f \in p'.found[q] : Became(f, issue[q])
  BY <1>1, <1>2, <1>3, BecameItself DEF BootstrapInv, StateTypes, ReadsInv
<1>7. SourcesInv' /\ StateTypes' /\ StatesInv'
  BY <1>1, <1>3, <1>5 DEF BootstrapInv, SourcesInv, StateTypes, StatesInv, sourceVars
<1>8. ReadsInv' /\ MarkInv'
  BY <1>1, <1>3, <1>6 DEF BootstrapInv, ReadsInv, MarkInv, sourceVars
<1> QED BY <1>4, <1>7, <1>8, NothingGenerated DEF BootstrapInv

(* The mark is set between the last candidate and the first expectation.   *)
LEMMA CandidatesReadKeeps ==
  ASSUME BootstrapInv, CandidatesRead PROVE BootstrapInv'
<1>1. /\ p.at = "issues" /\ \A t \in Active : p.found[t] # {}
      /\ p' = [p EXCEPT !.at = "expect"]
      /\ mark' = {[issue |-> issue, heads |-> heads]}
      /\ UNCHANGED sourceVars
  BY DEF CandidatesRead
<1>2. /\ DOMAIN p' = StateFields /\ p'.at = "expect"
      /\ p'.extraction = p.extraction /\ p'.lists = p.lists /\ p'.state = p.state
      /\ p'.commit = p.commit /\ p'.infra = p.infra /\ p'.found = p.found
      /\ p'.expected = p.expected /\ p'.result = p.result
  BY <1>1 DEF BootstrapInv, StateTypes, StateFields
<1>3. p'.result = {} /\ \A t \in Tasks : p'.expected[t] = {}
  BY <1>1, <1>2 DEF BootstrapInv, ReadsInv
<1>4. SourcesInv' /\ StateTypes' /\ StatesInv'
  BY <1>1, <1>2 DEF BootstrapInv, SourcesInv, StateTypes, StatesInv, sourceVars
<1>5. ReadsInv'
  BY <1>1, <1>2, <1>3 DEF BootstrapInv, ReadsInv, sourceVars
<1>6. Active' = Active
  BY <1>2 DEF Active, State
<1>7. MarkInv'
  <2> SUFFICES ASSUME NEW m \in mark'
               PROVE  /\ m.issue \in [Tasks -> IssueForms] /\ m.heads \in [Repositories -> Nat]
                      /\ p'.commit <= m.heads["context"] /\ m.heads["context"] <= heads'["context"]
                      /\ p'.infra <= m.heads["control"] /\ m.heads["control"] <= heads'["control"]
                      /\ \A t \in Tasks : /\ Became(m.issue[t], issue'[t])
                                          /\ \A f \in p'.found[t] : Became(f, m.issue[t])
                                          /\ \A e \in p'.expected[t] : m.issue[t].revision <= e
    BY <1>1, <1>2, <1>6 DEF MarkInv
  <2>1. m.issue = issue /\ m.heads = heads /\ issue' = issue /\ heads' = heads
    BY <1>1 DEF sourceVars
  <2>2. heads["context"] \in Nat /\ heads["control"] \in Nat
    BY DEF BootstrapInv, SourcesInv, Repositories
  <2>3. p.commit <= heads["context"] /\ p.infra <= heads["control"]
    BY <1>1 DEF BootstrapInv, ReadsInv
  <2>4. \A t \in Tasks : \A f \in p.found[t] : Became(f, issue[t])
    BY <1>1 DEF BootstrapInv, ReadsInv
  <2>5. \A t \in Tasks : Became(issue[t], issue[t])
    BY BecameItself DEF BootstrapInv, SourcesInv
  <2> QED BY <1>2, <1>3, <2>1, <2>2, <2>3, <2>4, <2>5 DEF BootstrapInv, SourcesInv
<1> QED BY <1>3, <1>4, <1>5, <1>7, NothingGenerated DEF BootstrapInv

LEMMA ExpectRevisionKeeps ==
  ASSUME BootstrapInv, NEW t \in Tasks, ExpectRevision(t) PROVE BootstrapInv'
<1>1. /\ p.at = "expect"
      /\ p' = [p EXCEPT !.expected = [p.expected EXCEPT ![t] = {issue[t].revision}]]
      /\ UNCHANGED <<mark, sourceVars>>
  BY DEF ExpectRevision, Go
<1>2. issue[t] \in IssueForms /\ issue[t].revision \in Nat
  BY RevisedIsForm DEF BootstrapInv, SourcesInv
<1>3. /\ DOMAIN p' = StateFields /\ p'.at = "expect"
      /\ p'.extraction = p.extraction /\ p'.lists = p.lists /\ p'.state = p.state
      /\ p'.commit = p.commit /\ p'.infra = p.infra /\ p'.found = p.found
      /\ p'.expected = [p.expected EXCEPT ![t] = {issue[t].revision}]
      /\ p'.result = p.result
  BY <1>1 DEF BootstrapInv, StateTypes, StateFields
<1>4. p'.result = {}
  BY <1>1, <1>3 DEF BootstrapInv, ReadsInv
<1>5. p'.expected \in [Tasks -> SUBSET Nat]
  BY <1>2, <1>3 DEF BootstrapInv, StateTypes
<1>6. SourcesInv' /\ StateTypes' /\ StatesInv'
  BY <1>1, <1>3, <1>5 DEF BootstrapInv, SourcesInv, StateTypes, StatesInv, sourceVars
<1>7. ReadsInv'
  BY <1>1, <1>3 DEF BootstrapInv, ReadsInv, sourceVars
<1>8. Active' = Active /\ \A q \in Active : p'.found[q] # {}
  BY <1>1, <1>3 DEF BootstrapInv, MarkInv, Active, State
<1>9. ASSUME NEW m \in mark, NEW q \in Tasks, NEW e \in p'.expected[q]
      PROVE  m.issue[q].revision <= e
  <2>1. CASE q = t
    <3>1. e = issue[t].revision
      BY <1>3, <2>1 DEF BootstrapInv, StateTypes
    <3>2. Became(m.issue[t], issue[t])
      BY <1>1 DEF BootstrapInv, MarkInv
    <3> QED BY <2>1, <3>1, <3>2 DEF Became
  <2>2. CASE q # t
    <3>1. e \in p.expected[q]
      BY <1>3, <2>2 DEF BootstrapInv, StateTypes
    <3> QED BY <1>1, <3>1 DEF BootstrapInv, MarkInv
  <2> QED BY <2>1, <2>2
<1>10. MarkInv'
  <2>1. /\ mark' = mark /\ heads' = heads /\ issue' = issue
    BY <1>1 DEF sourceVars
  <2> SUFFICES ASSUME NEW m \in mark
               PROVE  /\ m.issue \in [Tasks -> IssueForms] /\ m.heads \in [Repositories -> Nat]
                      /\ p.commit <= m.heads["context"] /\ m.heads["context"] <= heads["context"]
                      /\ p.infra <= m.heads["control"] /\ m.heads["control"] <= heads["control"]
                      /\ \A q \in Tasks : /\ Became(m.issue[q], issue[q])
                                          /\ \A f \in p.found[q] : Became(f, m.issue[q])
                                          /\ \A e \in p'.expected[q] : m.issue[q].revision <= e
    BY <1>3, <1>8, <2>1 DEF MarkInv
  <2> QED BY <1>1, <1>9 DEF BootstrapInv, MarkInv
<1> QED BY <1>4, <1>6, <1>7, <1>10, NothingGenerated DEF BootstrapInv

(* An Issue that is what was found of it and has the expected revision was *)
(* so at the mark, too: it became neither more nor other in between.       *)
LEMMA NothingBecameInBetween ==
  ASSUME NEW i \in IssueForms, NEW j \in IssueForms, NEW n \in Nat,
         Became(i, j), j.revision <= n, i.revision = n
  PROVE  i = j
BY RevisedIsForm DEF Became

LEMMA GenerateKeeps ==
  ASSUME BootstrapInv, Generate PROVE BootstrapInv'
<1> DEFINE found(t) == CHOOSE f \in p.found[t] : TRUE
           expected(t) == CHOOSE r \in p.expected[t] : TRUE
           sources == [t \in Active |-> found(t)]
           ready == {t \in Active : Interpret(found(t)) = "ready"}
           Fine == /\ SourcesCurrent
                   /\ \A t \in Active : Projects(t, found(t), expected(t))
           milestone == CASE Active = {} -> "unknown"
                          [] Cardinality(Milestones(sources)) = 1 -> "known"
                          [] OTHER -> "error"
           b == [sources |-> sources, ready |-> ready, milestone |-> milestone,
                 checkpoints |-> State.checkpoints]
<1>1. /\ p.at = "expect" /\ \A t \in Active : p.expected[t] # {}
      /\ p' = IF Fine THEN [p EXCEPT !.at = "generated", !.result = {b}]
              ELSE [p EXCEPT !.at = "refused"]
      /\ UNCHANGED <<mark, sourceVars>>
  BY DEF Generate, Go
<1>2. b.sources = sources /\ b.ready = ready /\ b.checkpoints = State.checkpoints
  OBVIOUS
<1>3. Active \subseteq Tasks /\ State \in p.state
  BY <1>1, ActiveAreTasks DEF BootstrapInv, StatesInv
<1>4. ASSUME NEW t \in Active
      PROVE  found(t) \in p.found[t] /\ expected(t) \in p.expected[t]
  <2>1. p.found[t] # {} /\ p.expected[t] # {}
    BY <1>1 DEF BootstrapInv, MarkInv
  <2> QED BY <2>1
<1> HIDE DEF b, milestone
<1>5. CASE Fine
  <2>1. p' = [p EXCEPT !.at = "generated", !.result = {b}]
    BY <1>1, <1>5
  <2>2. /\ DOMAIN p' = StateFields /\ p'.at = "generated"
        /\ p'.extraction = p.extraction /\ p'.lists = p.lists /\ p'.state = p.state
        /\ p'.commit = p.commit /\ p'.infra = p.infra /\ p'.found = p.found
        /\ p'.expected = p.expected /\ p'.result = {b}
    BY <2>1 DEF BootstrapInv, StateTypes, StateFields
  <2>3. ASSUME NEW m \in mark, NEW t \in Active PROVE m.issue[t] = found(t)
    <3>1. /\ Became(found(t), m.issue[t]) /\ m.issue[t].revision <= expected(t)
          /\ m.issue[t] \in IssueForms
      BY <1>1, <1>3, <1>4 DEF BootstrapInv, MarkInv
    <3>2. found(t) \in IssueForms /\ expected(t) \in Nat
      BY <1>3, <1>4 DEF BootstrapInv, StateTypes
    <3>3. found(t).revision = expected(t)
      BY <1>5 DEF Projects
    <3> HIDE DEF found, expected
    <3> QED BY <3>1, <3>2, <3>3, NothingBecameInBetween
  <2>4. ASSUME NEW m \in mark
        PROVE  m.heads["control"] = p.infra /\ m.heads["context"] = p.commit
    <3>1. /\ p.commit <= m.heads["context"] /\ m.heads["context"] <= heads["context"]
          /\ p.infra <= m.heads["control"] /\ m.heads["control"] <= heads["control"]
          /\ m.heads \in [Repositories -> Nat]
      BY <1>1 DEF BootstrapInv, MarkInv
    <3>2. p.infra = heads["control"] /\ p.commit = heads["context"]
      BY <1>5 DEF SourcesCurrent
    <3>3. /\ p.commit \in Nat /\ p.infra \in Nat
          /\ m.heads["context"] \in Nat /\ m.heads["control"] \in Nat
      BY <3>1 DEF BootstrapInv, StateTypes, Repositories
    <3> QED BY <3>1, <3>2, <3>3
  <2>5. BootstrapIsASnapshot'
    <3> SUFFICES ASSUME NEW m \in mark
                 PROVE  /\ \A t \in DOMAIN b.sources : m.issue[t] = b.sources[t]
                        /\ b.ready = {t \in DOMAIN b.sources :
                                        Interpret(m.issue[t]) = "ready"}
                        /\ m.heads["control"] = p.infra /\ m.heads["context"] = p.commit
      BY <1>1, <2>2 DEF BootstrapIsASnapshot
    <3>1. DOMAIN b.sources = Active
      BY <1>2
    <3>2. ASSUME NEW t \in Active PROVE m.issue[t] = b.sources[t] /\ m.issue[t] = found(t)
      BY <1>2, <2>3
    <3>3. b.ready = {t \in Active : Interpret(m.issue[t]) = "ready"}
      BY <1>2, <3>2
    <3> QED BY <2>4, <3>1, <3>2, <3>3
  <2>6. CheckpointsKeepTheirGate'
    BY <1>2, <1>3, <2>2 DEF BootstrapInv, StatesInv, CheckpointsKeepTheirGate
  <2>7. SourcesInv' /\ StateTypes' /\ StatesInv' /\ ReadsInv' /\ MarkInv'
    BY <1>1, <2>2 DEF BootstrapInv, SourcesInv, StateTypes, StatesInv, ReadsInv,
                      MarkInv, sourceVars
  <2> QED BY <2>5, <2>6, <2>7 DEF BootstrapInv
<1>6. CASE ~Fine
  <2>1. p' = [p EXCEPT !.at = "refused"]
    BY <1>1, <1>6
  <2>2. /\ DOMAIN p' = StateFields /\ p'.at = "refused"
        /\ p'.extraction = p.extraction /\ p'.lists = p.lists /\ p'.state = p.state
        /\ p'.commit = p.commit /\ p'.infra = p.infra /\ p'.found = p.found
        /\ p'.expected = p.expected /\ p'.result = p.result
    BY <2>1 DEF BootstrapInv, StateTypes, StateFields
  <2>3. p'.result = {}
    BY <1>1, <2>2 DEF BootstrapInv, ReadsInv
  <2>4. SourcesInv' /\ StateTypes' /\ StatesInv' /\ ReadsInv' /\ MarkInv'
    BY <1>1, <2>2 DEF BootstrapInv, SourcesInv, StateTypes, StatesInv, ReadsInv,
                      MarkInv, sourceVars
  <2> QED BY <2>3, <2>4, NothingGenerated DEF BootstrapInv
<1> QED BY <1>5, <1>6

LEMMA MovingKeepsState ==
  ASSUME BootstrapInv, UNCHANGED stateVars, MovesForward PROVE BootstrapInv'
<1>1. p' = p /\ mark' = mark /\ SourcesInv
  BY DEF stateVars, BootstrapInv
<1>2. /\ SourcesInv'
      /\ \A t \in Tasks : Became(issue[t], issue'[t])
      /\ \A r \in Repositories : heads[r] <= heads'[r]
  BY DEF MovesForward
<1>3. \A t \in Tasks : issue[t] \in IssueForms /\ issue'[t] \in IssueForms
  BY <1>1, <1>2 DEF SourcesInv
<1>4. /\ heads["control"] \in Nat /\ heads'["control"] \in Nat
      /\ heads["context"] \in Nat /\ heads'["context"] \in Nat
      /\ heads["control"] <= heads'["control"] /\ heads["context"] <= heads'["context"]
  BY <1>1, <1>2 DEF SourcesInv, Repositories
<1>5. StateTypes' /\ StatesInv'
  BY <1>1 DEF BootstrapInv, StateTypes, StatesInv
<1>6. ReadsInv'
  <2>1. ASSUME p.at \in {"idle", "ref", "lists", "commit", "infra", "issues"},
               NEW t \in Tasks, NEW f \in p.found[t]
        PROVE  Became(f, issue'[t])
    <3>1. Became(f, issue[t]) /\ f \in IssueForms
      BY <2>1 DEF BootstrapInv, ReadsInv, StateTypes
    <3> QED BY <1>2, <1>3, <3>1, BecameIsTransitive
  <2>2. /\ p.commit \in Nat /\ p.infra \in Nat
    BY DEF BootstrapInv, StateTypes
  <2> QED BY <1>1, <1>4, <2>1, <2>2 DEF BootstrapInv, ReadsInv
<1>7. MarkInv'
  <2>1. ASSUME p.at = "expect", NEW m \in mark, NEW t \in Tasks
        PROVE  Became(m.issue[t], issue'[t])
    <3>1. Became(m.issue[t], issue[t]) /\ m.issue[t] \in IssueForms
      BY <2>1 DEF BootstrapInv, MarkInv
    <3> QED BY <1>2, <1>3, <3>1, BecameIsTransitive
  <2>2. ASSUME p.at = "expect", NEW m \in mark
        PROVE  /\ m.heads["context"] <= heads'["context"]
               /\ m.heads["control"] <= heads'["control"]
    <3>1. /\ m.heads["context"] <= heads["context"]
          /\ m.heads["control"] <= heads["control"]
          /\ m.heads["context"] \in Nat /\ m.heads["control"] \in Nat
      BY <2>2 DEF BootstrapInv, MarkInv, Repositories
    <3> QED BY <1>4, <3>1
  <2>3. Active' = Active
    BY <1>1 DEF Active, State
  <2> SUFFICES ASSUME p.at = "expect"
               PROVE  /\ \A t \in Active : p.found[t] # {}
                      /\ \A m \in mark :
                           /\ m.issue \in [Tasks -> IssueForms] /\ m.heads \in [Repositories -> Nat]
                           /\ p.commit <= m.heads["context"] /\ m.heads["context"] <= heads'["context"]
                           /\ p.infra <= m.heads["control"] /\ m.heads["control"] <= heads'["control"]
                           /\ \A t \in Tasks : /\ Became(m.issue[t], issue'[t])
                                               /\ \A f \in p.found[t] : Became(f, m.issue[t])
                                               /\ \A e \in p.expected[t] : m.issue[t].revision <= e
    BY <1>1, <2>3 DEF MarkInv
  <2> QED BY <2>1, <2>2 DEF BootstrapInv, MarkInv
<1>8. BootstrapIsASnapshot' /\ CheckpointsKeepTheirGate'
  BY <1>1 DEF BootstrapInv, BootstrapIsASnapshot, CheckpointsKeepTheirGate
<1> QED BY <1>2, <1>5, <1>6, <1>7, <1>8 DEF BootstrapInv

LEMMA OthersKeepState ==
  ASSUME BootstrapInv, OthersDuringState PROVE BootstrapInv'
BY MovingKeepsState, SourcesMoveForward DEF OthersDuringState, BootstrapInv

LEMMA StateStutters ==
  ASSUME BootstrapInv, UNCHANGED <<stateVars, sourceVars>> PROVE BootstrapInv'
<1>1. p' = p /\ mark' = mark /\ issue' = issue /\ heads' = heads
  BY DEF stateVars, sourceVars
<1>2. SourcesInv' /\ StateTypes' /\ StatesInv' /\ ReadsInv'
  BY <1>1 DEF BootstrapInv, SourcesInv, StateTypes, StatesInv, ReadsInv
<1>3. MarkInv'
  BY <1>1 DEF BootstrapInv, MarkInv, Active, State
<1>4. BootstrapIsASnapshot' /\ CheckpointsKeepTheirGate'
  BY <1>1 DEF BootstrapInv, BootstrapIsASnapshot, CheckpointsKeepTheirGate
<1> QED BY <1>2, <1>3, <1>4 DEF BootstrapInv

(* Whatever happens between two reads: what is proposed, read and expected *)
(* stays in the order in which it was read, and so does what comes of it.  *)
THEOREM BootstrapInvariant == StateSpec => []BootstrapInv
<1>1. ASSUME BootstrapInv, [StateNext \/ OthersDuringState]_<<stateVars, sourceVars>>
      PROVE  BootstrapInv'
  BY <1>1, ReadRepositoryKeeps, ReadRefKeeps, ListBucketKeeps, ReduceKeeps,
     CommitStateKeeps, ReadInfraKeeps, CandidatesReadKeeps, GenerateKeeps,
     ReadIssueKeeps, ExpectRevisionKeeps, OthersKeepState, StateStutters DEF StateNext
<1> QED BY <1>1, StateInitially, PTL DEF StateSpec

(* generate_bootstrap compares what its caller read first with what it     *)
(* expected afterwards: a bootstrap is a picture of the moment in between, *)
(* however often the Issues are edited and the branches move.              *)
THEOREM BootstrapAlwaysASnapshot == StateSpec => []BootstrapIsASnapshot
<1>1. BootstrapInv => BootstrapIsASnapshot
  BY DEF BootstrapInv
<1> QED BY <1>1, BootstrapInvariant, PTL

(* _require_checkpoint_binding: a checkpoint that a bootstrap reports for a*)
(* gate is the extractor's for that gate, or is not known.                 *)
THEOREM CheckpointsAlwaysKeepTheirGate == StateSpec => []CheckpointsKeepTheirGate
<1>1. BootstrapInv => CheckpointsKeepTheirGate
  BY DEF BootstrapInv
<1> QED BY <1>1, BootstrapInvariant, PTL

-----------------------------------------------------------------------------
(* TaskContext: from the author's reads to a pack.                         *)

ContextTypes ==
  /\ DOMAIN c = ContextFields
  /\ DOMAIN c.request = RequestFields
  /\ c.request.issue \subseteq IssueForms
  /\ \A i, j \in c.request.issue : i = j
  /\ c.request.control \subseteq Nat
  /\ c.request.context \subseteq Nat
  /\ c.request.product \subseteq Nat
  /\ c.at = "context" => \E h \in Nat : c.control = {h}

(* What the author read has only been overtaken since.                     *)
AuthorInv ==
  /\ c.at = "idle" => moment = {}
  /\ c.at = "idle" =>
       /\ \A i \in c.request.issue : Became(i, issue[Task])
       /\ \A h \in c.request.control : h <= heads["control"]
       /\ \A h \in c.request.context : h <= heads["context"]
       /\ \A h \in c.request.product : h <= heads["product"]

(* While the compiler observes, what the sources were when the request was *)
(* complete lies between what the request says and what they are.          *)
MomentInv ==
  c.at \in {"control", "context", "product", "issue"} =>
    \A m \in moment :
      /\ m.issue[Task] \in IssueForms /\ m.heads \in [Repositories -> Nat]
      /\ \A r \in Repositories : m.heads[r] <= heads[r]
      /\ Became(m.issue[Task], issue[Task])
      /\ \A i \in c.request.issue : Became(i, m.issue[Task])
      /\ \A h \in c.request.control : h <= m.heads["control"]
      /\ \A h \in c.request.context : h <= m.heads["context"]
      /\ \A h \in c.request.product : h <= m.heads["product"]
      /\ c.at # "control" => \A h \in c.control : m.heads["control"] <= h

(* What the compiler has compared was so at that moment.                   *)
ComparedInv ==
  \A m \in moment :
    /\ c.at \in {"product", "issue", "fetch", "select", "packed"} =>
         /\ c.request.control = {m.heads["control"]}
         /\ c.request.context = {m.heads["context"]}
    /\ c.at \in {"issue", "fetch", "select", "packed"} /\ c.request.current =>
         c.request.product = {m.heads["product"]}
    /\ c.at \in {"fetch", "select", "packed"} => c.request.issue = {m.issue[Task]}

CanonicalInv ==
  c.at \in {"fetch", "select", "packed"} => \A i \in c.request.issue : Canonical(i)

PackInv ==
  SourcesInv /\ ContextTypes /\ AuthorInv /\ MomentInv /\ ComparedInv /\ CanonicalInv

LEMMA ContextInitially == InitContext /\ InitSources => PackInv
<1> SUFFICES ASSUME InitContext, InitSources PROVE PackInv
  OBVIOUS
<1>1. /\ DOMAIN c = ContextFields /\ c.at = "idle" /\ c.request = NoRequest
      /\ moment = {}
  BY DEF InitContext, ContextFields
<1>2. /\ DOMAIN NoRequest = RequestFields
      /\ NoRequest.issue = {} /\ NoRequest.control = {}
      /\ NoRequest.context = {} /\ NoRequest.product = {}
  BY DEF NoRequest, RequestFields
<1>3. ContextTypes
  BY <1>1, <1>2 DEF ContextTypes
<1>4. AuthorInv /\ MomentInv /\ ComparedInv /\ CanonicalInv
  BY <1>1, <1>2 DEF AuthorInv, MomentInv, ComparedInv, CanonicalInv
<1> QED BY <1>3, <1>4, SourcesInitially DEF PackInv

LEMMA HeadsAreNumbers ==
  ASSUME NEW h, h \in [Repositories -> Nat]
  PROVE  h["control"] \in Nat /\ h["context"] \in Nat /\ h["product"] \in Nat
BY DEF Repositories

LEMMA AuthorReadsKeeps ==
  ASSUME PackInv, AuthorReads PROVE PackInv'
<1>1. /\ c.at = "idle" /\ moment' = moment /\ issue' = issue /\ heads' = heads
  BY DEF AuthorReads, Turn, sourceVars
<1>2. issue[Task] \in IssueForms /\ Became(issue[Task], issue[Task])
  BY TaskAssumption, BecameItself DEF PackInv, SourcesInv
<1>3. heads["control"] \in Nat /\ heads["context"] \in Nat /\ heads["product"] \in Nat
  BY HeadsAreNumbers DEF PackInv, SourcesInv
<1>4. CASE c' = [c EXCEPT !.request = [c.request EXCEPT !.issue = {issue[Task]}]]
  <2>1. /\ DOMAIN c' = ContextFields /\ c'.at = "idle"
        /\ c'.request = [c.request EXCEPT !.issue = {issue[Task]}]
    BY <1>1, <1>4 DEF PackInv, ContextTypes, ContextFields
  <2>2. /\ DOMAIN c'.request = RequestFields /\ c'.request.issue = {issue[Task]}
        /\ c'.request.control = c.request.control
        /\ c'.request.context = c.request.context
        /\ c'.request.product = c.request.product
    BY <2>1 DEF PackInv, ContextTypes, RequestFields
  <2>3. ContextTypes' /\ AuthorInv'
    BY <1>1, <1>2, <2>1, <2>2 DEF PackInv, ContextTypes, AuthorInv
  <2>4. SourcesInv' /\ MomentInv' /\ ComparedInv' /\ CanonicalInv'
    BY <1>1, <2>1 DEF PackInv, SourcesInv, MomentInv, ComparedInv, CanonicalInv
  <2> QED BY <2>3, <2>4 DEF PackInv
<1>5. ASSUME NEW r \in Repositories,
             c' = [c EXCEPT !.request = [c.request EXCEPT ![r] = {heads[r]}]]
      PROVE  PackInv'
  <2>1. /\ DOMAIN c' = ContextFields /\ c'.at = "idle"
        /\ c'.request = [c.request EXCEPT ![r] = {heads[r]}]
    BY <1>1, <1>5 DEF PackInv, ContextTypes, ContextFields
  <2>2. /\ DOMAIN c'.request = RequestFields /\ c'.request.issue = c.request.issue
        /\ c'.request.control = IF r = "control" THEN {heads["control"]} ELSE c.request.control
        /\ c'.request.context = IF r = "context" THEN {heads["context"]} ELSE c.request.context
        /\ c'.request.product = IF r = "product" THEN {heads["product"]} ELSE c.request.product
    BY <2>1 DEF PackInv, ContextTypes, RequestFields, Repositories
  <2>3. ContextTypes' /\ AuthorInv'
    BY <1>1, <1>3, <2>1, <2>2 DEF PackInv, ContextTypes, AuthorInv
  <2>4. SourcesInv' /\ MomentInv' /\ ComparedInv' /\ CanonicalInv'
    BY <1>1, <2>1 DEF PackInv, SourcesInv, MomentInv, ComparedInv, CanonicalInv
  <2> QED BY <2>3, <2>4 DEF PackInv
<1> QED BY <1>4, <1>5 DEF AuthorReads, Turn

LEMMA CompleteRequestKeeps ==
  ASSUME PackInv, CompleteRequest PROVE PackInv'
<1>1. /\ c.at = "idle" /\ issue' = issue /\ heads' = heads
      /\ moment' = {[issue |-> issue, heads |-> heads]}
  BY DEF CompleteRequest, sourceVars
<1>2. PICK current \in BOOLEAN, choice \in Offers :
        c' = [c EXCEPT !.at = "control", !.request.current = current,
                       !.request.inputs = choice.inputs,
                       !.request.budgets = {choice.budgets}]
  BY DEF CompleteRequest
<1>3. DOMAIN c' = ContextFields /\ c'.at = "control"
  BY <1>2 DEF PackInv, ContextTypes, ContextFields
<1>4. /\ DOMAIN c'.request = RequestFields /\ c'.request.issue = c.request.issue
      /\ c'.request.control = c.request.control
      /\ c'.request.context = c.request.context
      /\ c'.request.product = c.request.product
  BY <1>2 DEF PackInv, ContextTypes, RequestFields, ContextFields
<1>5. /\ issue[Task] \in IssueForms /\ Became(issue[Task], issue[Task])
      /\ heads \in [Repositories -> Nat]
  BY TaskAssumption, BecameItself DEF PackInv, SourcesInv
<1>6. SourcesInv' /\ ContextTypes' /\ AuthorInv'
  BY <1>1, <1>3, <1>4 DEF PackInv, SourcesInv, ContextTypes, AuthorInv
<1>7. MomentInv'
  <2> SUFFICES ASSUME NEW m \in moment'
               PROVE  /\ m.issue[Task] \in IssueForms /\ m.heads \in [Repositories -> Nat]
                      /\ \A r \in Repositories : m.heads[r] <= heads'[r]
                      /\ Became(m.issue[Task], issue'[Task])
                      /\ \A i \in c'.request.issue : Became(i, m.issue[Task])
                      /\ \A h \in c'.request.control : h <= m.heads["control"]
                      /\ \A h \in c'.request.context : h <= m.heads["context"]
                      /\ \A h \in c'.request.product : h <= m.heads["product"]
    BY <1>3 DEF MomentInv
  <2>1. m.issue = issue /\ m.heads = heads
    BY <1>1
  <2>2. \A r \in Repositories : heads[r] <= heads[r]
    BY <1>5
  <2> QED BY <1>1, <1>3, <1>4, <1>5, <2>1, <2>2 DEF PackInv, AuthorInv
<1>8. ComparedInv' /\ CanonicalInv'
  BY <1>3 DEF ComparedInv, CanonicalInv
<1> QED BY <1>6, <1>7, <1>8 DEF PackInv

(* A refusal leaves nothing to say.                                        *)
LEMMA RefuseKeeps ==
  ASSUME PackInv, Refuse PROVE PackInv'
<1>1. /\ c' = [c EXCEPT !.at = "refused"]
      /\ moment' = moment /\ issue' = issue /\ heads' = heads
  BY DEF Refuse, Turn, sourceVars
<1>2. DOMAIN c' = ContextFields /\ c'.at = "refused" /\ c'.request = c.request
  BY <1>1 DEF PackInv, ContextTypes, ContextFields
<1>3. SourcesInv' /\ ContextTypes'
  BY <1>1, <1>2 DEF PackInv, SourcesInv, ContextTypes
<1>4. AuthorInv' /\ MomentInv' /\ ComparedInv' /\ CanonicalInv'
  BY <1>2 DEF AuthorInv, MomentInv, ComparedInv, CanonicalInv
<1> QED BY <1>3, <1>4 DEF PackInv

(* An observation that goes on with the same request.                      *)
LEMMA ObservationKeeps ==
  ASSUME PackInv, NEW next, c.at # "idle",
         next \in {"product", "issue", "fetch"},
         c' = [c EXCEPT !.at = next], moment' = moment, UNCHANGED sourceVars,
         next \in {"product", "issue"} =>
           c.at \in {"context", "product", "issue"},
         \A m \in moment :
           /\ c.request.control = {m.heads["control"]}
           /\ c.request.context = {m.heads["context"]}
           /\ next \in {"issue", "fetch"} /\ c.request.current =>
                c.request.product = {m.heads["product"]}
           /\ next = "fetch" => c.request.issue = {m.issue[Task]},
         next = "fetch" => \A i \in c.request.issue : Canonical(i)
  PROVE  PackInv'
<1>1. issue' = issue /\ heads' = heads
  BY DEF sourceVars
<1>2. /\ DOMAIN c' = ContextFields /\ c'.at = next /\ c'.request = c.request
      /\ c'.control = c.control
  BY DEF PackInv, ContextTypes, ContextFields
<1>3. SourcesInv' /\ ContextTypes' /\ AuthorInv'
  BY <1>1, <1>2 DEF PackInv, SourcesInv, ContextTypes, AuthorInv
<1>4. MomentInv'
  BY <1>1, <1>2 DEF PackInv, MomentInv
<1>5. ComparedInv' /\ CanonicalInv'
  BY <1>2 DEF ComparedInv, CanonicalInv
<1> QED BY <1>3, <1>4, <1>5 DEF PackInv

LEMMA ObserveControlKeeps ==
  ASSUME PackInv, ObserveControl PROVE PackInv'
<1>1. /\ c.at = "control" /\ c' = [c EXCEPT !.at = "context", !.control = {heads["control"]}]
      /\ moment' = moment /\ issue' = issue /\ heads' = heads
  BY DEF ObserveControl, Turn, sourceVars
<1>2. /\ DOMAIN c' = ContextFields /\ c'.at = "context" /\ c'.request = c.request
      /\ c'.control = {heads["control"]}
  BY <1>1 DEF PackInv, ContextTypes, ContextFields
<1>a. heads["control"] \in Nat
  BY HeadsAreNumbers DEF PackInv, SourcesInv
<1>3. SourcesInv' /\ ContextTypes' /\ AuthorInv'
  BY <1>a, <1>1, <1>2 DEF PackInv, SourcesInv, ContextTypes, AuthorInv
<1>4. MomentInv'
  BY <1>1, <1>2 DEF PackInv, MomentInv, Repositories
<1>5. ComparedInv' /\ CanonicalInv'
  BY <1>2 DEF ComparedInv, CanonicalInv
<1> QED BY <1>3, <1>4, <1>5 DEF PackInv

(* The head was what the request says before the moment and is so after it.*)
LEMMA ObserveContextKeeps ==
  ASSUME PackInv, ObserveContext PROVE PackInv'
<1>1. CASE Refuse
  BY <1>1, RefuseKeeps
<1>2. CASE HeadsFresh /\ Turn([c EXCEPT !.at = IF c.request.current THEN "product" ELSE "issue"])
  <2> DEFINE next == IF c.request.current THEN "product" ELSE "issue"
  <2>1. c.at = "context"
    BY DEF ObserveContext
  <2>2. ASSUME NEW m \in moment
        PROVE  /\ c.request.control = {m.heads["control"]}
               /\ c.request.context = {m.heads["context"]}
    <3>1. /\ \A h \in c.request.control : h <= m.heads["control"]
          /\ \A h \in c.control : m.heads["control"] <= h
          /\ \A h \in c.request.context : h <= m.heads["context"]
          /\ m.heads["context"] <= heads["context"]
          /\ m.heads \in [Repositories -> Nat]
      BY <2>1 DEF PackInv, MomentInv, Repositories
    <3>2. c.control = c.request.control /\ c.request.context = {heads["context"]}
      BY <1>2 DEF HeadsFresh
    <3>3. /\ m.heads["control"] \in Nat /\ m.heads["context"] \in Nat
          /\ heads["context"] \in Nat
      BY <3>1, HeadsAreNumbers DEF PackInv, SourcesInv
    <3>4. c.request.context = {m.heads["context"]}
      BY <3>1, <3>2, <3>3
    <3>5. \E h \in Nat : c.request.control = {h}
      BY <2>1, <3>2 DEF PackInv, ContextTypes
    <3> QED BY <3>1, <3>2, <3>3, <3>4, <3>5
  <2> QED BY <1>2, <2>1, <2>2, ObservationKeeps DEF Turn
<1> QED BY <1>1, <1>2 DEF ObserveContext

LEMMA ObserveProductKeeps ==
  ASSUME PackInv, ObserveProduct PROVE PackInv'
<1>1. CASE Refuse
  BY <1>1, RefuseKeeps
<1>2. CASE {heads["product"]} = c.request.product /\ Turn([c EXCEPT !.at = "issue"])
  <2>1. c.at = "product"
    BY DEF ObserveProduct
  <2>2. ASSUME NEW m \in moment PROVE c.request.product = {m.heads["product"]}
    <3>1. /\ \A h \in c.request.product : h <= m.heads["product"]
          /\ m.heads["product"] <= heads["product"]
          /\ m.heads \in [Repositories -> Nat]
      BY <2>1 DEF PackInv, MomentInv, Repositories
    <3>2. m.heads["product"] \in Nat /\ heads["product"] \in Nat
      BY <3>1, HeadsAreNumbers DEF PackInv, SourcesInv
    <3> QED BY <1>2, <3>1, <3>2
  <2>3. \A m \in moment : /\ c.request.control = {m.heads["control"]}
                          /\ c.request.context = {m.heads["context"]}
    BY <2>1 DEF PackInv, ComparedInv
  <2> QED BY <1>2, <2>1, <2>2, <2>3, ObservationKeeps DEF Turn
<1> QED BY <1>1, <1>2 DEF ObserveProduct

(* The Issue is the request's: it has become nothing else in between.      *)
LEMMA FetchIssueKeeps ==
  ASSUME PackInv, FetchIssue PROVE PackInv'
<1>1. CASE Refuse
  BY <1>1, RefuseKeeps
<1>2. CASE SameSnapshot(issue[Task]) /\ Turn([c EXCEPT !.at = "fetch"])
  <2>1. c.at = "issue"
    BY DEF FetchIssue
  <2>2. Canonical(issue[Task]) /\ {issue[Task]} = c.request.issue
    BY <1>2 DEF SameSnapshot
  <2>3. ASSUME NEW m \in moment PROVE c.request.issue = {m.issue[Task]}
    <3>1. /\ Became(m.issue[Task], issue[Task]) /\ m.issue[Task] \in IssueForms
          /\ Became(issue[Task], m.issue[Task])
      BY <2>1, <2>2 DEF PackInv, MomentInv
    <3>2. issue[Task] \in IssueForms
      BY TaskAssumption DEF PackInv, SourcesInv
    <3> QED BY <2>2, <3>1, <3>2, RevisedIsForm DEF Became
  <2>4. \A m \in moment : /\ c.request.control = {m.heads["control"]}
                          /\ c.request.context = {m.heads["context"]}
                          /\ c.request.current => c.request.product = {m.heads["product"]}
    BY <2>1 DEF PackInv, ComparedInv
  <2>5. \A i \in c.request.issue : Canonical(i)
    BY <2>2
  <2>6. c' = [c EXCEPT !.at = "fetch"] /\ moment' = moment /\ UNCHANGED sourceVars
    BY <1>2 DEF Turn
  <2> QED BY <2>1, <2>3, <2>4, <2>5, <2>6, ObservationKeeps
<1> QED BY <1>1, <1>2 DEF FetchIssue

(* The sources a request names and the selection do not depend on what     *)
(* moves meanwhile.                                                        *)
LEMMA SelectionKeeps ==
  ASSUME PackInv, FetchSources \/ EmitPack PROVE PackInv'
<1>1. CASE Refuse
  BY <1>1, RefuseKeeps
<1>2. ASSUME c.at \in {"fetch", "select"}, moment' = moment, UNCHANGED sourceVars,
             \/ \E f : c' = [c EXCEPT !.at = "select", !.fetched = f]
             \/ \E f : c' = [c EXCEPT !.at = "packed", !.pack = f]
      PROVE  PackInv'
  <2>1. issue' = issue /\ heads' = heads
    BY <1>2 DEF sourceVars
  <2>2. /\ DOMAIN c' = ContextFields /\ c'.at \in {"select", "packed"}
        /\ c'.request = c.request
    BY <1>2 DEF PackInv, ContextTypes, ContextFields
  <2>3. SourcesInv' /\ ContextTypes' /\ AuthorInv' /\ MomentInv'
    BY <2>1, <2>2 DEF PackInv, SourcesInv, ContextTypes, AuthorInv, MomentInv
  <2>4. ComparedInv' /\ CanonicalInv'
    BY <1>2, <2>2 DEF PackInv, ComparedInv, CanonicalInv
  <2> QED BY <2>3, <2>4 DEF PackInv
<1>3. CASE FetchSources /\ ~Refuse
  <2>1. c.at = "fetch" /\ moment' = moment /\ UNCHANGED sourceVars
        /\ \E f : c' = [c EXCEPT !.at = "select", !.fetched = f]
    BY <1>3 DEF FetchSources, Turn
  <2> QED BY <1>2, <2>1
<1>4. CASE EmitPack /\ ~Refuse
  <2>1. c.at = "select" /\ moment' = moment /\ UNCHANGED sourceVars
        /\ \E f : c' = [c EXCEPT !.at = "packed", !.pack = f]
    BY <1>4 DEF EmitPack, Turn
  <2> QED BY <1>2, <2>1
<1> QED BY <1>1, <1>3, <1>4

LEMMA MovingKeepsContext ==
  ASSUME PackInv, UNCHANGED contextVars, MovesForward PROVE PackInv'
<1>1. c' = c /\ moment' = moment /\ SourcesInv
  BY DEF contextVars, PackInv
<1>2. /\ SourcesInv'
      /\ \A t \in Tasks : Became(issue[t], issue'[t])
      /\ \A r \in Repositories : heads[r] <= heads'[r]
  BY DEF MovesForward
<1>3. /\ issue[Task] \in IssueForms /\ issue'[Task] \in IssueForms
      /\ Became(issue[Task], issue'[Task])
  BY <1>1, <1>2, TaskAssumption DEF SourcesInv
<1>4. \A r \in Repositories : /\ heads[r] \in Nat /\ heads'[r] \in Nat
                              /\ heads[r] <= heads'[r]
  BY <1>1, <1>2 DEF SourcesInv
<1>5. ContextTypes' /\ ComparedInv' /\ CanonicalInv'
  BY <1>1 DEF PackInv, ContextTypes, ComparedInv, CanonicalInv
<1>6. AuthorInv'
  <2>1. ASSUME c.at = "idle", NEW i \in c.request.issue PROVE Became(i, issue'[Task])
    <3>1. Became(i, issue[Task]) /\ i \in IssueForms
      BY <2>1 DEF PackInv, AuthorInv, ContextTypes
    <3> QED BY <1>3, <3>1, BecameIsTransitive
  <2>2. ASSUME c.at = "idle"
        PROVE  /\ \A h \in c.request.control : h <= heads'["control"]
               /\ \A h \in c.request.context : h <= heads'["context"]
               /\ \A h \in c.request.product : h <= heads'["product"]
    <3>1. /\ \A h \in c.request.control : h \in Nat /\ h <= heads["control"]
          /\ \A h \in c.request.context : h \in Nat /\ h <= heads["context"]
          /\ \A h \in c.request.product : h \in Nat /\ h <= heads["product"]
      BY <2>2 DEF PackInv, AuthorInv, ContextTypes
    <3> QED BY <1>4, <3>1 DEF Repositories
  <2> QED BY <1>1, <2>1, <2>2 DEF PackInv, AuthorInv
<1>7. MomentInv'
  <2> SUFFICES ASSUME c.at \in {"control", "context", "product", "issue"}, NEW m \in moment
               PROVE  /\ m.issue[Task] \in IssueForms /\ m.heads \in [Repositories -> Nat]
                      /\ \A r \in Repositories : m.heads[r] <= heads'[r]
                      /\ Became(m.issue[Task], issue'[Task])
                      /\ \A i \in c.request.issue : Became(i, m.issue[Task])
                      /\ \A h \in c.request.control : h <= m.heads["control"]
                      /\ \A h \in c.request.context : h <= m.heads["context"]
                      /\ \A h \in c.request.product : h <= m.heads["product"]
                      /\ c.at # "control" => \A h \in c.control : m.heads["control"] <= h
    BY <1>1 DEF MomentInv
  <2>1. /\ m.issue[Task] \in IssueForms /\ m.heads \in [Repositories -> Nat]
        /\ \A r \in Repositories : m.heads[r] <= heads[r]
        /\ Became(m.issue[Task], issue[Task])
    BY DEF PackInv, MomentInv
  <2>2. Became(m.issue[Task], issue'[Task])
    BY <1>3, <2>1, BecameIsTransitive
  <2>3. \A r \in Repositories : m.heads[r] <= heads'[r]
    BY <1>4, <2>1
  <2> QED BY <2>1, <2>2, <2>3 DEF PackInv, MomentInv
<1> QED BY <1>2, <1>5, <1>6, <1>7 DEF PackInv

LEMMA OthersKeepContext ==
  ASSUME PackInv, OthersDuringContext PROVE PackInv'
BY MovingKeepsContext, SourcesMoveForward DEF OthersDuringContext, PackInv

LEMMA ContextStutters ==
  ASSUME PackInv, UNCHANGED <<contextVars, sourceVars>> PROVE PackInv'
<1>1. c' = c /\ moment' = moment /\ issue' = issue /\ heads' = heads
  BY DEF contextVars, sourceVars
<1>2. SourcesInv' /\ ContextTypes' /\ AuthorInv' /\ ComparedInv' /\ CanonicalInv'
  BY <1>1 DEF PackInv, SourcesInv, ContextTypes, AuthorInv, ComparedInv, CanonicalInv
<1>3. MomentInv'
  BY <1>1 DEF PackInv, MomentInv
<1> QED BY <1>2, <1>3 DEF PackInv

(* The author's reads, the moment the request is complete and the          *)
(* compiler's observations follow each other, whatever moves in between.   *)
THEOREM PackInvariant == ContextSpec => []PackInv
<1>1. ASSUME PackInv, [ContextNext \/ OthersDuringContext]_<<contextVars, sourceVars>>
      PROVE  PackInv'
  BY <1>1, AuthorReadsKeeps, CompleteRequestKeeps, ObserveControlKeeps,
     ObserveContextKeeps, ObserveProductKeeps, FetchIssueKeeps, SelectionKeeps,
     OthersKeepContext, ContextStutters DEF ContextNext
<1> QED BY <1>1, ContextInitially, PTL DEF ContextSpec

(* compile_task_context observes once more what its request says: if all of*)
(* it is as it was, a pack shows the sources at one moment.                *)
THEOREM PackAlwaysASnapshot == ContextSpec => []PackIsASnapshot
<1>1. PackInv => PackIsASnapshot
  BY DEF PackInv, ComparedInv, PackIsASnapshot
<1> QED BY <1>1, PackInvariant, PTL

(* An Issue snapshot with one lifecycle label that was not reopened, or    *)
(* completed without labels, has the lifecycle I04 reads from it.          *)
LEMMA CanonicalIsInterpreted ==
  ASSUME NEW i, Canonical(i) PROVE Lifecycle(i) = Interpret(i)
<1>1. CASE i.open /\ i.reason = "none" /\ Cardinality(i.labels) = 1
  BY <1>1 DEF Lifecycle, Interpret
<1>2. CASE ~i.open /\ i.reason = "completed" /\ i.labels = {}
  BY <1>2 DEF Lifecycle, Interpret
<1> QED BY <1>1, <1>2 DEF Canonical

(* The lifecycle of a pack is the one I04 gives the Issue.                 *)
PackKeepsI04 ==
  c.at = "packed" => \A i \in c.request.issue : Lifecycle(i) = Interpret(i)

(* _issue_snapshot: the lifecycle in a pack is the one task_issue_state.py *)
(* gives the Issue.                                                        *)
THEOREM PackAlwaysKeepsI04 == ContextSpec => []PackKeepsI04
<1>1. PackInv => PackKeepsI04
  BY CanonicalIsInterpreted DEF PackInv, CanonicalInv, PackKeepsI04
<1> QED BY <1>1, PackInvariant, PTL
-----------------------------------------------------------------------------
(* The three readers together (ReadersMC): each behaviour is of one of     *)
(* them, so that the others' invariants hold as they did.                  *)

StateShape ==
  /\ p.at \in {"idle", "ref", "lists", "commit", "infra", "issues", "expect",
              "generated", "refused"}
  /\ p.head \in {"pending", "known", "unknown", "error"}
  /\ p.at \in {"idle", "ref", "lists"} => p.state = {}
  /\ \A s \in p.state : s.head = p.head
  /\ \A t \in Tasks : /\ \A f, g \in p.found[t] : f = g
                      /\ \A m, n \in p.expected[t] : m = n
  /\ p.at = "generated" => p.result # {}
  /\ p.at \in {"expect", "generated"} => mark # {}

(* The reducer's commit is the only move of a head that is not counted.    *)
BoundsInv ==
  /\ edits \in 0..Edits
  /\ \A t \in Tasks : issue[t].revision <= edits
  /\ \A r \in Repositories : heads[r] <= edits + 1
  /\ p.at \in {"idle", "ref", "lists", "commit"} =>
       \A r \in Repositories : heads[r] <= edits

ReadersInv == BootstrapInv /\ PackInv /\ StateShape /\ BoundsInv /\ ContextOK

LEMMA ReadersInitially == InitReaders => ReadersInv
<1> SUFFICES ASSUME InitReaders PROVE ReadersInv
  OBVIOUS
<1>1. InitState /\ InitContext /\ InitSources
  BY DEF InitReaders
<1>2. BootstrapInv /\ PackInv
  BY <1>1, StateInitially, ContextInitially
<1>3. StateShape
  BY <1>1 DEF InitState, StateShape
<1>4. BoundsInv
  BY <1>1, EditsAssumption DEF InitState, InitSources, BoundsInv, Revised
<1>5. ContextOK
  BY <1>1 DEF InitContext, ContextOK
<1> QED BY <1>2, <1>3, <1>4, <1>5 DEF ReadersInv

LEMMA RestBounds ==
  ASSUME BoundsInv, UNCHANGED sourceVars,
         p'.at \in {"idle", "ref", "lists", "commit"} =>
           p.at \in {"idle", "ref", "lists", "commit"}
  PROVE  BoundsInv'
BY DEF BoundsInv, sourceVars

LEMMA OthersKeepBounds ==
  ASSUME SourcesInv, BoundsInv, Others, p' = p PROVE BoundsInv'
<1>1. ASSUME NEW t \in Tasks, Edit(t) PROVE BoundsInv'
  <2>1. PICK f \in Forms :
          issue' = [issue EXCEPT ![t] = Revised(f, issue[t].revision + 1)]
    BY <1>1 DEF Edit
  <2>2. /\ edits < Edits /\ edits' = edits + 1 /\ heads' = heads
    BY <1>1 DEF Edit
  <2>3. \A q \in Tasks : issue[q].revision \in Nat
    BY RevisedIsForm DEF SourcesInv
  <2> DEFINE new == Revised(f, issue[t].revision + 1)
  <2>4. new.revision = issue[t].revision + 1
    BY DEF Revised
  <2> HIDE DEF new
  <2>5. \A q \in Tasks : issue'[q] = IF q = t THEN new ELSE issue[q]
    BY <2>1 DEF SourcesInv, new
  <2>6. edits \in Nat /\ edits' \in 0..Edits
    BY <2>2, EditsAssumption DEF BoundsInv
  <2>7. \A q \in Tasks : issue'[q].revision <= edits'
    BY <2>2, <2>3, <2>4, <2>5, <2>6 DEF BoundsInv
  <2>8. \A r \in Repositories : heads[r] \in Nat
    BY DEF SourcesInv
  <2> QED BY <2>2, <2>6, <2>7, <2>8 DEF BoundsInv
<1>2. ASSUME NEW r \in Repositories, Advance(r) PROVE BoundsInv'
  <2>1. /\ edits < Edits /\ edits' = edits + 1 /\ issue' = issue
        /\ heads' = [heads EXCEPT ![r] = heads[r] + 1]
    BY <1>2 DEF Advance
  <2>2. \A s \in Repositories : heads'[s] = IF s = r THEN heads[r] + 1 ELSE heads[s]
    BY <2>1 DEF SourcesInv
  <2>3. \A s \in Repositories : heads[s] \in Nat
    BY DEF SourcesInv
  <2>4. \A q \in Tasks : issue[q].revision \in Nat
    BY RevisedIsForm DEF SourcesInv
  <2>5. edits \in Nat /\ edits' \in 0..Edits
    BY <2>1, EditsAssumption DEF BoundsInv
  <2> QED BY <2>1, <2>2, <2>3, <2>4, <2>5 DEF BoundsInv
<1> QED BY <1>1, <1>2 DEF Others

LEMMA StateStepShape ==
  ASSUME BootstrapInv, StateShape, BoundsInv, StateNext
  PROVE  StateShape' /\ BoundsInv'
<1>0. DOMAIN p = StateFields
  BY DEF BootstrapInv, StateTypes
<1>1. CASE ReadRepository
  <2>1. /\ p.at = "idle"
        /\ \/ p' = [p EXCEPT !.at = "ref"]
           \/ p' = [p EXCEPT !.head = "error", !.at = "lists"]
        /\ UNCHANGED <<mark, sourceVars>>
    BY <1>1 DEF ReadRepository, Go
  <2>2. /\ p'.at \in {"ref", "lists"} /\ p'.head \in {p.head, "error"}
        /\ p'.state = p.state /\ p'.found = p.found /\ p'.expected = p.expected
    BY <1>0, <2>1 DEF StateFields
  <2> QED BY <2>1, <2>2, RestBounds DEF StateShape
<1>2. CASE ReadRef
  <2>1. /\ p.at = "ref" /\ UNCHANGED <<mark, sourceVars>>
        /\ \E h \in {"known", "unknown", "error"} :
             p' = [p EXCEPT !.head = h, !.at = "lists"]
    BY <1>2 DEF ReadRef, Go
  <2>2. /\ p'.at = "lists" /\ p'.head \in {"known", "unknown", "error"}
        /\ p'.state = p.state /\ p'.found = p.found /\ p'.expected = p.expected
    BY <1>0, <2>1 DEF StateFields
  <2> QED BY <2>1, <2>2, RestBounds DEF StateShape
<1>3. CASE ListBucket
  <2>1. /\ p.at = "lists" /\ UNCHANGED <<mark, sourceVars>>
        /\ \E l : p' = [p EXCEPT !.lists = l]
    BY <1>3 DEF ListBucket, Go
  <2>2. /\ p'.at = "lists" /\ p'.head = p.head
        /\ p'.state = p.state /\ p'.found = p.found /\ p'.expected = p.expected
    BY <1>0, <2>1 DEF StateFields
  <2> QED BY <2>1, <2>2, RestBounds DEF StateShape
<1>4. CASE Reduce
  <2>1. /\ p.at = "lists" /\ UNCHANGED <<mark, sourceVars>>
        /\ \/ \E e, s : /\ s.head = p.head
                        /\ p' = [p EXCEPT !.at = "commit", !.extraction = e, !.state = {s}]
           \/ p' = [p EXCEPT !.at = "refused"]
    BY <1>4 DEF Reduce, Go
  <2>2. CASE p' = [p EXCEPT !.at = "refused"]
    <3>1. /\ p'.at = "refused" /\ p'.head = p.head
          /\ p'.state = p.state /\ p'.found = p.found /\ p'.expected = p.expected
      BY <1>0, <2>2 DEF StateFields
    <3>2. mark' = mark /\ UNCHANGED sourceVars
      BY <2>1
    <3>3. StateShape'
      BY <3>1, <3>2 DEF StateShape
    <3> QED BY <3>1, <3>2, <3>3, RestBounds
  <2>3. CASE \E e, s : /\ s.head = p.head
                       /\ p' = [p EXCEPT !.at = "commit", !.extraction = e, !.state = {s}]
    <3>1. PICK s : /\ p'.at = "commit" /\ p'.head = p.head /\ s.head = p.head
                   /\ p'.state = {s} /\ p'.found = p.found /\ p'.expected = p.expected
      BY <1>0, <2>3 DEF StateFields
    <3> QED BY <2>1, <3>1, RestBounds DEF StateShape
  <2> QED BY <2>1, <2>2, <2>3
<1>5. CASE CommitState
  <2>1. /\ p.at = "commit" /\ issue' = issue /\ edits' = edits /\ mark' = mark
        /\ heads' = [heads EXCEPT !["context"] = heads["context"] + 1]
        /\ p' = [p EXCEPT !.at = "infra", !.commit = heads["context"] + 1]
    BY <1>5 DEF CommitState
  <2>2. /\ p'.at = "infra" /\ p'.head = p.head
        /\ p'.state = p.state /\ p'.found = p.found /\ p'.expected = p.expected
    BY <1>0, <2>1 DEF StateFields
  <2>3. \A r \in Repositories :
          heads[r] \in Nat /\ (heads'[r] = heads[r] \/ heads'[r] = heads[r] + 1)
    BY <2>1 DEF BootstrapInv, SourcesInv, Repositories
  <2>4. BoundsInv'
    BY <2>1, <2>2, <2>3 DEF BoundsInv
  <2> QED BY <2>1, <2>2, <2>4 DEF StateShape
<1>6. CASE ReadInfra
  <2>1. /\ p.at = "infra" /\ UNCHANGED <<mark, sourceVars>>
        /\ p' = [p EXCEPT !.at = "issues", !.infra = heads["control"]]
    BY <1>6 DEF ReadInfra, Go
  <2>2. /\ p'.at = "issues" /\ p'.head = p.head
        /\ p'.state = p.state /\ p'.found = p.found /\ p'.expected = p.expected
    BY <1>0, <2>1 DEF StateFields
  <2> QED BY <2>1, <2>2, RestBounds DEF StateShape
<1>7. ASSUME NEW t \in Tasks, ReadIssue(t) PROVE StateShape' /\ BoundsInv'
  <2>1. /\ p.at = "issues" /\ UNCHANGED <<mark, sourceVars>>
        /\ p' = [p EXCEPT !.found = [p.found EXCEPT ![t] = {issue[t]}]]
    BY <1>7 DEF ReadIssue, Go
  <2>2. /\ p'.at = "issues" /\ p'.head = p.head /\ p'.state = p.state
        /\ p'.found = [p.found EXCEPT ![t] = {issue[t]}] /\ p'.expected = p.expected
    BY <1>0, <2>1 DEF StateFields
  <2>3. \A q \in Tasks : p'.found[q] = IF q = t THEN {issue[t]} ELSE p.found[q]
    BY <2>2 DEF BootstrapInv, StateTypes
  <2>4. StateShape'
    BY <2>1, <2>2, <2>3 DEF StateShape
  <2> QED BY <2>1, <2>2, <2>4, RestBounds
<1>8. CASE CandidatesRead
  <2>1. /\ p.at = "issues" /\ p' = [p EXCEPT !.at = "expect"]
        /\ mark' # {} /\ UNCHANGED sourceVars
    BY <1>8 DEF CandidatesRead
  <2>2. /\ p'.at = "expect" /\ p'.head = p.head
        /\ p'.state = p.state /\ p'.found = p.found /\ p'.expected = p.expected
    BY <1>0, <2>1 DEF StateFields
  <2> QED BY <2>1, <2>2, RestBounds DEF StateShape
<1>9. ASSUME NEW t \in Tasks, ExpectRevision(t) PROVE StateShape' /\ BoundsInv'
  <2>1. /\ p.at = "expect" /\ UNCHANGED <<mark, sourceVars>>
        /\ p' = [p EXCEPT !.expected = [p.expected EXCEPT ![t] = {issue[t].revision}]]
    BY <1>9 DEF ExpectRevision, Go
  <2>2. /\ p'.at = "expect" /\ p'.head = p.head /\ p'.state = p.state
        /\ p'.expected = [p.expected EXCEPT ![t] = {issue[t].revision}]
        /\ p'.found = p.found
    BY <1>0, <2>1 DEF StateFields
  <2>3. \A q \in Tasks : p'.expected[q] = IF q = t THEN {issue[t].revision} ELSE p.expected[q]
    BY <2>2 DEF BootstrapInv, StateTypes
  <2>4. StateShape'
    BY <2>1, <2>2, <2>3 DEF StateShape
  <2> QED BY <2>1, <2>2, <2>4, RestBounds
<1>10. CASE Generate
  <2>1. /\ p.at = "expect" /\ UNCHANGED <<mark, sourceVars>>
        /\ \/ \E b : p' = [p EXCEPT !.at = "generated", !.result = {b}]
           \/ p' = [p EXCEPT !.at = "refused"]
    BY <1>10 DEF Generate, Go
  <2>2. /\ p'.at \in {"generated", "refused"} /\ p'.head = p.head
        /\ p'.at = "generated" => p'.result # {}
        /\ p'.state = p.state /\ p'.found = p.found /\ p'.expected = p.expected
    BY <1>0, <2>1 DEF StateFields
  <2> QED BY <2>1, <2>2, RestBounds DEF StateShape
<1> QED BY <1>1, <1>2, <1>3, <1>4, <1>5, <1>6, <1>7, <1>8, <1>9, <1>10 DEF StateNext

LEMMA ContextStepShape ==
  ASSUME PackInv, ContextOK, ContextNext
  PROVE  ContextOK' /\ UNCHANGED sourceVars
<1>0. DOMAIN c = ContextFields /\ DOMAIN c.request = RequestFields
  BY DEF PackInv, ContextTypes
<1>1. ASSUME Refuse, c.at \notin {"idle", "packed"}
      PROVE  ContextOK' /\ UNCHANGED sourceVars
  <2>1. /\ c' = [c EXCEPT !.at = "refused"]
        /\ moment' = moment /\ UNCHANGED sourceVars
    BY <1>1 DEF Refuse, Turn
  <2>2. /\ c'.at = "refused" /\ c'.request = c.request
        /\ c'.fetched = c.fetched /\ c'.pack = c.pack
    BY <1>0, <2>1 DEF ContextFields
  <2> QED BY <1>1, <2>1, <2>2 DEF ContextOK
<1>2. CASE AuthorReads
  <2>1. /\ c.at = "idle" /\ moment' = moment /\ UNCHANGED sourceVars
        /\ \E q : c' = [c EXCEPT !.request = q]
    BY <1>2 DEF AuthorReads, Turn
  <2>2. c'.at = "idle" /\ c'.fetched = c.fetched /\ c'.pack = c.pack
    BY <1>0, <2>1 DEF ContextFields
  <2> QED BY <2>1, <2>2 DEF ContextOK
<1>3. CASE CompleteRequest
  <2>1. /\ c.at = "idle" /\ moment' # {} /\ UNCHANGED sourceVars
    BY <1>3 DEF CompleteRequest
  <2>2. PICK current \in BOOLEAN, choice \in Offers :
          c' = [c EXCEPT !.at = "control", !.request.current = current,
                         !.request.inputs = choice.inputs,
                         !.request.budgets = {choice.budgets}]
    BY <1>3 DEF CompleteRequest
  <2>3. c'.at = "control" /\ c'.fetched = c.fetched /\ c'.pack = c.pack
    BY <1>0, <2>2 DEF ContextFields
  <2>4. c'.request.budgets = {choice.budgets}
    BY <1>0, <2>2 DEF ContextFields, RequestFields
  <2> QED BY <2>1, <2>3, <2>4 DEF ContextOK
<1>4. ASSUME NEW next, c.at \notin {"idle", "packed"},
             next \in {"context", "product", "issue", "fetch"},
             moment' = moment, UNCHANGED sourceVars,
             \/ c' = [c EXCEPT !.at = next]
             \/ \E h : c' = [c EXCEPT !.at = next, !.control = h]
      PROVE  ContextOK' /\ UNCHANGED sourceVars
  <2>1. /\ c'.at = next /\ c'.request = c.request
        /\ c'.fetched = c.fetched /\ c'.pack = c.pack
    BY <1>0, <1>4 DEF ContextFields
  <2> QED BY <1>4, <2>1 DEF ContextOK
<1>5. CASE ObserveControl
  <2>1. /\ c.at = "control" /\ moment' = moment /\ UNCHANGED sourceVars
        /\ c' = [c EXCEPT !.at = "context", !.control = {heads["control"]}]
    BY <1>5 DEF ObserveControl, Turn
  <2> QED BY <1>4, <2>1
<1>6. CASE ObserveContext
  <2>1. CASE Turn([c EXCEPT !.at = IF c.request.current THEN "product" ELSE "issue"])
    <3> DEFINE next == IF c.request.current THEN "product" ELSE "issue"
    <3>1. next \in {"product", "issue"}
      OBVIOUS
    <3>2. /\ c.at = "context" /\ c' = [c EXCEPT !.at = next]
          /\ moment' = moment /\ UNCHANGED sourceVars
      BY <1>6, <2>1 DEF ObserveContext, Turn
    <3> HIDE DEF next
    <3> QED BY <1>4, <3>1, <3>2
  <2>2. CASE Refuse
    <3>1. c.at = "context"
      BY <1>6 DEF ObserveContext
    <3> QED BY <1>1, <2>2, <3>1
  <2> QED BY <1>6, <2>1, <2>2 DEF ObserveContext
<1>7. CASE ObserveProduct
  <2>1. c.at = "product"
    BY <1>7 DEF ObserveProduct
  <2>2. CASE Turn([c EXCEPT !.at = "issue"])
    BY <1>4, <2>1, <2>2 DEF Turn
  <2>3. CASE Refuse
    BY <1>1, <2>1, <2>3
  <2> QED BY <1>7, <2>2, <2>3 DEF ObserveProduct
<1>8. CASE FetchIssue
  <2>1. c.at = "issue"
    BY <1>8 DEF FetchIssue
  <2>2. CASE Turn([c EXCEPT !.at = "fetch"])
    BY <1>4, <2>1, <2>2 DEF Turn
  <2>3. CASE Refuse
    BY <1>1, <2>1, <2>3
  <2> QED BY <1>8, <2>2, <2>3 DEF FetchIssue
<1>9. CASE FetchSources
  <2>1. c.at = "fetch"
    BY <1>9 DEF FetchSources
  <2>2. ASSUME ~Refuse PROVE ContextOK' /\ UNCHANGED sourceVars
    <3>1. /\ moment' = moment /\ UNCHANGED sourceVars
          /\ \E f : c' = [c EXCEPT !.at = "select", !.fetched = {f}]
      BY <1>9, <2>2 DEF FetchSources, Turn
    <3>2. PICK f : c' = [c EXCEPT !.at = "select", !.fetched = {f}]
      BY <3>1
    <3>3. /\ c'.at = "select" /\ c'.request = c.request
          /\ c'.fetched = {f} /\ c'.pack = c.pack
      BY <1>0, <3>2 DEF ContextFields
    <3> QED BY <2>1, <3>1, <3>3 DEF ContextOK
  <2> QED BY <1>1, <2>1, <2>2
<1>10. CASE EmitPack
  <2>1. c.at = "select"
    BY <1>10 DEF EmitPack
  <2>2. ASSUME ~Refuse PROVE ContextOK' /\ UNCHANGED sourceVars
    <3>1. /\ moment' = moment /\ UNCHANGED sourceVars
          /\ \E f : c' = [c EXCEPT !.at = "packed", !.pack = {f}]
      BY <1>10, <2>2 DEF EmitPack, Turn
    <3>2. PICK f : c' = [c EXCEPT !.at = "packed", !.pack = {f}]
      BY <3>1
    <3>3. /\ c'.at = "packed" /\ c'.request = c.request
          /\ c'.fetched = c.fetched /\ c'.pack = {f}
      BY <1>0, <3>2 DEF ContextFields
    <3> QED BY <2>1, <3>1, <3>3 DEF ContextOK
  <2> QED BY <1>1, <2>1, <2>2
<1> QED BY <1>2, <1>3, <1>5, <1>6, <1>7, <1>8, <1>9, <1>10 DEF ContextNext

(* Nothing that these programs do moves a source, except that the caller   *)
(* of the reducer commits.                                                 *)
LEMMA StateMovesForward ==
  ASSUME SourcesInv, StateNext PROVE MovesForward
<1>1. CASE UNCHANGED sourceVars
  <2>1. issue' = issue /\ heads' = heads
    BY <1>1 DEF sourceVars
  <2>2. \A r \in Repositories : heads[r] <= heads[r]
    BY DEF SourcesInv
  <2> QED BY <2>1, <2>2, BecameItself DEF SourcesInv, MovesForward
<1>2. CASE CommitState
  <2>1. issue' = issue /\ heads' = [heads EXCEPT !["context"] = heads["context"] + 1]
    BY <1>2 DEF CommitState
  <2>2. /\ heads' \in [Repositories -> Nat]
        /\ \A r \in Repositories : heads[r] <= heads'[r]
    BY <2>1 DEF SourcesInv, Repositories
  <2> QED BY <2>1, <2>2, BecameItself DEF SourcesInv, MovesForward
<1>3. UNCHANGED sourceVars \/ CommitState
  <2>1. CASE ReadRepository \/ ReadRef \/ ListBucket
    BY <2>1 DEF ReadRepository, ReadRef, ListBucket, Go
  <2>2. CASE Reduce
    BY <2>2 DEF Reduce, Go
  <2>3. CASE ReadInfra \/ CandidatesRead
    BY <2>3 DEF ReadInfra, CandidatesRead, Go
  <2>4. CASE Generate
    BY <2>4 DEF Generate, Go
  <2>5. ASSUME NEW t \in Tasks, ReadIssue(t) \/ ExpectRevision(t)
        PROVE  UNCHANGED sourceVars
    BY <2>5 DEF ReadIssue, ExpectRevision, Go
  <2> QED BY <2>1, <2>2, <2>3, <2>4, <2>5 DEF StateNext
<1> QED BY <1>1, <1>2, <1>3

LEMMA ReadersStep ==
  ASSUME ReadersInv, [NextReaders]_Readers PROVE ReadersInv'
<1>0. BootstrapInv /\ PackInv /\ StateShape /\ BoundsInv /\ ContextOK /\ SourcesInv
  BY DEF ReadersInv, BootstrapInv
<1>1. CASE UNCHANGED <<stateVars, contextVars, sourceVars>>
  <2>1. BootstrapInv' /\ PackInv'
    BY <1>0, <1>1, StateStutters, ContextStutters
  <2>2. p' = p /\ mark' = mark /\ c' = c /\ moment' = moment /\ UNCHANGED sourceVars
    BY <1>1 DEF stateVars, contextVars
  <2>3. StateShape' /\ ContextOK'
    BY <1>0, <2>2 DEF StateShape, ContextOK
  <2>4. BoundsInv'
    BY <1>0, <2>2, RestBounds
  <2> QED BY <2>1, <2>3, <2>4 DEF ReadersInv
<1>2. CASE StateNext /\ UNCHANGED contextVars
  <2>1. BootstrapInv'
    BY <1>0, <1>2, ReadRepositoryKeeps, ReadRefKeeps, ListBucketKeeps, ReduceKeeps,
       CommitStateKeeps, ReadInfraKeeps, CandidatesReadKeeps, GenerateKeeps,
       ReadIssueKeeps, ExpectRevisionKeeps DEF StateNext
  <2>2. PackInv'
    BY <1>0, <1>2, StateMovesForward, MovingKeepsContext
  <2>3. StateShape' /\ BoundsInv'
    BY <1>0, <1>2, StateStepShape
  <2>4. ContextOK'
    BY <1>0, <1>2 DEF ContextOK, contextVars
  <2> QED BY <2>1, <2>2, <2>3, <2>4 DEF ReadersInv
<1>3. CASE ContextNext /\ UNCHANGED stateVars
  <2>1. PackInv'
    BY <1>0, <1>3, AuthorReadsKeeps, CompleteRequestKeeps, ObserveControlKeeps,
       ObserveContextKeeps, ObserveProductKeeps, FetchIssueKeeps, SelectionKeeps
       DEF ContextNext
  <2>2. ContextOK' /\ UNCHANGED sourceVars
    BY <1>0, <1>3, ContextStepShape
  <2>3. BootstrapInv'
    BY <1>0, <1>3, <2>2, StateStutters
  <2>4. p' = p /\ mark' = mark
    BY <1>3 DEF stateVars
  <2>5. StateShape'
    BY <1>0, <2>4 DEF StateShape
  <2>6. BoundsInv'
    BY <1>0, <2>2, <2>4, RestBounds
  <2> QED BY <2>1, <2>2, <2>3, <2>5, <2>6 DEF ReadersInv
<1>4. CASE Others /\ UNCHANGED <<stateVars, contextVars>>
  <2>1. MovesForward
    BY <1>0, <1>4, SourcesMoveForward
  <2>2. BootstrapInv' /\ PackInv'
    BY <1>0, <1>4, <2>1, MovingKeepsState, MovingKeepsContext
  <2>3. p' = p /\ mark' = mark /\ c' = c /\ moment' = moment
    BY <1>4 DEF stateVars, contextVars
  <2>4. StateShape' /\ ContextOK'
    BY <1>0, <2>3 DEF StateShape, ContextOK
  <2>5. BoundsInv'
    BY <1>0, <1>4, <2>3, OthersKeepBounds
  <2> QED BY <2>2, <2>4, <2>5 DEF ReadersInv
<1> QED BY <1>1, <1>2, <1>3, <1>4
     DEF NextReaders, CheckpointsStep, BootstrapStep, ContextStep, Readers,
         OthersDuringState, OthersDuringContext

THEOREM ReadersInvariant == ReadersSpec => []ReadersInv
<1> QED BY ReadersInitially, ReadersStep, PTL DEF ReadersSpec

(* What the extractor does is the same in the behaviours of ReadersMC.     *)
LEMMA ReadersExtract == ReadersSpec => Spec
<1>1. InitReaders => Init
  BY DEF InitReaders, Init, InitIdle
<1>2. [NextReaders]_Readers => [Next]_extractionVars
  BY DEF NextReaders, CheckpointsStep, BootstrapStep, ContextStep, Readers
<1> QED BY <1>1, <1>2, PTL DEF ReadersSpec, Spec

LEMMA AtMostOne ==
  ASSUME NEW S, \A a, b \in S : a = b PROVE Cardinality(S) <= 1
<1>1. CASE S = {}
  BY <1>1, FS_EmptySet
<1>2. CASE S # {}
  <2>1. PICK a \in S : S = {a}
    BY <1>2
  <2>2. Cardinality({a}) = 1
    BY FS_Singleton
  <2> QED BY <2>1, <2>2
<1> QED BY <1>1, <1>2

(* The three programs' data are of their types, as many edits as there are:*)
(* nothing is read of a source but one value, and no head runs ahead of    *)
(* what happened to it.                                                    *)
THEOREM ReadersAlwaysTyped == ReadersSpec => []TypeOK
<1>1. ASSUME ReadersInv PROVE SourcesOK /\ StateOK /\ ContextOK
  <2>0. BootstrapInv /\ StateShape /\ BoundsInv /\ SourcesInv /\ ContextOK
    BY <1>1 DEF ReadersInv, BootstrapInv
  <2>1. ASSUME NEW t \in Tasks
        PROVE  /\ Revised(issue[t], 0) \in {Revised(f, 0) : f \in Forms}
               /\ issue[t].revision \in 0..Edits
    <3>1. issue[t] \in IssueForms
      BY <2>0 DEF SourcesInv
    <3>2. PICK f \in Forms : issue[t] = Revised(f, issue[t].revision)
      BY <3>1, RevisedIsForm
    <3>3. Revised(issue[t], 0) = Revised(f, 0)
      BY <3>2 DEF Revised
    <3>4. issue[t].revision \in Nat /\ issue[t].revision <= edits /\ edits \in 0..Edits
      BY <2>0, <3>1, RevisedIsForm DEF BoundsInv
    <3> QED BY <3>3, <3>4, EditsAssumption
  <2>2. heads \in [Repositories -> 0..(Edits + 1)]
    BY <2>0, EditsAssumption DEF SourcesInv, BoundsInv
  <2>3. SourcesOK
    BY <2>1, <2>2 DEF SourcesOK
  <2>4. \A s \in p.state : s.tasks \in [Buckets -> SUBSET Tasks]
    BY <2>0 DEF BootstrapInv, StatesInv
  <2>5. \A t \in Tasks : Cardinality(p.found[t]) <= 1 /\ Cardinality(p.expected[t]) <= 1
    BY <2>0, AtMostOne DEF StateShape
  <2>6. p.at # "generated" => p.result = {}
    BY <2>0 DEF BootstrapInv, ReadsInv
  <2>7. StateOK
    BY <2>0, <2>4, <2>5, <2>6 DEF StateShape, StateOK
  <2> QED BY <2>0, <2>3, <2>7
<1>2. SourcesOK /\ StateOK /\ ContextOK /\ ExtractionOK => TypeOK
  BY DEF TypeOK
<1> QED BY <1>1, <1>2, ReadersInvariant, ReadersExtract, ExtractionAlwaysTyped, PTL

(* The selection of a pack is the same in the behaviours of ReadersMC.     *)
LEMMA ReadersSelect == ReadersSpec => []SelectInv
<1>1. InitReaders => SelectInv
  BY SelectInitially DEF InitReaders
<1>2. [NextReaders]_Readers => ContextNext \/ UNCHANGED c
  BY DEF NextReaders, CheckpointsStep, BootstrapStep, ContextStep, Readers, contextVars,
         OthersDuringContext
<1>3. SelectInv /\ [NextReaders]_Readers => SelectInv'
  BY <1>2, SelectKept
<1> QED BY <1>1, <1>3, PTL DEF ReadersSpec

(* What was proved of the programs one by one holds of the behaviours that *)
(* the runs enumerate.                                                     *)
THEOREM ReadersAlwaysSafe ==
  ReadersSpec => [](/\ KnownWasGreen /\ RedIsNotKnown /\ NewestGreenIsFound
                    /\ GatesAreIndependent
                    /\ BootstrapIsASnapshot /\ CheckpointsKeepTheirGate
                    /\ PackIsASnapshot
                    /\ BudgetsHold /\ OptionalNeverDisplaces /\ NothingFittingIsOmitted)
<1>1. ReadersInv => /\ BootstrapIsASnapshot /\ CheckpointsKeepTheirGate
                    /\ PackIsASnapshot
  BY DEF ReadersInv, BootstrapInv, PackInv, ComparedInv, PackIsASnapshot
<1>2. SelectInv => BudgetsHold /\ OptionalNeverDisplaces /\ NothingFittingIsOmitted
  BY PacksFit, PacksPutRequiredFirst, PacksLeaveNothing
<1> QED BY <1>1, <1>2, ReadersInvariant, ReadersSelect, ReadersExtract,
           KnownAlwaysWasGreen, RedIsNeverKnown, NewestGreenIsAlwaysFound,
           GatesAlwaysIndependent, PTL
=============================================================================
