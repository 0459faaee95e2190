--------------------------- MODULE PublisherProofs ---------------------------
(***************************************************************************)
(* Theorems about Publisher, for every set of ids, branches and bodies,    *)
(* every classification of bodies and every budget.                        *)
(***************************************************************************)
EXTENDS Publisher, TLAPS, SequenceTheorems, WellFoundedInduction,
        NaturalsInduction

(* A job about to push holds a commit that it made itself.                 *)
CandidateInv ==
  \A k \in Slots :
    Phase(k) = "lease" => /\ jobs[k].cand \in DOMAIN commits
                          /\ commits[jobs[k].cand].slot = k

TypeInv == TypeOK /\ CandidateInv

-----------------------------------------------------------------------------
(* A set of comments that is not empty has an oldest one.                  *)
LEMMA OldestExists ==
  ASSUME NEW S \in SUBSET Nat, S # {}
  PROVE  (CHOOSE p \in S : \A q \in S : p <= q) \in S
<1>1. PICK p \in S : \A q \in S : ~(<<q, p>> \in OpToRel(<, Nat))
  BY WFMin, NatLessThanWellFounded, Zenon
<1>2. \A q \in S : ~(q < p)
  BY <1>1 DEF OpToRel
<1>3. \A q \in S : p <= q
  BY <1>2, SMT
<1> QED BY <1>3

(* The answer taken from earlier results is a well-formed answer.          *)
LEMMA FromPriorType ==
  ASSUME TypeOK, NEW k \in Slots, NEW prior \in SUBSET Slots, prior # {}
  PROVE  FromPrior(k, prior) \in Answer
<1>1. prior \subseteq Nat
  BY DEF TypeOK, Slots
<1> DEFINE p == CHOOSE p \in prior : \A q \in prior : p <= q
<1>2. p \in prior
  BY <1>1, OldestExists
<1>3. log[p].ans \in Answer
  <2>1. log[p] \in Comment
    BY <1>2 DEF TypeOK, Slots
  <2> QED BY <2>1 DEF Comment
<1>4. Failure("REQUEST_ID_REUSE") \in Answer
  BY DEF Failure, Answer, Codes, Commit
<1>5. [log[p].ans EXCEPT !.replay = TRUE] \in Answer
  BY <1>3 DEF Answer
<1> QED BY <1>4, <1>5 DEF FromPrior

-----------------------------------------------------------------------------
(* Steps that touch one job and nothing else but the budget.               *)

(* Only the job of comment k changes.                                      *)
OnlyJob(k) ==
  /\ jobs' \in Seq(Job)
  /\ Len(jobs') = Len(jobs)
  /\ \A i \in Slots : i # k => jobs'[i] = jobs[i]

BudgetKept == used' \in [Bounded -> Nat]

Quiet(k) ==
  /\ OnlyJob(k)
  /\ UNCHANGED <<log, repoVars>>
  /\ BudgetKept

(* Changing one entry of `jobs` to a job touches only that job.            *)
LEMMA SetJob ==
  ASSUME TypeOK, NEW k \in Slots, NEW j \in Job, jobs' = [jobs EXCEPT ![k] = j]
  PROVE  OnlyJob(k) /\ jobs'[k] = j
<1>1. jobs \in Seq(Job) /\ k \in 1 .. Len(jobs)
  BY DEF TypeOK, Slots
<1>2. /\ jobs' \in Seq(Job)
      /\ Len(jobs') = Len(jobs)
      /\ \A i \in 1 .. Len(jobs) : jobs'[i] = IF i = k THEN j ELSE jobs[i]
  BY <1>1, ExceptSeq
<1>3. Slots = 1 .. Len(jobs)
  BY DEF TypeOK, Slots
<1> QED BY <1>1, <1>2, <1>3 DEF OnlyJob

(* A job is a record of its phase, its answer, its commit and its run.     *)
LEMMA JobType ==
  ASSUME TypeOK, NEW k \in Slots
  PROVE  jobs[k] \in Job
  BY DEF TypeOK, Slots

LEMMA GotoEffect ==
  ASSUME TypeOK, NEW k \in Slots, NEW p \in Phases, Goto(k, p)
  PROVE  OnlyJob(k) /\ jobs'[k].phase = p
<1>1. [jobs[k] EXCEPT !.phase = p] \in Job
  BY JobType DEF Job
<1>2. jobs' = [jobs EXCEPT ![k] = [jobs[k] EXCEPT !.phase = p]]
  BY DEF Goto
<1>3. OnlyJob(k) /\ jobs'[k] = [jobs[k] EXCEPT !.phase = p]
  BY <1>1, <1>2, SetJob
<1> QED BY <1>3, JobType DEF Job

LEMMA ReplyEffect ==
  ASSUME TypeOK, NEW k \in Slots, NEW a \in Answer, Reply(k, a)
  PROVE  /\ OnlyJob(k)
         /\ jobs'[k].phase = "post"
         /\ jobs'[k].ans = a
<1> DEFINE j == [jobs[k] EXCEPT !.phase = "post", !.ans = a]
<1>1. j \in Job
  BY JobType DEF Job, Phases, Working
<1>2. jobs' = [jobs EXCEPT ![k] = j]
  BY DEF Reply
<1>3. OnlyJob(k) /\ jobs'[k] = j
  BY <1>1, <1>2, SetJob
<1> QED BY <1>3, JobType DEF Job

LEMMA FailureType ==
  ASSUME NEW c \in Codes
  PROVE  Failure(c) \in Answer
  BY DEF Failure, Answer, Commit

LEMMA SpendEffect ==
  ASSUME TypeOK, NEW b \in Bounded, Spend(b)
  PROVE  BudgetKept
  BY DEF TypeOK, Spend, BudgetKept

LEMMA NewJobType ==
  ASSUME NEW p \in Phases
  PROVE  NewJob(p) \in Job
  BY FailureType DEF NewJob, Job, Codes, NoAnswer, Commit

(* A quiet step takes job k from a phase of P to a phase of Q.             *)
Leads(k, P, Q) == Quiet(k) /\ Phase(k) \in P /\ jobs'[k].phase \in Q

LEMMA FindResultsType == \A id : FindResults(id) \in SUBSET Slots
  BY DEF FindResults, Scanned

LEMMA FromPriorEffect ==
  ASSUME TypeOK, NEW k \in Slots, NEW prior \in SUBSET Slots, prior # {},
         Reply(k, FromPrior(k, prior))
  PROVE  OnlyJob(k) /\ jobs'[k].phase = "post"
  BY FromPriorType, ReplyEffect

LEMMA FailureEffect ==
  ASSUME TypeOK, NEW k \in Slots, NEW c \in Codes, Reply(k, Failure(c))
  PROVE  OnlyJob(k) /\ jobs'[k].phase = "post"
  BY FailureType, ReplyEffect

LEMMA UsedKept ==
  ASSUME TypeOK, UNCHANGED used
  PROVE  BudgetKept
  BY DEF TypeOK, BudgetKept

(* What each step that touches only its own job does to that job.          *)
LEMMA QuietSteps ==
  ASSUME TypeOK, NEW k \in Slots
  PROVE  /\ Ignore(k) => Leads(k, {"posted"}, {"ignored"})
         /\ Rerun(k) => Leads(k, {"done", "dead", "cancelled"}, {"posted"})
         /\ Crash(k) => Leads(k, Working, {"dead"})
         /\ Start(k) => Leads(k, {"pending"}, {"post", "lookup"})
         /\ LookupPrior(k) => Leads(k, {"lookup"}, {"post", "collide"})
         /\ CheckCollision(k) => Leads(k, {"collide"}, {"post", "recheck"})
         /\ LookupLocked(k) => Leads(k, {"recheck"}, {"post", "task"})
         /\ CheckTask(k) => Leads(k, {"task"}, {"post", "head"})
         /\ CheckHead(k) => Leads(k, {"head"}, {"post", "build"})
         /\ PushRefused(k) => Leads(k, {"lease"}, {"explain"})
         /\ PushFailed(k) => Leads(k, {"lease"}, {"explain"})
         /\ ExplainFailedPush(k) => Leads(k, {"explain"}, {"post"})
         /\ DispatchFailed(k) => Leads(k, {"dispatch", "confirm"}, {"post"})
         /\ ConfirmRun(k) => Leads(k, {"confirm"}, {"post"})
         /\ ApiFailure(k) =>
              Leads(k, {"task", "head", "build", "explain"}, {"post"})
<1> USE DEF Leads, Quiet
<1>1. Ignore(k) => Leads(k, {"posted"}, {"ignored"})
  BY GotoEffect, UsedKept DEF Ignore, Phases
<1>2. Rerun(k) => Leads(k, {"done", "dead", "cancelled"}, {"posted"})
  <2>1. NewJob("posted") \in Job /\ NewJob("posted").phase = "posted"
    BY NewJobType DEF Phases, NewJob
  <2> QED BY <2>1, SetJob, SpendEffect DEF Rerun, Bounded
<1>3. Crash(k) => Leads(k, Working, {"dead"})
  BY GotoEffect, SpendEffect DEF Crash, Phases, Bounded
<1>4. Start(k) => Leads(k, {"pending"}, {"post", "lookup"})
  <2> SUFFICES ASSUME Start(k) PROVE Leads(k, {"pending"}, {"post", "lookup"})
    OBVIOUS
  <2>1. CASE Reply(k, Failure("INVALID_SCHEMA"))
    BY <2>1, FailureEffect, UsedKept DEF Start, Codes
  <2>2. CASE Reply(k, Failure("BRANCH_TASK_MISMATCH"))
    BY <2>2, FailureEffect, UsedKept DEF Start, Codes
  <2>3. CASE Goto(k, "lookup")
    BY <2>3, GotoEffect, UsedKept DEF Start, Phases, Working
  <2> QED BY <2>1, <2>2, <2>3 DEF Start
<1>5. LookupPrior(k) => Leads(k, {"lookup"}, {"post", "collide"})
  BY FromPriorEffect, FindResultsType, GotoEffect, UsedKept
  DEF LookupPrior, Phases, Working
<1>6. CheckCollision(k) => Leads(k, {"collide"}, {"post", "recheck"})
  BY FailureEffect, GotoEffect, UsedKept
  DEF CheckCollision, Phases, Working, Codes
<1>7. LookupLocked(k) => Leads(k, {"recheck"}, {"post", "task"})
  BY FromPriorEffect, FindResultsType, GotoEffect, UsedKept
  DEF LookupLocked, Phases, Working
<1>8. CheckTask(k) => Leads(k, {"task"}, {"post", "head"})
  BY FailureEffect, GotoEffect, UsedKept DEF CheckTask, Phases, Working, Codes
<1>9. CheckHead(k) => Leads(k, {"head"}, {"post", "build"})
  BY FailureEffect, GotoEffect, UsedKept DEF CheckHead, Phases, Working, Codes
<1>10. PushRefused(k) => Leads(k, {"lease"}, {"explain"})
  BY GotoEffect, UsedKept DEF PushRefused, Phases, Working
<1>11. PushFailed(k) => Leads(k, {"lease"}, {"explain"})
  BY GotoEffect, SpendEffect DEF PushFailed, Phases, Working, Bounded
<1>12. ExplainFailedPush(k) => Leads(k, {"explain"}, {"post"})
  BY FailureEffect, UsedKept DEF ExplainFailedPush, Codes
<1>13. DispatchFailed(k) => Leads(k, {"dispatch", "confirm"}, {"post"})
  BY FailureEffect, SpendEffect DEF DispatchFailed, Codes, Bounded
<1>14. ConfirmRun(k) => Leads(k, {"confirm"}, {"post"})
  <2> DEFINE a == [code |-> "OK", head |-> jobs[k].cand,
                   run |-> jobs[k].run, replay |-> FALSE]
  <2>1. a \in Answer
    BY JobType DEF Answer, Codes, Job
  <2> QED BY <2>1, ReplyEffect, FailureEffect, UsedKept DEF ConfirmRun, Codes
<1>15. ApiFailure(k) =>
         Leads(k, {"task", "head", "build", "explain"}, {"post"})
  BY FailureEffect, SpendEffect DEF ApiFailure, Codes, Bounded
<1> QED
  BY <1>1, <1>2, <1>3, <1>4, <1>5, <1>6, <1>7, <1>8, <1>9, <1>10, <1>11,
     <1>12, <1>13, <1>14, <1>15

-----------------------------------------------------------------------------
(* Type correctness.                                                       *)

(* A quiet step leaves the types right, and no new job ready to push.      *)
LEMMA QuietKeepsTypes ==
  ASSUME TypeInv, NEW k \in Slots, Quiet(k), jobs'[k].phase # "lease"
  PROVE  TypeInv'
<1>1. TypeOK'
  BY DEF TypeInv, TypeOK, Quiet, OnlyJob, BudgetKept, repoVars
<1>2. CandidateInv'
  BY DEF TypeInv, CandidateInv, Quiet, OnlyJob, repoVars, Slots, Phase
<1> QED BY <1>1, <1>2 DEF TypeInv

LEMMA LeadsKeepsTypes ==
  ASSUME TypeInv, NEW k \in Slots, NEW P, NEW Q, "lease" \notin Q,
         Leads(k, P, Q)
  PROVE  TypeInv'
  BY QuietKeepsTypes DEF Leads

LEMMA PostKeepsTypes ==
  ASSUME TypeInv, NEW author \in {"owner", "other"}, NEW r \in Request,
         Post(author, r)
  PROVE  TypeInv'
<1> DEFINE c == [author |-> author, req |-> r, ans |-> NoAnswer]
           j == NewJob("posted")
<1>1. c \in Comment
  BY FailureType DEF Comment, NoAnswer, Codes
<1>2. j \in Job /\ j.phase = "posted"
  BY NewJobType DEF Phases, NewJob
<1>3. log \in Seq(Comment) /\ jobs \in Seq(Job) /\ Len(jobs) = Len(log)
  BY DEF TypeInv, TypeOK
<1>4. log' = Append(log, c) /\ jobs' = Append(jobs, j)
  BY DEF Post
<1>5. /\ log' \in Seq(Comment) /\ Len(log') = Len(log) + 1
      /\ jobs' \in Seq(Job) /\ Len(jobs') = Len(jobs) + 1
  BY <1>1, <1>2, <1>3, <1>4, AppendProperties
<1>6. BudgetKept
  BY SpendEffect DEF Post, Bounded, TypeInv
<1>7. TypeOK'
  BY <1>3, <1>5, <1>6 DEF TypeInv, TypeOK, Post, repoVars, BudgetKept
<1>8. /\ \A i \in Slots : jobs'[i] = jobs[i]
      /\ Slots' = Slots \cup {Len(log) + 1}
      /\ jobs'[Len(log) + 1] = j
  BY <1>1, <1>2, <1>3, <1>4, <1>5, AppendProperties DEF Slots
<1>9. CandidateInv'
  BY <1>2, <1>8 DEF TypeInv, CandidateInv, Post, repoVars, Phase
<1> QED BY <1>7, <1>9 DEF TypeInv

LEMMA PublishKeepsTypes ==
  ASSUME TypeInv, NEW k \in Slots, NEW p \in {"done", "dead"}, Publish(k, p),
         BudgetKept
  PROVE  TypeInv'
<1> DEFINE c == [author |-> "bot", req |-> Req(k), ans |-> jobs[k].ans]
           f == [jobs EXCEPT ![k].phase = p]
           j == NewJob("none")
<1>1. log \in Seq(Comment) /\ jobs \in Seq(Job) /\ Len(jobs) = Len(log)
  BY DEF TypeInv, TypeOK
<1>2. log[k] \in Comment /\ jobs[k] \in Job
  BY <1>1 DEF Slots
<1>3. c \in Comment
  BY <1>2 DEF Comment, Job, Req
<1>4. j \in Job /\ j.phase = "none"
  BY NewJobType DEF Phases, NewJob
<1>5. [jobs[k] EXCEPT !.phase = p] \in Job
  BY <1>2 DEF Job, Phases
<1>6. /\ f \in Seq(Job) /\ Len(f) = Len(jobs)
      /\ \A i \in Slots : f[i] = IF i = k THEN [jobs[k] EXCEPT !.phase = p]
                                          ELSE jobs[i]
  BY <1>1, <1>5, ExceptSeq DEF Slots
<1>7. log' = Append(log, c) /\ jobs' = Append(f, j)
  BY DEF Publish
<1>8. /\ log' \in Seq(Comment) /\ Len(log') = Len(log) + 1
      /\ jobs' \in Seq(Job) /\ Len(jobs') = Len(jobs) + 1
  BY <1>1, <1>3, <1>4, <1>6, <1>7, AppendProperties
<1>9. TypeOK'
  BY <1>1, <1>8 DEF TypeInv, TypeOK, Publish, repoVars, BudgetKept
<1>10. /\ \A i \in Slots : jobs'[i] = f[i]
       /\ Slots' = Slots \cup {Len(log) + 1}
       /\ jobs'[Len(log) + 1] = j
  BY <1>1, <1>3, <1>4, <1>6, <1>7, <1>8, AppendProperties DEF Slots
<1>11. jobs'[k].phase = p
  BY <1>2, <1>6, <1>10 DEF Job
<1>12. CandidateInv'
  <2> SUFFICES ASSUME NEW i \in Slots', jobs'[i].phase = "lease"
               PROVE  /\ jobs'[i].cand \in DOMAIN commits'
                      /\ commits'[jobs'[i].cand].slot = i
    BY DEF CandidateInv, Phase
  <2>1. i \in Slots /\ i # k
    BY <1>4, <1>10, <1>11
  <2>2. jobs'[i] = jobs[i]
    BY <2>1, <1>6, <1>10
  <2> QED
    BY <2>1, <2>2 DEF TypeInv, CandidateInv, Publish, repoVars, Phase
<1> QED BY <1>9, <1>12 DEF TypeInv

LEMMA EnqueueKeepsTypes ==
  ASSUME TypeInv, NEW k \in Slots, Enqueue(k)
  PROVE  TypeInv'
<1> DEFINE q(i) == IF i = k THEN [jobs[i] EXCEPT !.phase = "pending"]
                   ELSE IF Phase(i) = "pending" /\ SameGroup(i, k)
                        THEN [jobs[i] EXCEPT !.phase = "cancelled"]
                        ELSE jobs[i]
<1>1. log \in Seq(Comment) /\ jobs \in Seq(Job) /\ Len(jobs) = Len(log)
  BY DEF TypeInv, TypeOK
<1>2. \A i \in Slots : jobs[i] \in Job
  BY <1>1 DEF Slots
<1>3. \A i \in Slots : q(i) \in Job
  BY <1>2 DEF Job, Phases
<1>4. jobs' = [i \in 1 .. Len(log) |-> q(i)]
  BY <1>1 DEF Enqueue, Slots
<1>5. jobs' \in Seq(Job) /\ Len(jobs') = Len(log)
  <2>1. \A i \in 1 .. Len(log) : q(i) \in Job
    BY <1>1, <1>3 DEF Slots
  <2>2. Len(log) \in Nat
    BY <1>1
  <2> HIDE DEF q
  <2> QED BY <1>4, <2>1, <2>2, SMT
<1>6. TypeOK'
  BY <1>1, <1>5 DEF TypeInv, TypeOK, Enqueue, repoVars
<1>7. CandidateInv'
  <2> SUFFICES ASSUME NEW i \in Slots', jobs'[i].phase = "lease"
               PROVE  /\ jobs'[i].cand \in DOMAIN commits'
                      /\ commits'[jobs'[i].cand].slot = i
    BY DEF CandidateInv, Phase
  <2>1. i \in Slots /\ jobs'[i] = q(i)
    BY <1>1, <1>4 DEF Enqueue, Slots
  <2>2. jobs'[i] = jobs[i]
    BY <2>1, <1>2 DEF Job
  <2> QED
    BY <2>1, <2>2 DEF TypeInv, CandidateInv, Enqueue, repoVars, Phase
<1> QED BY <1>6, <1>7 DEF TypeInv

(* Adding a commit leaves every earlier one in place.                      *)
LEMMA CommitAdded ==
  ASSUME TypeOK, NEW s \in Nat, NEW b \in Branches,
         NEW p \in 0 .. Len(commits),
         commits' = Append(commits, [slot |-> s, branch |-> b, parent |-> p])
  PROVE  /\ commits' \in Seq(CommitRecord)
         /\ Len(commits') = Len(commits) + 1
         /\ \A c \in DOMAIN commits : commits'[c] = commits[c]
         /\ commits'[Len(commits')].slot = s
         /\ commits'[Len(commits')].parent = p
         /\ DOMAIN commits' = DOMAIN commits \cup {Len(commits')}
         /\ \A c \in DOMAIN commits' : commits'[c].parent < c
<1> DEFINE r == [slot |-> s, branch |-> b, parent |-> p]
<1>1. commits \in Seq(CommitRecord) /\ r \in CommitRecord
  BY DEF TypeOK, CommitRecord, Commit
<1>2. /\ commits' \in Seq(CommitRecord)
      /\ Len(commits') = Len(commits) + 1
      /\ \A c \in 1 .. Len(commits) : commits'[c] = commits[c]
      /\ commits'[Len(commits) + 1] = r
  BY <1>1, AppendProperties
<1>3. DOMAIN commits' = DOMAIN commits \cup {Len(commits')}
  BY <1>1, <1>2
<1>4. \A c \in DOMAIN commits' : commits'[c].parent < c
  BY <1>1, <1>2, <1>3 DEF TypeOK
<1> QED BY <1>1, <1>2, <1>3, <1>4

LEMMA BranchStepKeepsTypes ==
  ASSUME TypeInv, NEW b \in Branches, BranchStep(b)
  PROVE  TypeInv'
<1>1. CASE OwnerPush(b)
  <2>1. ref[b] \in 0 .. Len(commits) /\ commits \in Seq(CommitRecord)
    BY DEF TypeInv, TypeOK
  <2>2. /\ commits' \in Seq(CommitRecord)
        /\ Len(commits') = Len(commits) + 1
        /\ \A c \in DOMAIN commits : commits'[c] = commits[c]
        /\ DOMAIN commits' = DOMAIN commits \cup {Len(commits')}
        /\ \A c \in DOMAIN commits' : commits'[c].parent < c
    BY <1>1, <2>1, CommitAdded DEF OwnerPush, TypeInv
  <2>3. BudgetKept
    BY <1>1, SpendEffect DEF OwnerPush, Bounded, TypeInv
  <2>4. Len(commits) \in Nat
    BY <2>1
  <2>5. /\ ref' \in [Branches -> 0 .. Len(commits')]
        /\ rest' \in [Branches -> 0 .. Len(commits')]
    BY <1>1, <2>2, <2>4 DEF OwnerPush, TypeInv, TypeOK
  <2>6. TypeOK'
    BY <1>1, <2>2, <2>3, <2>5 DEF OwnerPush, TypeInv, TypeOK, BudgetKept
  <2>7. CandidateInv'
    BY <1>1, <2>2 DEF OwnerPush, TypeInv, CandidateInv, Slots, Phase
  <2> QED BY <2>6, <2>7 DEF TypeInv
<1>2. CASE Rewind(b)
  <2>1. commits[ref[b]].parent \in 0 .. Len(commits)
    <3>1. ref[b] \in 1 .. Len(commits) /\ commits \in Seq(CommitRecord)
      BY <1>2 DEF Rewind, TypeInv, TypeOK
    <3>2. commits[ref[b]] \in CommitRecord
      BY <3>1
    <3>3. commits[ref[b]].parent \in Nat
      BY <3>2 DEF CommitRecord, Commit
    <3>4. commits[ref[b]].parent < ref[b]
      BY <3>1 DEF TypeInv, TypeOK
    <3> QED BY <3>1, <3>3, <3>4
  <2>2. BudgetKept
    BY <1>2, SpendEffect DEF Rewind, Bounded, TypeInv
  <2>3. TypeOK'
    BY <1>2, <2>1, <2>2 DEF Rewind, TypeInv, TypeOK, BudgetKept
  <2> QED
    BY <1>2, <2>3 DEF Rewind, TypeInv, CandidateInv, Slots, Phase
<1>3. CASE Release(b)
  <2>1. BudgetKept
    BY <1>3, SpendEffect DEF Release, Bounded, TypeInv
  <2>2. TypeOK'
    BY <1>3, <2>1 DEF Release, TypeInv, TypeOK, BudgetKept
  <2> QED
    BY <1>3, <2>2 DEF Release, TypeInv, CandidateInv, Slots, Phase
<1>4. CASE CatchUp(b)
  <2>1. TypeOK'
    BY <1>4 DEF CatchUp, TypeInv, TypeOK
  <2> QED
    BY <1>4, <2>1 DEF CatchUp, TypeInv, CandidateInv, Slots, Phase
<1> QED BY <1>1, <1>2, <1>3, <1>4 DEF BranchStep

LEMMA BuildKeepsTypes ==
  ASSUME TypeInv, NEW k \in Slots, BuildCandidate(k)
  PROVE  TypeInv'
<1>1. /\ log \in Seq(Comment) /\ log[k] \in Comment
      /\ commits \in Seq(CommitRecord) /\ Len(commits) \in Nat
      /\ k \in Nat
  BY DEF TypeInv, TypeOK, Slots
<1>2. CASE ref[Branch(k)] # Req(k).base
  <2>1. Leads(k, {"build"}, {"post"})
    BY <1>2, FailureEffect, UsedKept
    DEF BuildCandidate, TypeInv, Codes, Leads, Quiet, repoVars
  <2> QED BY <2>1, LeadsKeepsTypes
<1>3. CASE ref[Branch(k)] = Req(k).base
  <2> DEFINE j == [jobs[k] EXCEPT !.phase = "lease", !.cand = Len(commits')]
  <2>1. Branch(k) \in Branches /\ Req(k).base \in 0 .. Len(commits)
    BY <1>1, <1>3 DEF Comment, Request, Req, Branch, TypeInv, TypeOK
  <2>2. commits' = Append(commits, [slot |-> k, branch |-> Branch(k),
                                    parent |-> Req(k).base])
    BY <1>3 DEF BuildCandidate
  <2>3. /\ commits' \in Seq(CommitRecord)
        /\ Len(commits') = Len(commits) + 1
        /\ \A c \in DOMAIN commits : commits'[c] = commits[c]
        /\ commits'[Len(commits')].slot = k
        /\ DOMAIN commits' = DOMAIN commits \cup {Len(commits')}
        /\ \A c \in DOMAIN commits' : commits'[c].parent < c
    BY <1>1, <2>1, <2>2, CommitAdded DEF TypeInv
  <2>4. j \in Job /\ j.cand = Len(commits')
    <3>1. Len(commits') \in Nat
      BY <1>1, <2>3
    <3>2. jobs[k] \in Job
      BY JobType DEF TypeInv
    <3> QED BY <3>1, <3>2 DEF Job, Phases, Working, Commit
  <2>5. jobs' = [jobs EXCEPT ![k] = j]
    BY <1>3 DEF BuildCandidate
  <2>6. OnlyJob(k) /\ jobs'[k] = j
    BY <2>4, <2>5, SetJob DEF TypeInv
  <2>7. /\ ref' \in [Branches -> 0 .. Len(commits')]
        /\ rest' \in [Branches -> 0 .. Len(commits')]
    BY <1>1, <2>3 DEF BuildCandidate, TypeInv, TypeOK
  <2>8. TypeOK'
    BY <2>3, <2>6, <2>7 DEF BuildCandidate, TypeInv, TypeOK, OnlyJob
  <2>9. CandidateInv'
    <3> SUFFICES ASSUME NEW i \in Slots', jobs'[i].phase = "lease"
                 PROVE  /\ jobs'[i].cand \in DOMAIN commits'
                        /\ commits'[jobs'[i].cand].slot = i
      BY DEF CandidateInv, Phase
    <3>1. i \in Slots
      BY DEF BuildCandidate, Slots
    <3>2. CASE i = k
      BY <3>2, <2>3, <2>4, <2>6
    <3>3. CASE i # k
      <4>1. jobs'[i] = jobs[i]
        BY <3>1, <3>3, <2>6 DEF OnlyJob
      <4>2. /\ jobs[i].cand \in DOMAIN commits
            /\ commits[jobs[i].cand].slot = i
        BY <3>1, <4>1 DEF TypeInv, CandidateInv, Phase
      <4> QED BY <4>1, <4>2, <2>3
    <3> QED BY <3>2, <3>3
  <2> QED BY <2>8, <2>9 DEF TypeInv
<1> QED BY <1>2, <1>3

LEMMA PushKeepsTypes ==
  ASSUME TypeInv, NEW k \in Slots, Phase(k) = "lease", Install(k),
         NEW p \in {"dispatch", "explain"}, Goto(k, p), BudgetKept
  PROVE  TypeInv'
<1>1. jobs[k].cand \in DOMAIN commits
  BY DEF TypeInv, CandidateInv
<1>2. OnlyJob(k) /\ jobs'[k].phase = p
  BY GotoEffect DEF TypeInv, Phases, Working
<1>3. ref' \in [Branches -> 0 .. Len(commits)]
  <2>1. /\ commits \in Seq(CommitRecord)
        /\ ref \in [Branches -> 0 .. Len(commits)]
    BY DEF TypeInv, TypeOK
  <2>2. jobs[k].cand \in 0 .. Len(commits)
    BY <1>1, <2>1
  <2>3. ref' = [ref EXCEPT ![Branch(k)] = jobs[k].cand]
    BY DEF Install
  <2> QED BY <2>1, <2>2, <2>3
<1>4. TypeOK'
  BY <1>1, <1>2, <1>3 DEF TypeInv, TypeOK, Install, OnlyJob, BudgetKept
<1>5. CandidateInv'
  BY <1>2 DEF TypeInv, CandidateInv, Install, OnlyJob, Slots, Phase
<1> QED BY <1>4, <1>5 DEF TypeInv

LEMMA DispatchKeepsTypes ==
  ASSUME TypeInv, NEW k \in Slots, DispatchCI(k)
  PROVE  TypeInv'
<1>1. /\ log[k] \in Comment /\ jobs[k] \in Job
      /\ runs \in Seq(Run) /\ Len(runs) \in Nat
  BY DEF TypeInv, TypeOK, Slots
<1>2. PICK h \in {ref[Branch(k)], rest[Branch(k)]} :
        runs' = Append(runs, [head |-> h, claims |-> jobs[k].cand])
  BY DEF DispatchCI
<1>3. h \in Nat
  BY <1>1 DEF Comment, Request, Req, Branch, TypeInv, TypeOK
<1>4. runs' \in Seq(Run) /\ Len(runs') \in Nat
  BY <1>1, <1>2, <1>3 DEF Run, Job, Commit
<1> DEFINE j == [jobs[k] EXCEPT !.phase = "confirm", !.run = Len(runs')]
<1>5. j \in Job /\ j.phase = "confirm"
  BY <1>1, <1>4 DEF Job, Phases, Working
<1>6. jobs' = [jobs EXCEPT ![k] = j]
  BY DEF DispatchCI
<1>7. OnlyJob(k) /\ jobs'[k] = j
  BY <1>5, <1>6, SetJob DEF TypeInv
<1>8. TypeOK'
  BY <1>4, <1>7 DEF TypeInv, TypeOK, DispatchCI, OnlyJob
<1>9. CandidateInv'
  BY <1>5, <1>7 DEF TypeInv, CandidateInv, DispatchCI, OnlyJob, Slots, Phase
<1> QED BY <1>8, <1>9 DEF TypeInv

(* A proposed request is a request: new ones are drawn from Request, and   *)
(* the others were posted before.                                          *)
LEMMA ProposalsType ==
  ASSUME TypeOK
  PROVE  Proposals \subseteq Request
<1>1. \A k \in Slots : Req(k) \in Request
  <2>1. \A k \in Slots : log[k] \in Comment
    BY DEF TypeOK, Slots
  <2> QED BY <2>1 DEF Comment, Req
<1>2. 0 .. Len(commits) \subseteq Nat
  BY DEF TypeOK
<1> QED BY <1>1, <1>2 DEF Proposals, Request, Commit

(* No step of a job breaks the types.                                      *)
LEMMA JobKeepsTypes ==
  ASSUME TypeInv, NEW k \in Slots,
         Preflight(k) \/ Rerun(k) \/ JobStep(k) \/ Fault(k)
  PROVE  TypeInv'
<1>1. TypeOK
  BY DEF TypeInv
<1>2. CASE Enqueue(k)
  BY <1>2, EnqueueKeepsTypes
<1>3. CASE BuildCandidate(k)
  BY <1>3, BuildKeepsTypes
<1>4. CASE PushAccepted(k)
  BY <1>1, <1>4, PushKeepsTypes, UsedKept DEF PushAccepted
<1>5. CASE PushUnacknowledged(k)
  BY <1>1, <1>5, PushKeepsTypes, SpendEffect DEF PushUnacknowledged, Bounded
<1>6. CASE DispatchCI(k)
  BY <1>6, DispatchKeepsTypes
<1>7. CASE PostResult(k)
  BY <1>1, <1>7, PublishKeepsTypes, UsedKept DEF PostResult
<1>8. CASE PostUnacknowledged(k)
  BY <1>1, <1>8, PublishKeepsTypes, SpendEffect DEF PostUnacknowledged, Bounded
<1>9. CASE ~(Enqueue(k) \/ BuildCandidate(k) \/ PushAccepted(k)
             \/ PushUnacknowledged(k) \/ DispatchCI(k)
             \/ PostResult(k) \/ PostUnacknowledged(k))
  <2>1. \E P, Q : "lease" \notin Q /\ Leads(k, P, Q)
    BY <1>1, <1>9, QuietSteps, Zenon DEF Preflight, JobStep, Fault
  <2> QED BY <2>1, LeadsKeepsTypes
<1> QED BY <1>2, <1>3, <1>4, <1>5, <1>6, <1>7, <1>8, <1>9

LEMMA InitTypes == Init => TypeInv
<1> SUFFICES ASSUME Init PROVE TypeInv
  OBVIOUS
<1>1. TypeOK
  BY DEF Init, TypeOK, Bounded
<1>2. CandidateInv
  BY DEF Init, CandidateInv, Slots
<1> QED BY <1>1, <1>2 DEF TypeInv

LEMMA NextKeepsTypes == TypeInv /\ [Next]_vars => TypeInv'
<1> SUFFICES ASSUME TypeInv, [Next]_vars PROVE TypeInv'
  OBVIOUS
<1>1. CASE UNCHANGED vars
  BY <1>1 DEF vars, TypeInv, TypeOK, CandidateInv, Slots, Phase
<1>2. ASSUME NEW author \in {"owner", "other"}, NEW r \in Proposals,
             Post(author, r)
      PROVE  TypeInv'
  BY <1>2, PostKeepsTypes, ProposalsType DEF TypeInv
<1>3. ASSUME NEW k \in Slots,
             Preflight(k) \/ Rerun(k) \/ JobStep(k) \/ Fault(k)
      PROVE  TypeInv'
  BY <1>3, JobKeepsTypes
<1>4. ASSUME NEW b \in Branches, BranchStep(b) PROVE TypeInv'
  BY <1>4, BranchStepKeepsTypes
<1> QED BY <1>1, <1>2, <1>3, <1>4 DEF Next

(* Type correctness: no sequence of deliveries, reruns, faults and foreign *)
(* pushes leaves a job, a branch or a comment in a shape the code does not *)
(* expect, and a job about to push always holds a commit of its own.       *)
THEOREM TypesAlwaysRight == Spec => [](TypeOK /\ CandidateInv)
<1>1. Spec => []TypeInv
  BY InitTypes, NextKeepsTypes, PTL DEF Spec
<1> QED BY <1>1, PTL DEF TypeInv

-----------------------------------------------------------------------------
(* One request per request id.                                             *)

(* A job past the collision check may still push, and one that has made a  *)
(* commit may have pushed it: together, the jobs admitted to their branch. *)
AdmittedPhases == {"recheck", "task", "head", "build", "lease"}

Admitted(k) ==
  \/ Phase(k) \in AdmittedPhases
  \/ \E c \in DOMAIN commits : commits[c].slot = k

(* What handle_event has seen of a comment when it starts its lookups.     *)
Readable(k) == log[k].author = "owner" /\ Class(k) # "malformed"

Screened(k) ==
  /\ Phase(k) = "pending" => log[k].author = "owner"
  /\ Phase(k) \in {"lookup", "collide"} \/ Admitted(k) => Readable(k)

CommitsHaveJobs ==
  /\ \A c \in DOMAIN commits : commits[c].slot \in 0 .. Len(log)
  /\ \A c \in installed : commits[c].slot \in Slots

(* The listing an admitted job read held every request that was admitted   *)
(* before it, so that admitted jobs of one id carry one request.           *)
AdmittedAgree ==
  \A j, k \in Slots :
    Admitted(j) /\ Admitted(k) /\ Req(j).id = Req(k).id => Req(j) = Req(k)

IdInv ==
  /\ CommitsHaveJobs
  /\ \A k \in Slots : Screened(k)
  /\ AdmittedAgree

(* No listing has been cut off yet.                                        *)
AllScanned == Len(log) <= ScanLimit

(* A step that admits nobody and keeps the comments keeps the invariant.   *)
LEMMA NobodyAdmitted ==
  ASSUME IdInv,
         Slots \subseteq Slots',
         \A i \in Slots : log'[i] = log[i],
         CommitsHaveJobs',
         \A i \in Slots' : Admitted(i)' => i \in Slots /\ Admitted(i),
         \A i \in Slots' : Screened(i)'
  PROVE  IdInv'
<1>1. AdmittedAgree'
  <2> SUFFICES ASSUME NEW j \in Slots', NEW k \in Slots',
                      Admitted(j)', Admitted(k)', Req(j)'.id = Req(k)'.id
               PROVE  Req(j)' = Req(k)'
    BY DEF AdmittedAgree
  <2>1. /\ j \in Slots /\ k \in Slots
        /\ Admitted(j) /\ Admitted(k)
    OBVIOUS
  <2>2. Req(j)' = Req(j) /\ Req(k)' = Req(k)
    BY <2>1 DEF Req
  <2> QED BY <2>1, <2>2 DEF IdInv, AdmittedAgree
<1> QED BY <1>1 DEF IdInv

(* Nor does a quiet step whose job was admitted, or read, before it.       *)
LEMMA LeadsKeepsIds ==
  ASSUME TypeOK, IdInv, NEW k \in Slots, NEW P, NEW Q, Leads(k, P, Q),
         "pending" \notin Q,
         Q \cap AdmittedPhases # {} => P \subseteq AdmittedPhases,
         Q \cap {"lookup", "collide"} # {} => Readable(k)
  PROVE  IdInv'
<1>1. /\ UNCHANGED <<log, commits, installed>>
      /\ Slots' = Slots
      /\ \A i \in Slots : i # k => jobs'[i] = jobs[i]
      /\ Phase(k) \in P /\ jobs'[k].phase \in Q
  BY DEF Leads, Quiet, OnlyJob, repoVars, Slots
<1>2. CommitsHaveJobs'
  BY <1>1 DEF IdInv, CommitsHaveJobs
<1>3. ASSUME NEW i \in Slots, Admitted(i)' PROVE Admitted(i)
  <2>1. CASE i = k
    BY <1>1, <1>3, <2>1 DEF Admitted, Phase
  <2>2. CASE i # k
    BY <1>1, <1>3, <2>2 DEF Admitted, Phase
  <2> QED BY <2>1, <2>2
<1>4. ASSUME NEW i \in Slots PROVE Screened(i)'
  <2>1. Readable(i)' = Readable(i) /\ log'[i] = log[i]
    BY <1>1 DEF Readable, Class, Req
  <2>2. Screened(i)
    BY DEF IdInv
  <2>3. CASE i = k
    BY <1>1, <1>3, <2>1, <2>2, <2>3 DEF Screened, Phase
  <2>4. CASE i # k
    BY <1>1, <1>3, <2>1, <2>2, <2>4 DEF Screened, Phase
  <2> QED BY <2>3, <2>4
<1> QED BY <1>1, <1>2, <1>3, <1>4, NobodyAdmitted

(* The step that admits a job: the check saw every admitted comment.       *)
LEMMA CollisionKeepsIds ==
  ASSUME TypeOK, IdInv, AllScanned, NEW k \in Slots, CheckCollision(k)
  PROVE  IdInv'
<1>1. Leads(k, {"collide"}, {"post", "recheck"})
  BY QuietSteps
<1>2. CASE jobs'[k].phase = "post"
  <2>1. Leads(k, {"collide"}, {"post"})
    BY <1>1, <1>2 DEF Leads
  <2> QED BY <2>1, LeadsKeepsIds DEF AdmittedPhases
<1>3. CASE jobs'[k].phase = "recheck"
  <2>1. /\ UNCHANGED <<log, commits, installed>>
        /\ Slots' = Slots
        /\ \A i \in Slots : i # k => jobs'[i] = jobs[i]
        /\ Phase(k) = "collide"
    BY <1>1 DEF Leads, Quiet, OnlyJob, repoVars, Slots
  <2>2. \A q \in FindRequests(Req(k).id) : Req(q) = Req(k)
    <3> SUFFICES ASSUME \E q \in FindRequests(Req(k).id) : Req(q) # Req(k)
                 PROVE  FALSE
      OBVIOUS
    <3>1. jobs'[k].phase = "post"
      BY FailureEffect DEF CheckCollision, Codes
    <3> QED BY <3>1, <1>3
  <2>3. \A i \in Slots : Readable(i) /\ Req(i).id = Req(k).id
                         => Req(i) = Req(k)
    <3>1. Scanned = Slots
      BY ScanAssumption DEF Scanned, AllScanned, Slots, TypeOK
    <3> QED BY <3>1, <2>2 DEF FindRequests, Readable
  <2>4. \A i \in Slots : Screened(i)
    BY DEF IdInv
  <2>5. Readable(k)
    BY <2>1, <2>4 DEF Screened
  <2>6. ASSUME NEW i \in Slots PROVE Screened(i)'
    <3>1. Readable(i)' = Readable(i) /\ log'[i] = log[i]
      BY <2>1 DEF Readable, Class, Req
    <3>2. CASE i = k
      BY <1>3, <2>5, <3>1, <3>2 DEF Screened, Phase
    <3>3. CASE i # k
      BY <2>1, <2>4, <3>1, <3>3 DEF Screened, Admitted, Phase
    <3> QED BY <3>2, <3>3
  <2>7. AdmittedAgree'
    <3> SUFFICES ASSUME NEW i \in Slots, NEW j \in Slots,
                        Admitted(i)', Admitted(j)', Req(i).id = Req(j).id
                 PROVE  Req(i) = Req(j)
      BY <2>1 DEF AdmittedAgree, Req
    <3>1. Readable(i) /\ Readable(j)
      <4>1. Screened(i)' /\ Screened(j)'
        BY <2>6
      <4> QED BY <4>1, <2>1 DEF Screened, Readable, Class, Req
    <3>2. CASE i = k \/ j = k
      BY <3>1, <3>2, <2>3
    <3>3. CASE i # k /\ j # k
      <4>1. Admitted(i) /\ Admitted(j)
        BY <3>3, <2>1 DEF Admitted, Phase
      <4> QED BY <4>1 DEF IdInv, AdmittedAgree
    <3> QED BY <3>2, <3>3
  <2>8. CommitsHaveJobs'
    BY <2>1 DEF IdInv, CommitsHaveJobs
  <2> QED BY <2>1, <2>6, <2>7, <2>8 DEF IdInv
<1> QED BY <1>1, <1>2, <1>3 DEF Leads

LEMMA StartKeepsIds ==
  ASSUME TypeOK, IdInv, NEW k \in Slots, Start(k)
  PROVE  IdInv'
<1>1. Leads(k, {"pending"}, {"post", "lookup"})
  BY QuietSteps
<1>2. CASE Class(k) = "malformed"
  <2>1. jobs'[k].phase = "post"
    BY <1>2, FailureEffect DEF Start, Codes
  <2>2. Leads(k, {"pending"}, {"post"})
    BY <1>1, <2>1 DEF Leads
  <2> QED BY <2>2, LeadsKeepsIds DEF AdmittedPhases
<1>3. CASE Class(k) # "malformed"
  <2>1. Readable(k)
    BY <1>1, <1>3 DEF IdInv, Screened, Readable, Leads
  <2> QED BY <1>1, <2>1, LeadsKeepsIds DEF AdmittedPhases
<1> QED BY <1>2, <1>3

(* A longer log with nothing else changed for the comments it had.         *)
LEMMA LogGrowsKeepsIds ==
  ASSUME TypeOK, IdInv,
         NEW c, log' = Append(log, c),
         UNCHANGED <<commits, installed>>,
         jobs'[Len(log) + 1].phase \in {"posted", "none"},
         \A i \in Slots : \/ jobs'[i] = jobs[i]
                          \/ jobs'[i].phase \in {"done", "dead"}
  PROVE  IdInv'
<1>1. PICK n \in Nat : n = Len(log) + 1
  BY DEF TypeOK
<1>2. /\ Len(log) \in Nat /\ Slots = 1 .. Len(log)
      /\ Slots' = Slots \cup {n} /\ Len(log') = n
      /\ \A i \in Slots : log'[i] = log[i]
  BY <1>1 DEF TypeOK, Slots
<1>3. \A d \in DOMAIN commits : commits[d].slot # n
  BY <1>1, <1>2 DEF IdInv, CommitsHaveJobs
<1>4. CommitsHaveJobs'
  BY <1>1, <1>2 DEF IdInv, CommitsHaveJobs
<1>5. ~Admitted(n)'
  BY <1>1, <1>3 DEF Admitted, AdmittedPhases, Phase
<1>6. ASSUME NEW i \in Slots, Admitted(i)' PROVE Admitted(i)
  <2>1. CASE jobs'[i] = jobs[i]
    BY <1>6, <2>1 DEF Admitted, Phase
  <2>2. CASE jobs'[i].phase \in {"done", "dead"}
    BY <1>6, <2>2 DEF Admitted, AdmittedPhases, Phase
  <2> QED BY <2>1, <2>2
<1>7. ASSUME NEW i \in Slots PROVE Screened(i)'
  <2>1. Readable(i)' = Readable(i) /\ log'[i] = log[i]
    BY <1>2 DEF Readable, Class, Req
  <2>2. Screened(i)
    BY DEF IdInv
  <2>3. CASE jobs'[i] = jobs[i]
    BY <1>6, <2>1, <2>2, <2>3 DEF Screened, Phase
  <2>4. CASE jobs'[i].phase \in {"done", "dead"}
    BY <1>6, <2>1, <2>2, <2>4 DEF Screened, Phase
  <2> QED BY <2>3, <2>4
<1>8. Screened(n)'
  BY <1>1, <1>5 DEF Screened, Phase
<1> QED BY <1>2, <1>4, <1>5, <1>6, <1>7, <1>8, NobodyAdmitted

LEMMA PostKeepsIds ==
  ASSUME TypeOK, IdInv, NEW author \in {"owner", "other"}, NEW r,
         Post(author, r)
  PROVE  IdInv'
<1>1. jobs \in Seq(Job) /\ Len(jobs) = Len(log) /\ Slots = 1 .. Len(jobs)
  BY DEF TypeOK, Slots
<1>2. jobs' = Append(jobs, NewJob("posted"))
  BY DEF Post
<1>3. /\ \A i \in Slots : jobs'[i] = jobs[i]
      /\ jobs'[Len(log) + 1] = NewJob("posted")
  BY <1>1, <1>2
<1>4. jobs'[Len(log) + 1].phase = "posted"
  BY <1>3 DEF NewJob
<1>5. log' = Append(log, [author |-> author, req |-> r, ans |-> NoAnswer])
  BY DEF Post
<1>6. UNCHANGED <<commits, installed>>
  BY DEF Post, repoVars
<1> QED BY <1>3, <1>4, <1>5, <1>6, LogGrowsKeepsIds

LEMMA PublishKeepsIds ==
  ASSUME TypeOK, IdInv, NEW k \in Slots, NEW p \in {"done", "dead"},
         Publish(k, p)
  PROVE  IdInv'
<1> DEFINE f == [jobs EXCEPT ![k].phase = p]
<1>1. /\ jobs \in Seq(Job) /\ Len(jobs) = Len(log)
      /\ Slots = 1 .. Len(jobs) /\ jobs[k] \in Job
  BY DEF TypeOK, Slots
<1>2. [jobs[k] EXCEPT !.phase = p] \in Job
  BY <1>1 DEF Job, Phases
<1>3. /\ f \in Seq(Job) /\ Len(f) = Len(jobs)
      /\ \A i \in Slots : f[i] = IF i = k THEN [jobs[k] EXCEPT !.phase = p]
                                          ELSE jobs[i]
  BY <1>1, <1>2, ExceptSeq
<1>4. jobs' = Append(f, NewJob("none"))
  BY DEF Publish
<1>5. /\ \A i \in Slots : jobs'[i] = f[i]
      /\ jobs'[Len(log) + 1] = NewJob("none")
  <2> HIDE DEF f
  <2> QED BY <1>1, <1>3, <1>4
<1>6. \A i \in Slots : \/ jobs'[i] = jobs[i]
                       \/ jobs'[i].phase \in {"done", "dead"}
  BY <1>1, <1>3, <1>5 DEF Job
<1>7. jobs'[Len(log) + 1].phase = "none"
  BY <1>5 DEF NewJob
<1>8. log' = Append(log, [author |-> "bot", req |-> Req(k),
                          ans |-> jobs[k].ans])
  BY DEF Publish
<1>9. UNCHANGED <<commits, installed>>
  BY DEF Publish, repoVars
<1> QED BY <1>6, <1>7, <1>8, <1>9, LogGrowsKeepsIds

LEMMA EnqueueKeepsIds ==
  ASSUME TypeOK, IdInv, NEW k \in Slots, Enqueue(k)
  PROVE  IdInv'
<1>1. \A i \in Slots : jobs[i] \in Job
  BY JobType
<1>2. /\ UNCHANGED <<log, commits, installed>> /\ Slots' = Slots
      /\ log[k].author = "owner"
  BY DEF Enqueue, repoVars, Slots
<1>3. /\ jobs'[k].phase = "pending"
      /\ \A i \in Slots : i # k => \/ jobs'[i] = jobs[i]
                                   \/ jobs'[i].phase = "cancelled"
  BY <1>1 DEF Enqueue, Job
<1>4. CommitsHaveJobs'
  BY <1>2 DEF IdInv, CommitsHaveJobs
<1>5. ASSUME NEW i \in Slots, Admitted(i)' PROVE Admitted(i)
  <2>1. CASE i = k
    BY <1>2, <1>3, <1>5, <2>1 DEF Admitted, AdmittedPhases, Phase
  <2>2. CASE i # k /\ jobs'[i] = jobs[i]
    BY <1>2, <1>5, <2>2 DEF Admitted, Phase
  <2>3. CASE i # k /\ jobs'[i].phase = "cancelled"
    BY <1>2, <1>5, <2>3 DEF Admitted, AdmittedPhases, Phase
  <2> QED BY <1>3, <2>1, <2>2, <2>3
<1>6. ASSUME NEW i \in Slots PROVE Screened(i)'
  <2>1. Readable(i)' = Readable(i) /\ log'[i] = log[i]
    BY <1>2 DEF Readable, Class, Req
  <2>2. Screened(i)
    BY DEF IdInv
  <2>3. CASE i = k
    BY <1>2, <1>3, <1>5, <2>1, <2>2, <2>3 DEF Screened, Phase
  <2>4. CASE i # k /\ jobs'[i] = jobs[i]
    BY <1>5, <2>1, <2>2, <2>4 DEF Screened, Phase
  <2>5. CASE i # k /\ jobs'[i].phase = "cancelled"
    BY <1>5, <2>1, <2>2, <2>5 DEF Screened, Phase
  <2> QED BY <1>3, <2>3, <2>4, <2>5
<1> QED BY <1>2, <1>4, <1>5, <1>6, NobodyAdmitted

(* The other steps of a branch make no commit in a job's name.             *)
LEMMA BranchStepKeepsIds ==
  ASSUME TypeInv, IdInv, NEW b \in Branches, BranchStep(b)
  PROVE  IdInv'
<1>1. UNCHANGED <<log, jobs, installed>> /\ Slots' = Slots
  BY DEF BranchStep, OwnerPush, Rewind, Release, CatchUp, Slots
<1>2. /\ DOMAIN commits \subseteq DOMAIN commits'
      /\ \A c \in DOMAIN commits : commits'[c] = commits[c]
      /\ \A c \in DOMAIN commits' \ DOMAIN commits : commits'[c].slot = 0
  <2>1. CASE OwnerPush(b)
    <3>1. ref[b] \in 0 .. Len(commits)
      BY DEF TypeInv, TypeOK
    <3> QED BY <2>1, <3>1, CommitAdded DEF OwnerPush, TypeInv
  <2>2. CASE UNCHANGED commits
    BY <2>2
  <2> QED BY <2>1, <2>2 DEF BranchStep, Rewind, Release, CatchUp
<1>3. CommitsHaveJobs'
  <2>1. installed \subseteq DOMAIN commits /\ Len(log) \in Nat
    BY DEF TypeInv, TypeOK
  <2> QED BY <1>1, <1>2, <2>1 DEF IdInv, CommitsHaveJobs
<1>4. ASSUME NEW i \in Slots, Admitted(i)' PROVE Admitted(i)
  <2>1. i # 0
    BY DEF Slots, TypeInv, TypeOK
  <2> QED BY <1>1, <1>2, <1>4, <2>1 DEF Admitted, Phase
<1>5. ASSUME NEW i \in Slots PROVE Screened(i)'
  <2>1. Readable(i)' = Readable(i) /\ log'[i] = log[i]
    BY <1>1 DEF Readable, Class, Req
  <2>2. Screened(i)
    BY DEF IdInv
  <2> QED BY <1>1, <1>4, <2>1, <2>2 DEF Screened, Phase
<1> QED BY <1>1, <1>3, <1>4, <1>5, NobodyAdmitted

(* A job that commits was admitted before it did.                          *)
LEMMA BuildKeepsIds ==
  ASSUME TypeInv, IdInv, NEW k \in Slots, BuildCandidate(k)
  PROVE  IdInv'
<1>1. CASE ref[Branch(k)] # Req(k).base
  <2>1. Leads(k, {"build"}, {"post"})
    BY <1>1, FailureEffect, UsedKept
    DEF BuildCandidate, TypeInv, Codes, Leads, Quiet, repoVars
  <2> QED BY <2>1, LeadsKeepsIds DEF AdmittedPhases, TypeInv
<1>2. CASE ref[Branch(k)] = Req(k).base
  <2>1. /\ jobs[k] \in Job /\ log[k] \in Comment
        /\ commits \in Seq(CommitRecord) /\ Len(commits) \in Nat
        /\ k \in 1 .. Len(log) /\ Slots = 1 .. Len(log) /\ Len(log) \in Nat
        /\ jobs \in Seq(Job) /\ Len(jobs) = Len(log)
    BY DEF TypeInv, TypeOK, Slots
  <2>2. Branch(k) \in Branches /\ Req(k).base \in 0 .. Len(commits)
    BY <2>1, <1>2 DEF Comment, Request, Req, Branch, TypeInv, TypeOK
  <2>3. /\ DOMAIN commits' = DOMAIN commits \cup {Len(commits')}
        /\ \A c \in DOMAIN commits : commits'[c] = commits[c]
        /\ commits'[Len(commits')].slot = k
    BY <1>2, <2>1, <2>2, CommitAdded DEF BuildCandidate, TypeInv
  <2>4. /\ \A i \in Slots : i # k => jobs'[i] = jobs[i]
        /\ jobs'[k].phase = "lease"
    BY <1>2, <2>1 DEF BuildCandidate, Job
  <2>5. /\ UNCHANGED <<log, installed>> /\ Slots' = Slots
        /\ Phase(k) = "build"
    BY DEF BuildCandidate, Slots
  <2>6. CommitsHaveJobs'
    <3>1. installed \subseteq DOMAIN commits
      BY DEF TypeInv, TypeOK
    <3>2. k \in 0 .. Len(log)
      BY <2>1
    <3>3. \A c \in DOMAIN commits' : commits'[c].slot \in 0 .. Len(log)
      BY <2>3, <3>2 DEF IdInv, CommitsHaveJobs
    <3>4. \A c \in installed : commits'[c].slot \in Slots
      BY <2>3, <3>1 DEF IdInv, CommitsHaveJobs
    <3> QED BY <2>5, <3>3, <3>4 DEF CommitsHaveJobs
  <2>7. ASSUME NEW i \in Slots, Admitted(i)' PROVE Admitted(i)
    <3>1. CASE i = k
      BY <2>5, <3>1 DEF Admitted, AdmittedPhases
    <3>2. CASE i # k
      BY <2>3, <2>4, <2>7, <3>2 DEF Admitted, Phase
    <3> QED BY <3>1, <3>2
  <2>8. ASSUME NEW i \in Slots PROVE Screened(i)'
    <3>1. Readable(i)' = Readable(i) /\ log'[i] = log[i]
      BY <2>5 DEF Readable, Class, Req
    <3>2. Screened(i)
      BY DEF IdInv
    <3>3. CASE i = k
      BY <2>4, <2>7, <3>1, <3>2, <3>3 DEF Screened, Phase
    <3>4. CASE i # k
      BY <2>4, <2>7, <3>1, <3>2, <3>4 DEF Screened, Phase
    <3> QED BY <3>3, <3>4
  <2> QED BY <2>5, <2>6, <2>7, <2>8, NobodyAdmitted
<1> QED BY <1>1, <1>2

(* A push leaves the jobs admitted as they were.                           *)
LEMMA PushKeepsIds ==
  ASSUME TypeInv, IdInv, NEW k \in Slots, Phase(k) = "lease", Install(k),
         NEW p \in {"dispatch", "explain"}, Goto(k, p)
  PROVE  IdInv'
<1>1. /\ OnlyJob(k) /\ jobs'[k].phase = p
  BY GotoEffect DEF TypeInv, Phases, Working
<1>2. /\ UNCHANGED <<log, commits>> /\ Slots' = Slots
      /\ installed' = installed \cup {jobs[k].cand}
  BY DEF Install, Slots
<1>3. CommitsHaveJobs'
  BY <1>2 DEF IdInv, CommitsHaveJobs, TypeInv, CandidateInv
<1>4. ASSUME NEW i \in Slots, Admitted(i)' PROVE Admitted(i)
  <2>1. CASE i = k
    BY <2>1 DEF Admitted, AdmittedPhases
  <2>2. CASE i # k
    BY <1>1, <1>2, <1>4, <2>2 DEF OnlyJob, Admitted, Phase
  <2> QED BY <2>1, <2>2
<1>5. ASSUME NEW i \in Slots PROVE Screened(i)'
  <2>1. Readable(i)' = Readable(i) /\ log'[i] = log[i]
    BY <1>2 DEF Readable, Class, Req
  <2>2. Screened(i)
    BY DEF IdInv
  <2>3. CASE i = k
    BY <1>1, <1>4, <2>1, <2>2, <2>3 DEF Screened, Phase
  <2>4. CASE i # k
    BY <1>1, <1>4, <2>1, <2>2, <2>4 DEF Screened, Phase, OnlyJob
  <2> QED BY <2>3, <2>4
<1> QED BY <1>2, <1>3, <1>4, <1>5, NobodyAdmitted

LEMMA DispatchKeepsIds ==
  ASSUME TypeInv, IdInv, NEW k \in Slots, DispatchCI(k)
  PROVE  IdInv'
<1>1. /\ jobs[k] \in Job /\ jobs \in Seq(Job) /\ Len(jobs) = Len(log)
      /\ Slots = 1 .. Len(jobs)
  BY DEF TypeInv, TypeOK, Slots
<1>2. /\ \A i \in Slots : i # k => jobs'[i] = jobs[i]
      /\ jobs'[k].phase = "confirm"
  BY <1>1 DEF DispatchCI, Job
<1>3. UNCHANGED <<log, commits, installed>> /\ Slots' = Slots
  BY DEF DispatchCI, Slots
<1>4. CommitsHaveJobs'
  BY <1>3 DEF IdInv, CommitsHaveJobs
<1>5. ASSUME NEW i \in Slots, Admitted(i)' PROVE Admitted(i)
  BY <1>2, <1>3, <1>5 DEF Admitted, AdmittedPhases, Phase
<1>6. ASSUME NEW i \in Slots PROVE Screened(i)'
  <2>1. Readable(i)' = Readable(i) /\ log'[i] = log[i]
    BY <1>3 DEF Readable, Class, Req
  <2>2. Screened(i)
    BY DEF IdInv
  <2>3. CASE i = k
    BY <1>2, <1>5, <2>1, <2>2, <2>3 DEF Screened, Phase
  <2>4. CASE i # k
    BY <1>2, <1>5, <2>1, <2>2, <2>4 DEF Screened, Phase
  <2> QED BY <2>3, <2>4
<1> QED BY <1>3, <1>4, <1>5, <1>6, NobodyAdmitted

LEMMA JobKeepsIds ==
  ASSUME TypeInv, IdInv, AllScanned, NEW k \in Slots,
         Preflight(k) \/ Rerun(k) \/ JobStep(k) \/ Fault(k)
  PROVE  IdInv'
<1>1. TypeOK
  BY DEF TypeInv
<1>2. CASE Enqueue(k)
  BY <1>1, <1>2, EnqueueKeepsIds
<1>3. CASE BuildCandidate(k)
  BY <1>3, BuildKeepsIds
<1>4. CASE PushAccepted(k) \/ PushUnacknowledged(k)
  BY <1>4, PushKeepsIds DEF PushAccepted, PushUnacknowledged
<1>5. CASE DispatchCI(k)
  BY <1>5, DispatchKeepsIds
<1>6. CASE PostResult(k) \/ PostUnacknowledged(k)
  BY <1>1, <1>6, PublishKeepsIds DEF PostResult, PostUnacknowledged
<1>7. CASE CheckCollision(k)
  BY <1>1, <1>7, CollisionKeepsIds
<1>8. CASE Start(k)
  BY <1>1, <1>8, StartKeepsIds
<1>9. CASE LookupPrior(k)
  <2>1. Leads(k, {"lookup"}, {"post", "collide"})
    BY <1>1, <1>9, QuietSteps
  <2>2. Readable(k)
    BY <1>9 DEF LookupPrior, IdInv, Screened
  <2> QED BY <1>1, <2>1, <2>2, LeadsKeepsIds DEF AdmittedPhases
<1>10. CASE \/ LookupLocked(k) \/ CheckTask(k) \/ CheckHead(k)
            \/ Ignore(k) \/ Rerun(k) \/ Crash(k) \/ ApiFailure(k)
            \/ PushRefused(k) \/ PushFailed(k) \/ ExplainFailedPush(k)
            \/ DispatchFailed(k) \/ ConfirmRun(k)
  <2>1. \E P, Q : /\ Leads(k, P, Q)
                  /\ "pending" \notin Q
                  /\ Q \cap AdmittedPhases # {} => P \subseteq AdmittedPhases
                  /\ Q \cap {"lookup", "collide"} = {}
    <3>1. CASE LookupLocked(k)
      BY <1>1, <3>1, QuietSteps DEF AdmittedPhases
    <3>2. CASE CheckTask(k)
      BY <1>1, <3>2, QuietSteps DEF AdmittedPhases
    <3>3. CASE CheckHead(k)
      BY <1>1, <3>3, QuietSteps DEF AdmittedPhases
    <3>4. CASE Ignore(k)
      BY <1>1, <3>4, QuietSteps DEF AdmittedPhases
    <3>5. CASE Rerun(k)
      BY <1>1, <3>5, QuietSteps DEF AdmittedPhases
    <3>6. CASE Crash(k)
      BY <1>1, <3>6, QuietSteps DEF AdmittedPhases
    <3>7. CASE ApiFailure(k)
      BY <1>1, <3>7, QuietSteps DEF AdmittedPhases
    <3>8. CASE PushRefused(k)
      BY <1>1, <3>8, QuietSteps DEF AdmittedPhases
    <3>9. CASE PushFailed(k)
      BY <1>1, <3>9, QuietSteps DEF AdmittedPhases
    <3>10. CASE ExplainFailedPush(k)
      BY <1>1, <3>10, QuietSteps DEF AdmittedPhases
    <3>11. CASE DispatchFailed(k)
      BY <1>1, <3>11, QuietSteps DEF AdmittedPhases
    <3>12. CASE ConfirmRun(k)
      BY <1>1, <3>12, QuietSteps DEF AdmittedPhases
    <3> QED BY <1>10, <3>1, <3>2, <3>3, <3>4, <3>5, <3>6, <3>7, <3>8, <3>9,
               <3>10, <3>11, <3>12
  <2> QED BY <1>1, <2>1, LeadsKeepsIds
<1> QED BY <1>2, <1>3, <1>4, <1>5, <1>6, <1>7, <1>8, <1>9, <1>10
        DEF Preflight, JobStep, Fault

LEMMA NextKeepsIds == TypeInv /\ AllScanned /\ IdInv /\ [Next]_vars => IdInv'
<1> SUFFICES ASSUME TypeInv, AllScanned, IdInv, [Next]_vars PROVE IdInv'
  OBVIOUS
<1>1. CASE UNCHANGED vars
  BY <1>1 DEF vars, IdInv, CommitsHaveJobs, Screened, AdmittedAgree, Admitted,
              Readable, Class, Req, Phase, Slots
<1>2. ASSUME NEW author \in {"owner", "other"}, NEW r \in Proposals,
             Post(author, r)
      PROVE  IdInv'
  BY <1>2, PostKeepsIds DEF TypeInv
<1>3. ASSUME NEW k \in Slots,
             Preflight(k) \/ Rerun(k) \/ JobStep(k) \/ Fault(k)
      PROVE  IdInv'
  BY <1>3, JobKeepsIds
<1>4. ASSUME NEW b \in Branches, BranchStep(b) PROVE IdInv'
  BY <1>4, BranchStepKeepsIds
<1> QED BY <1>1, <1>2, <1>3, <1>4 DEF Next

(* One request per request id, as long as no listing was cut off: jobs of  *)
(* two branches, reruns and lost acknowledgements never install commits of *)
(* two different requests under one id, because a job is admitted only     *)
(* after it has read every comment admitted before it.                     *)
THEOREM IdsStandForOneRequest ==
  Spec /\ []AllScanned => []OneRequestPerId
<1>1. Init => IdInv
  BY DEF Init, IdInv, CommitsHaveJobs, AdmittedAgree, Slots
<1>2. TypeInv /\ IdInv => OneRequestPerId
  <2> SUFFICES ASSUME TypeInv, IdInv, NEW c \in installed, NEW d \in installed,
                      Req(commits[c].slot).id = Req(commits[d].slot).id
               PROVE  Req(commits[c].slot) = Req(commits[d].slot)
    BY DEF OneRequestPerId
  <2>1. c \in DOMAIN commits /\ d \in DOMAIN commits
    BY DEF TypeInv, TypeOK
  <2>2. Admitted(commits[c].slot) /\ Admitted(commits[d].slot)
    BY <2>1 DEF Admitted
  <2>3. commits[c].slot \in Slots /\ commits[d].slot \in Slots
    BY DEF IdInv, CommitsHaveJobs
  <2> QED BY <2>2, <2>3 DEF IdInv, AdmittedAgree
<1> QED
  BY <1>1, <1>2, InitTypes, NextKeepsTypes, NextKeepsIds, PTL DEF Spec
=============================================================================
